------------------------- MODULE RdvHandshakeProofs --------------------------
(***************************************************************************)
(* What RdvHandshake promises of every number of operations.  That the     *)
(* addresses are exchanged before either side uses them, and that the      *)
(* first send is synchronous, holds in every deployment, also in those in  *)
(* which an operation may not complete.  That the sides agree takes one in *)
(* which no request is progressed by another, or in which both know of     *)
(* each other before the first start.                                      *)
(***************************************************************************)
EXTENDS RdvHandshake, SequenceTheorems, WellFoundedInduction, TLAPS

\* Where s is in its own calls: a look for the peer returns there.
At(s) == IF pc[s] \in {"probe", "block"} THEN return[s] ELSE pc[s]

\* What s may have sent: acknowledgements only of what it has matched.
Sends(s) ==
  {"info"} \union (IF connected[s] THEN {"infoAck"} ELSE {})
           \union (IF s = "S" THEN {"payload"}
                   ELSE IF op["R"] > 0 THEN {"payloadAck"} ELSE {})

OfKind(kinds) == {m \in Message : m.kind \in kinds}

KindInv == \A s \in Side : transit[s] \in Seq(OfKind(Sends(s)))

\* A side has left receive_rdma_info only when its peer has taken its addresses.
ConnInv ==
  \A s \in Side :
    /\ infoSend[s] = "done" => connected[Peer(s)]
    /\ connected[s] /\ pc[s] # "block" => infoSend[s] = "done"
    /\ type[s] = "rdma" => connected[s] /\ infoSend[s] = "done"
    /\ pc[s] = "new" => ~connected[s] /\ type[s] = "search" /\ op[s] = 0
    /\ return[s] # "new"
    /\ type[s] = "plain" => pc[s] \in {"idle", "wait"} /\ ~connected[s]
    /\ type[s] = "plain" <=> s \notin Persistent

\* A persistent sender is past its first message only when the receiver has started.
MatchInv ==
  /\ \A s \in Side : At(s) \notin {"new", "idle"} => op[s] > 0
  /\ backup["R"] = "pending" => op["R"] > 0
  /\ "S" \in Persistent =>
       /\ At("S") = "wait" => type["S"] = "fallback"
       /\ \/ backup["S"] = "done"
          \/ At("S") = "sent"
          \/ type["S"] = "fallback"
          \/ At("S") = "idle" /\ op["S"] > 0
          => op["R"] > 0

\* Without other requests a side that falls back is not connected any more.
AloneInv ==
  ~deployment.others =>
    /\ \A s \in Side : type[s] = "fallback" => pc[s] \in {"idle", "wait"} /\ ~connected[s]
    /\ return["S"] # "sent"
    /\ pc["S"] = "sent" /\ connected["S"] => type["S"] = "rdma"

\* Sides that know of each other connect in the look at the begin of their first
\* start.
FirstLook(s) == /\ pc[s] = "probe" /\ return[s] \in {"post", "fallback?"}
                /\ Iprobe(s, "info")

InitsFirstInv ==
  deployment.setup = "initsFirst" /\ Persistent = Side =>
    \A s \in Side :
      /\ type[s] # "fallback"
      /\ op[s] > 0 => connected[s] \/ FirstLook(s)
      /\ \/ At(s) \in {"sent", "wait"}
         \/ At(s) = "idle" /\ op[s] > 0
         => type[s] = "rdma"

IInv == /\ TypeOK /\ KindInv /\ ConnInv /\ MatchInv
        /\ AloneInv /\ InitsFirstInv

-----------------------------------------------------------------------------
(* Sequences of messages. *)

LEMMA Sides == Side = {"S", "R"} /\ Peer("S") = "R" /\ Peer("R") = "S"
  BY DEF Side, Peer

LEMMA LeastExists ==
  ASSUME NEW T \in SUBSET Nat, T # {}
  PROVE  \E i \in T : \A j \in T : i <= j
<1> DEFINE R == OpToRel(<, Nat)
<1>1. IsWellFoundedOn(R, Nat)
  BY NatLessThanWellFounded
<1>2. PICK x \in T : \A y \in T : ~ (<<y, x>> \in R)
  <2> HIDE DEF R
  <2> QED
    BY <1>1, WFMin
<1>3. \A a, b \in Nat : a < b => <<a, b>> \in R
  BY DEF OpToRel
<1>4. \A y \in T : ~ (y < x)
  <2> HIDE DEF R
  <2> QED
    BY <1>2, <1>3
<1> QED
  BY <1>4

\* An element is taken out of a sequence.
LEMMA Removed ==
  ASSUME NEW T, NEW q \in Seq(T), NEW i \in 1 .. Len(q)
  PROVE  RemoveAt(q, i) \in Seq(T)
<1>1. Len(q) \in Nat /\ i \in Int /\ \A j \in 1 .. Len(q) : q[j] \in T
  OBVIOUS
<1>2. SubSeq(q, 1, i - 1) \in Seq(T)
  BY <1>1, SubSeqProperties
<1>3. SubSeq(q, i + 1, Len(q)) \in Seq(T)
  BY <1>1, SubSeqProperties
<1> QED
  BY <1>2, <1>3, ConcatProperties DEF RemoveAt

LEMMA KindsIncluded ==
  ASSUME NEW K, NEW L, K \subseteq L
  PROVE  Seq(OfKind(K)) \subseteq Seq(OfKind(L)) /\ Seq(OfKind(K)) \subseteq Seq(Message)
<1>1. OfKind(K) \subseteq OfKind(L) /\ OfKind(K) \subseteq Message
  BY DEF OfKind
<1> QED
  BY <1>1

LEMMA MessageKinds ==
  /\ Info \in OfKind({"info"}) /\ InfoAck \in OfKind({"infoAck"})
  /\ \A n \in 1 .. MaxOp : Payload(n) \in OfKind({"payload"})
                           /\ PayloadAck(n) \in OfKind({"payloadAck"})
  BY DEF Info, InfoAck, Payload, PayloadAck, OfKind, Message

\* What s sends joins its messages.
LEMMA Sent ==
  ASSUME NEW K, NEW q \in Seq(OfKind(K)), NEW kind \in K, NEW m \in OfKind({kind})
  PROVE  Append(q, m) \in Seq(OfKind(K)) /\ Append(q, m) \in Seq(Message)
<1>1. m \in OfKind(K)
  BY DEF OfKind
<1>2. Append(q, m) \in Seq(OfKind(K))
  BY <1>1, AppendProperties
<1> QED
  BY <1>2, KindsIncluded

LEMMA FirstArrived ==
  ASSUME TypeOK, NEW s \in Side, NEW kind, Iprobe(s, kind)
  PROVE  /\ First(s, kind) \in 1 .. Len(mailbox[s])
         /\ mailbox[s][First(s, kind)] \in OfKind({kind})
<1>1. mailbox[s] \in Seq(Message)
  BY DEF TypeOK
<1>2. /\ DOMAIN mailbox[s] = 1 .. Len(mailbox[s]) /\ Len(mailbox[s]) \in Nat
      /\ \A i \in 1 .. Len(mailbox[s]) : mailbox[s][i] \in Message
  BY <1>1
<1>3. Arrived(s, kind) \in SUBSET Nat /\ Arrived(s, kind) # {}
  BY <1>2 DEF Arrived, Iprobe
<1>4. \E i \in Arrived(s, kind) : \A j \in Arrived(s, kind) : i <= j
  BY <1>3, LeastExists
<1>5. First(s, kind) \in Arrived(s, kind)
  BY <1>4 DEF First
<1> QED
  BY <1>2, <1>5 DEF Arrived, OfKind

\* What a side may have sent only grows.
LEMMA SendsGrow ==
  ASSUME \A s \in Side : connected[s] => connected'[s],
         op["R"] > 0 => op'["R"] > 0,
         NEW s \in Side, NEW q \in Seq(OfKind(Sends(s)))
  PROVE  q \in Seq(OfKind(Sends(s)'))
<1>1. Sends(s) \subseteq Sends(s)'
  BY DEF Sends
<1> QED
  BY <1>1, KindsIncluded

LEMMA KindKept ==
  ASSUME KindInv, transit' = transit,
         \A s \in Side : connected[s] => connected'[s],
         op["R"] > 0 => op'["R"] > 0
  PROVE  KindInv'
  BY SendsGrow DEF KindInv

\* The receive takes the first payload, or waits for one.
LEMMA PostRecvStep ==
  ASSUME TypeOK, KindInv, PostRecv,
         \A s \in Side : connected[s] => connected'[s], op'["R"] > 0
  PROVE  /\ backup' \in [Side -> {"null", "pending", "done"}]
         /\ backup'["S"] = backup["S"] /\ mailbox'["S"] = mailbox["S"]
         /\ mailbox' \in [Side -> Seq(Message)] /\ recvBuf' \in 0 .. MaxOp
         /\ transit' \in [Side -> Seq(Message)]
         /\ KindInv'
<1> USE Sides
<1>1. \A s \in Side : transit[s] \in Seq(OfKind(Sends(s)'))
  BY SendsGrow DEF KindInv
<1>2. CASE Iprobe("R", "payload")
  <2> DEFINE i == First("R", "payload")
             n == mailbox["R"][i].n
  <2>1. /\ backup' = [backup EXCEPT !["R"] = "done"]
        /\ mailbox' = [mailbox EXCEPT !["R"] = RemoveAt(mailbox["R"], i)]
        /\ transit' = [transit EXCEPT !["R"] = Append(transit["R"], PayloadAck(n))]
        /\ recvBuf' = n
    BY <1>2 DEF PostRecv, Send
  <2>2. i \in 1 .. Len(mailbox["R"]) /\ n \in 1 .. MaxOp
    <3>1. i \in 1 .. Len(mailbox["R"]) /\ mailbox["R"][i] \in OfKind({"payload"})
      BY <1>2, FirstArrived
    <3> QED
      BY <3>1 DEF OfKind, Message
  <2>3. RemoveAt(mailbox["R"], i) \in Seq(Message)
    BY <2>2, Removed DEF TypeOK
  <2>4. /\ Append(transit["R"], PayloadAck(n)) \in Seq(OfKind(Sends("R")'))
        /\ Append(transit["R"], PayloadAck(n)) \in Seq(Message)
    <3>1. "payloadAck" \in Sends("R")' /\ PayloadAck(n) \in OfKind({"payloadAck"})
      BY <2>2, MessageKinds DEF Sends
    <3> QED
      BY <1>1, <3>1, Sent
  <2>5. recvBuf' \in 0 .. MaxOp
    BY <2>1, <2>2
  <2> QED
    BY <1>1, <2>1, <2>3, <2>4, <2>5 DEF TypeOK, KindInv
<1>3. CASE ~Iprobe("R", "payload")
  <2>1. /\ backup' = [backup EXCEPT !["R"] = "pending"]
        /\ UNCHANGED <<mailbox, recvBuf, transit>>
    BY <1>3 DEF PostRecv
  <2> QED
    BY <1>1, <2>1 DEF TypeOK, KindInv
<1> QED
  BY <1>2, <1>3

LEMMA InitIInv == Init => IInv
<1> SUFFICES ASSUME Init PROVE IInv
  OBVIOUS
<1>1. deployment \in Deployment /\ MaxOp \in Nat
  BY HandshakeAssumption DEF Init
<1>2. TypeOK
  BY <1>1 DEF Init, TypeOK, Side, Types, PCs
<1>3. KindInv
  BY DEF Init, KindInv
<1>4. ConnInv
  BY DEF Init, ConnInv, Side, Peer, Persistent
<1>5. MatchInv /\ AloneInv /\ InitsFirstInv
  BY <1>1 DEF Init, MatchInv, AloneInv, InitsFirstInv, FirstLook, At, Side, Persistent
<1> QED
  BY <1>2, <1>3, <1>4, <1>5 DEF IInv

-----------------------------------------------------------------------------
(* The steps. *)

LEMMA IprobeKept ==
  ASSUME NEW s, NEW kind, mailbox'[s] = mailbox[s]
  PROVE  Iprobe(s, kind)' <=> Iprobe(s, kind)
  BY DEF Iprobe, Arrived

LEMMA InitRequestStep == ASSUME IInv, NEW s \in Side, InitRequest(s) PROVE IInv'
<1>1. TypeOK /\ KindInv /\ ConnInv /\ MatchInv /\ AloneInv /\ InitsFirstInv
  BY DEF IInv
<1>2. /\ transit' = [transit EXCEPT ![s] = Append(transit[s], Info)]
      /\ connected' = connected /\ op' = op
  BY DEF InitRequest, Send
<1>3. /\ Append(transit[s], Info) \in Seq(OfKind(Sends(s)))
      /\ Append(transit[s], Info) \in Seq(Message)
  <2>1. transit[s] \in Seq(OfKind(Sends(s))) /\ "info" \in Sends(s)
    BY <1>1 DEF KindInv, Sends
  <2> QED
    BY <2>1, MessageKinds, Sent
<1>4. TypeOK'
  BY <1>1, <1>2, <1>3 DEF InitRequest, TypeOK, PCs
<1>5. KindInv'
  <2>1. \A r \in Side : Sends(r)' = Sends(r)
    BY <1>2 DEF Sends
  <2> QED
    BY <1>1, <1>2, <1>3, <2>1 DEF KindInv, TypeOK
<1>6. ConnInv'
  BY <1>1, Sides DEF InitRequest, ConnInv, TypeOK, Persistent
<1>7. MatchInv'
  BY <1>1, Sides DEF InitRequest, MatchInv, ConnInv, At, TypeOK, Persistent
<1>8. AloneInv'
  BY <1>1, Sides DEF InitRequest, AloneInv, ConnInv, TypeOK
<1>9. InitsFirstInv'
  BY <1>1, IprobeKept DEF InitRequest, InitsFirstInv, ConnInv, FirstLook, At, TypeOK, Persistent
<1> QED
  BY <1>4, <1>5, <1>6, <1>7, <1>8, <1>9 DEF IInv

LEMMA StartSearchingStep == ASSUME IInv, NEW s \in Side, StartSearching(s) PROVE IInv'
<1>1. TypeOK /\ KindInv /\ ConnInv /\ MatchInv /\ AloneInv /\ InitsFirstInv
  BY DEF IInv
<1>2. UNCHANGED <<deployment, type, connected, infoSend, backup, mailbox, recvBuf, transit>>
  BY DEF StartSearching, KeepMessages
<1>3. op' = [op EXCEPT ![s] = 1] /\ 1 \in 0 .. MaxOp
  BY HandshakeAssumption DEF StartSearching
<1>4. TypeOK'
  BY <1>1, <1>2, <1>3 DEF StartSearching, TypeOK, PCs
<1>5. KindInv'
  BY <1>1, <1>2, <1>3, KindKept DEF TypeOK
<1>6. ConnInv'
  BY <1>1, <1>2, Sides DEF StartSearching, ConnInv, TypeOK, Persistent
<1>7. MatchInv'
  BY <1>1, <1>2, <1>3, Sides DEF StartSearching, MatchInv, At, TypeOK, Persistent
<1>8. AloneInv'
  BY <1>1, <1>2, Sides DEF StartSearching, AloneInv, TypeOK
<1>9. InitsFirstInv'
  <2>1. deployment.setup = "initsFirst" /\ Persistent = Side =>
          connected[s] \/ Iprobe(s, "info")
    BY Sides DEF StartSearching, SetUp, Announced
  <2> QED
    BY <1>1, <1>2, <1>3, <2>1, IprobeKept, Sides
       DEF StartSearching, InitsFirstInv, FirstLook, At, TypeOK, Persistent
<1> QED
  BY <1>4, <1>5, <1>6, <1>7, <1>8, <1>9 DEF IInv

\* A look for the peer ends: at once, or after its addresses have been taken.
LEMMA LookEnds ==
  ASSUME IInv, NEW s \in Side,
         \/ pc[s] = "probe" /\ (connected[s] \/ ~Iprobe(s, "info"))
         \/ pc[s] = "block" /\ infoSend[s] = "done",
         pc' = [pc EXCEPT ![s] = return[s]],
         IF PostsReceive(s) THEN PostRecv ELSE KeepMessages,
         UNCHANGED <<deployment, type, op, return, connected, infoSend>>
  PROVE  IInv'
<1>1. TypeOK /\ KindInv /\ ConnInv /\ MatchInv /\ AloneInv /\ InitsFirstInv
  BY DEF IInv
<1>2. /\ backup' \in [Side -> {"null", "pending", "done"}]
      /\ backup'["S"] = backup["S"] /\ mailbox'["S"] = mailbox["S"]
      /\ mailbox' \in [Side -> Seq(Message)] /\ recvBuf' \in 0 .. MaxOp
      /\ transit' \in [Side -> Seq(Message)]
      /\ KindInv'
      /\ backup'["R"] # backup["R"] => op["R"] > 0
      /\ mailbox'["R"] # mailbox["R"] => s = "R" /\ connected["R"]
  <2>1. CASE PostsReceive(s)
    <3>1. PostRecv /\ op'["R"] > 0 /\ op["R"] > 0 /\ s = "R" /\ connected["R"]
      BY <2>1 DEF PostsReceive
    <3> QED
      BY <1>1, <3>1, PostRecvStep
  <2>2. CASE ~PostsReceive(s)
    BY <1>1, <2>2, KindKept DEF KeepMessages, TypeOK
  <2> QED
    BY <2>1, <2>2
<1>3. TypeOK'
  BY <1>1, <1>2 DEF TypeOK
<1>4. ConnInv'
  BY <1>1, Sides DEF ConnInv, TypeOK, Persistent
<1>5. MatchInv'
  <2>1. \A r \in Side : At(r)' = At(r)
    BY <1>1 DEF At, TypeOK
  <2>2. Persistent' = Persistent /\ op' = op /\ type' = type
    BY DEF Persistent
  <2> QED
    BY <1>1, <1>2, <2>1, <2>2, Sides DEF MatchInv
<1>6. AloneInv'
  BY <1>1, Sides DEF AloneInv, TypeOK
<1>7. InitsFirstInv'
  BY <1>1, <1>2, IprobeKept, Sides DEF InitsFirstInv, ConnInv, FirstLook, At, TypeOK, Persistent
<1> QED
  BY <1>2, <1>3, <1>4, <1>5, <1>6, <1>7 DEF IInv

LEMMA ProbeNothingStep == ASSUME IInv, NEW s \in Side, ProbeNothing(s) PROVE IInv'
<1>1. CASE PostsReceive(s)
  BY <1>1, LookEnds DEF ProbeNothing
<1>2. CASE ~PostsReceive(s)
  BY <1>2, LookEnds DEF ProbeNothing
<1> QED
  BY <1>1, <1>2

LEMMA PeerTookInfoStep == ASSUME IInv, NEW s \in Side, PeerTookInfo(s) PROVE IInv'
<1>1. CASE PostsReceive(s)
  BY <1>1, LookEnds DEF PeerTookInfo
<1>2. CASE ~PostsReceive(s)
  BY <1>2, LookEnds DEF PeerTookInfo
<1> QED
  BY <1>1, <1>2

LEMMA ProbeFindsPeerStep == ASSUME IInv, NEW s \in Side, ProbeFindsPeer(s) PROVE IInv'
<1> DEFINE i == First(s, "info")
<1>1. TypeOK /\ KindInv /\ ConnInv /\ MatchInv /\ AloneInv /\ InitsFirstInv
  BY DEF IInv
<1>2. /\ connected' = [connected EXCEPT ![s] = TRUE]
      /\ mailbox' = [mailbox EXCEPT ![s] = RemoveAt(mailbox[s], i)]
      /\ transit' = [transit EXCEPT ![s] = Append(transit[s], InfoAck)]
      /\ pc' = [pc EXCEPT ![s] = "block"]
      /\ UNCHANGED <<deployment, type, op, return, infoSend, backup, recvBuf>>
      /\ pc[s] = "probe" /\ ~connected[s]
  BY DEF ProbeFindsPeer, Send
<1>3. RemoveAt(mailbox[s], i) \in Seq(Message)
  <2>1. i \in 1 .. Len(mailbox[s])
    BY <1>1, FirstArrived DEF ProbeFindsPeer
  <2> QED
    BY <1>1, <2>1, Removed DEF TypeOK
<1>4. \A r \in Side : transit[r] \in Seq(OfKind(Sends(r)'))
  BY <1>1, <1>2, SendsGrow DEF KindInv, TypeOK
<1>5. /\ Append(transit[s], InfoAck) \in Seq(OfKind(Sends(s)'))
      /\ Append(transit[s], InfoAck) \in Seq(Message)
  <2>1. "infoAck" \in Sends(s)'
    BY <1>1, <1>2 DEF Sends, TypeOK
  <2> QED
    BY <1>4, <2>1, MessageKinds, Sent
<1>6. TypeOK'
  BY <1>1, <1>2, <1>3, <1>5 DEF TypeOK, PCs
<1>7. KindInv'
  BY <1>1, <1>2, <1>4, <1>5 DEF KindInv, TypeOK
<1>8. ConnInv'
  BY <1>1, <1>2, Sides DEF ConnInv, TypeOK, Persistent
<1>9. MatchInv'
  <2>1. \A r \in Side : At(r)' = At(r)
    BY <1>1, <1>2 DEF At, TypeOK
  <2> QED
    BY <1>1, <1>2, <2>1, Sides DEF MatchInv, Persistent
<1>10. AloneInv'
  BY <1>1, <1>2, Sides DEF AloneInv, TypeOK
<1>11. InitsFirstInv'
  <2>1. \A r \in Side : r # s => mailbox'[r] = mailbox[r] /\ pc'[r] = pc[r]
    BY <1>1, <1>2 DEF TypeOK
  <2>2. \A r \in Side : At(r)' = At(r)
    BY <1>1, <1>2 DEF At, TypeOK
  <2>3. \A r \in Side : connected[r] => connected'[r]
    BY <1>1, <1>2 DEF TypeOK
  <2>4. connected'[s]
    BY <1>1, <1>2 DEF TypeOK
  <2>5. \A r \in Side : r # s /\ FirstLook(r) => FirstLook(r)'
    BY <1>2, <2>1, IprobeKept DEF FirstLook
  <2> QED
    BY <1>1, <1>2, <2>2, <2>3, <2>4, <2>5 DEF InitsFirstInv, Persistent
<1> QED
  BY <1>6, <1>7, <1>8, <1>9, <1>10, <1>11 DEF IInv

LEMMA ProgressFromOthersStep ==
  ASSUME IInv, NEW s \in Side, ProgressFromOthers(s) PROVE IInv'
<1>1. TypeOK /\ KindInv /\ ConnInv /\ MatchInv /\ AloneInv /\ InitsFirstInv
  BY DEF IInv
<1>2. UNCHANGED <<deployment, type, op, connected, infoSend, backup, mailbox, recvBuf, transit>>
  BY DEF ProgressFromOthers, KeepMessages
<1>3. TypeOK'
  BY <1>1, <1>2 DEF ProgressFromOthers, TypeOK, PCs
<1>4. KindInv'
  BY <1>1, <1>2, KindKept
<1>5. ConnInv'
  BY <1>1, <1>2, Sides DEF ProgressFromOthers, ConnInv, TypeOK, Persistent
<1>6. \A r \in Side : At(r)' = At(r)
  BY <1>1 DEF ProgressFromOthers, At, TypeOK
<1>7. MatchInv'
  BY <1>1, <1>2, <1>6, Sides DEF MatchInv, Persistent
<1>8. AloneInv'
  BY <1>2 DEF ProgressFromOthers, AloneInv
<1>9. InitsFirstInv'
  BY <1>1, <1>2, <1>6, IprobeKept, Sides
     DEF ProgressFromOthers, InitsFirstInv, FirstLook, TypeOK, Persistent
<1> QED
  BY <1>3, <1>4, <1>5, <1>7, <1>8, <1>9 DEF IInv

LEMMA ProgressFallbackStep ==
  ASSUME IInv, NEW s \in Side, ProgressFallback(s) PROVE IInv'
<1>1. TypeOK /\ KindInv /\ ConnInv /\ MatchInv /\ AloneInv /\ InitsFirstInv
  BY DEF IInv
<1>2. /\ backup' = [backup EXCEPT ![s] = "null"]
      /\ UNCHANGED <<deployment, type, op, pc, return, connected, infoSend, mailbox, recvBuf,
                     transit>>
  BY DEF ProgressFallback
<1>3. TypeOK'
  BY <1>1, <1>2 DEF TypeOK
<1>4. KindInv'
  BY <1>1, <1>2, KindKept
<1>5. ConnInv'
  BY <1>1, <1>2 DEF ConnInv, Persistent
<1>6. MatchInv'
  BY <1>1, <1>2, Sides DEF MatchInv, At, TypeOK, Persistent
<1>7. AloneInv'
  BY <1>1, <1>2 DEF AloneInv
<1>8. InitsFirstInv'
  BY <1>1, <1>2, IprobeKept DEF InitsFirstInv, FirstLook, At, Persistent
<1> QED
  BY <1>3, <1>4, <1>5, <1>6, <1>7, <1>8 DEF IInv

LEMMA ProgressWhileBlockedStep == ASSUME IInv, ProgressWhileBlocked PROVE IInv'
<1>1. TypeOK /\ KindInv /\ ConnInv /\ MatchInv /\ AloneInv /\ InitsFirstInv
  BY DEF IInv
<1>2. /\ UNCHANGED <<deployment, type, op, pc, return, connected, infoSend>>
      /\ op["R"] > 0 /\ PostRecv /\ connected["R"]
  BY DEF ProgressWhileBlocked, PostsReceive
<1>3. /\ backup' \in [Side -> {"null", "pending", "done"}]
      /\ backup'["S"] = backup["S"] /\ mailbox'["S"] = mailbox["S"]
      /\ mailbox' \in [Side -> Seq(Message)] /\ recvBuf' \in 0 .. MaxOp
      /\ transit' \in [Side -> Seq(Message)]
      /\ KindInv'
  BY <1>1, <1>2, PostRecvStep
<1>4. TypeOK'
  BY <1>1, <1>2, <1>3 DEF TypeOK
<1>5. ConnInv'
  BY <1>1, <1>2 DEF ConnInv, Persistent
<1>6. MatchInv'
  BY <1>1, <1>2, <1>3, Sides DEF MatchInv, At, Persistent
<1>7. AloneInv'
  BY <1>1, <1>2 DEF AloneInv
<1>8. InitsFirstInv'
  BY <1>1, <1>2, <1>3, IprobeKept, Sides DEF InitsFirstInv, FirstLook, At, Persistent
<1> QED
  BY <1>3, <1>4, <1>5, <1>6, <1>7, <1>8 DEF IInv

LEMMA IssendPayloadStep == ASSUME IInv, IssendPayload PROVE IInv'
<1> USE Sides
<1> DEFINE m == Payload(op["S"])
<1>1. TypeOK /\ KindInv /\ ConnInv /\ MatchInv /\ AloneInv /\ InitsFirstInv
  BY DEF IInv
<1>2. /\ backup' = [backup EXCEPT !["S"] = "pending"]
      /\ transit' = [transit EXCEPT !["S"] = Append(transit["S"], m)]
      /\ pc' = [pc EXCEPT !["S"] = "started"] /\ pc["S"] = "post"
      /\ UNCHANGED <<deployment, type, op, return, connected, infoSend, mailbox, recvBuf>>
  BY DEF IssendPayload, Send
<1>3. /\ Append(transit["S"], m) \in Seq(OfKind(Sends("S")))
      /\ Append(transit["S"], m) \in Seq(Message)
  <2>1. op["S"] \in 1 .. MaxOp
    BY <1>1, <1>2, HandshakeAssumption DEF TypeOK, MatchInv, At
  <2>2. m \in OfKind({"payload"})
    BY <2>1, MessageKinds
  <2>3. "payload" \in Sends("S") /\ transit["S"] \in Seq(OfKind(Sends("S")))
    BY <1>1 DEF Sends, KindInv
  <2> QED
    BY <2>2, <2>3, Sent
<1>4. TypeOK'
  BY <1>1, <1>2, <1>3 DEF TypeOK, PCs
<1>5. KindInv'
  <2>1. \A r \in Side : Sends(r)' = Sends(r)
    BY <1>2 DEF Sends
  <2> QED
    BY <1>1, <1>2, <1>3, <2>1 DEF KindInv, TypeOK
<1>6. ConnInv'
  BY <1>1, <1>2 DEF ConnInv, TypeOK, Persistent
<1>7. MatchInv'
  BY <1>1, <1>2 DEF MatchInv, At, TypeOK, Persistent
<1>8. AloneInv'
  BY <1>1, <1>2 DEF AloneInv, TypeOK
<1>9. InitsFirstInv'
  BY <1>1, <1>2, IprobeKept DEF InitsFirstInv, FirstLook, At, TypeOK, Persistent
<1> QED
  BY <1>4, <1>5, <1>6, <1>7, <1>8, <1>9 DEF IInv

LEMMA FallbackInStartStep == ASSUME IInv, FallbackInStart PROVE IInv'
<1> USE Sides
<1>1. TypeOK /\ KindInv /\ ConnInv /\ MatchInv /\ AloneInv /\ InitsFirstInv
  BY DEF IInv
<1>2. /\ pc' = [pc EXCEPT !["R"] = "started"] /\ pc["R"] = "fallback?"
      /\ UNCHANGED <<deployment, type, op, return, connected, infoSend>>
  BY DEF FallbackInStart
<1>3. op["R"] > 0 /\ op'["R"] > 0
  BY <1>1, <1>2 DEF MatchInv, At
<1>4. /\ backup' \in [Side -> {"null", "pending", "done"}]
      /\ backup'["S"] = backup["S"] /\ mailbox'["S"] = mailbox["S"]
      /\ mailbox' \in [Side -> Seq(Message)] /\ recvBuf' \in 0 .. MaxOp
      /\ transit' \in [Side -> Seq(Message)]
      /\ KindInv'
  <2>1. CASE PostRecv
    BY <1>1, <1>2, <1>3, <2>1, PostRecvStep
  <2>2. CASE KeepMessages
    BY <1>1, <1>2, <2>2, KindKept DEF KeepMessages, TypeOK
  <2> QED
    BY <2>1, <2>2 DEF FallbackInStart
<1>5. TypeOK'
  BY <1>1, <1>2, <1>4 DEF TypeOK, PCs
<1>6. ConnInv'
  BY <1>1, <1>2 DEF ConnInv, TypeOK, Persistent
<1>7. MatchInv'
  BY <1>1, <1>2, <1>3, <1>4 DEF MatchInv, At, TypeOK, Persistent
<1>8. AloneInv'
  BY <1>1, <1>2 DEF AloneInv, TypeOK
<1>9. InitsFirstInv'
  BY <1>1, <1>2, <1>4, IprobeKept DEF InitsFirstInv, FirstLook, At, TypeOK, Persistent
<1> QED
  BY <1>4, <1>5, <1>6, <1>7, <1>8, <1>9 DEF IInv

LEMMA DecideStep == ASSUME IInv, Decide PROVE IInv'
<1> USE Sides
<1>1. TypeOK /\ KindInv /\ ConnInv /\ MatchInv /\ AloneInv /\ InitsFirstInv
  BY DEF IInv
<1>2. /\ pc' = [pc EXCEPT !["R"] = "wait"] /\ pc["R"] = "decide"
      /\ type' = [type EXCEPT !["R"] = IF connected["R"] THEN "rdma" ELSE "fallback"]
      /\ UNCHANGED <<deployment, op, return, connected, infoSend>>
  BY DEF Decide
<1>3. op["R"] > 0 /\ op'["R"] > 0
  BY <1>1, <1>2 DEF MatchInv, At
<1>4. /\ backup' \in [Side -> {"null", "pending", "done"}]
      /\ backup'["S"] = backup["S"] /\ mailbox'["S"] = mailbox["S"]
      /\ mailbox' \in [Side -> Seq(Message)] /\ recvBuf' \in 0 .. MaxOp
      /\ transit' \in [Side -> Seq(Message)]
      /\ KindInv'
  <2>1. CASE PostRecv
    BY <1>1, <1>2, <1>3, <2>1, PostRecvStep
  <2>2. CASE KeepMessages
    BY <1>1, <1>2, <2>2, KindKept DEF KeepMessages, TypeOK
  <2> QED
    BY <2>1, <2>2 DEF Decide
<1>5. TypeOK'
  BY <1>1, <1>2, <1>4 DEF TypeOK, PCs, Types
<1>6. ConnInv'
  BY <1>1, <1>2 DEF ConnInv, TypeOK, Persistent
<1>7. MatchInv'
  BY <1>1, <1>2, <1>3, <1>4 DEF MatchInv, At, TypeOK, Persistent
<1>8. AloneInv'
  BY <1>1, <1>2 DEF AloneInv, TypeOK
<1>9. InitsFirstInv'
  BY <1>1, <1>2, <1>3, <1>4, IprobeKept DEF InitsFirstInv, FirstLook, At, TypeOK, Persistent
<1> QED
  BY <1>4, <1>5, <1>6, <1>7, <1>8, <1>9 DEF IInv

LEMMA WaitSearchingSendStep == ASSUME IInv, WaitSearchingSend PROVE IInv'
<1> USE Sides
<1>1. TypeOK /\ KindInv /\ ConnInv /\ MatchInv /\ AloneInv /\ InitsFirstInv
  BY DEF IInv
<1>2. UNCHANGED <<deployment, type, op, connected, infoSend, backup, mailbox, recvBuf, transit>>
  BY DEF WaitSearchingSend, KeepMessages
<1>3. TypeOK'
  BY <1>1, <1>2 DEF WaitSearchingSend, TypeOK, PCs
<1>4. KindInv'
  BY <1>1, <1>2, KindKept
<1>5. ConnInv'
  BY <1>1, <1>2 DEF WaitSearchingSend, ConnInv, TypeOK, Persistent
<1>6. MatchInv'
  BY <1>1, <1>2 DEF WaitSearchingSend, MatchInv, At, TypeOK, Persistent
<1>7. AloneInv'
  BY <1>1, <1>2 DEF WaitSearchingSend, AloneInv, TypeOK
<1>8. InitsFirstInv'
  BY <1>1, <1>2, IprobeKept DEF WaitSearchingSend, InitsFirstInv, FirstLook, At, TypeOK, Persistent
<1> QED
  BY <1>3, <1>4, <1>5, <1>6, <1>7, <1>8 DEF IInv

LEMMA WaitSearchingRecvStep == ASSUME IInv, WaitSearchingRecv PROVE IInv'
<1> USE Sides
<1>1. TypeOK /\ KindInv /\ ConnInv /\ MatchInv /\ AloneInv /\ InitsFirstInv
  BY DEF IInv
<1>2. UNCHANGED <<deployment, type, op, return, connected, infoSend, backup, mailbox, recvBuf,
                  transit>>
  BY DEF WaitSearchingRecv, KeepMessages
<1>3. TypeOK'
  BY <1>1, <1>2 DEF WaitSearchingRecv, TypeOK, PCs
<1>4. KindInv'
  BY <1>1, <1>2, KindKept
<1>5. ConnInv'
  BY <1>1, <1>2 DEF WaitSearchingRecv, ConnInv, TypeOK, Persistent
<1>6. MatchInv'
  BY <1>1, <1>2 DEF WaitSearchingRecv, MatchInv, At, TypeOK, Persistent
<1>7. AloneInv'
  BY <1>1, <1>2 DEF WaitSearchingRecv, AloneInv, TypeOK
<1>8. InitsFirstInv'
  BY <1>1, <1>2, IprobeKept DEF WaitSearchingRecv, InitsFirstInv, FirstLook, At, TypeOK, Persistent
<1> QED
  BY <1>3, <1>4, <1>5, <1>6, <1>7, <1>8 DEF IInv

LEMMA SearchRoundStep == ASSUME IInv, SearchRound PROVE IInv'
<1> USE Sides
<1>1. TypeOK /\ KindInv /\ ConnInv /\ MatchInv /\ AloneInv /\ InitsFirstInv
  BY DEF IInv
<1>2. UNCHANGED <<deployment, type, op, connected, infoSend, backup, mailbox, recvBuf, transit>>
  BY DEF SearchRound, KeepMessages
<1>3. TypeOK'
  BY <1>1, <1>2 DEF SearchRound, TypeOK, PCs
<1>4. KindInv'
  BY <1>1, <1>2, KindKept
<1>5. ConnInv'
  BY <1>1, <1>2 DEF SearchRound, ConnInv, TypeOK, Persistent
<1>6. MatchInv'
  BY <1>1, <1>2 DEF SearchRound, MatchInv, At, TypeOK, Persistent
<1>7. AloneInv'
  BY <1>1, <1>2 DEF SearchRound, AloneInv, ConnInv, TypeOK
<1>8. InitsFirstInv'
  BY <1>1, <1>2, IprobeKept DEF SearchRound, InitsFirstInv, MatchInv, FirstLook, At, TypeOK, Persistent
<1> QED
  BY <1>3, <1>4, <1>5, <1>6, <1>7, <1>8 DEF IInv

LEMMA TestPayloadSentStep == ASSUME IInv, TestPayloadSent PROVE IInv'
<1> USE Sides
<1>1. TypeOK /\ KindInv /\ ConnInv /\ MatchInv /\ AloneInv /\ InitsFirstInv
  BY DEF IInv
<1>2. /\ pc["S"] = "test"
      /\ type' = [type EXCEPT !["S"] = IF connected["S"] THEN "rdma" ELSE type["S"]]
      /\ UNCHANGED <<deployment, op, connected, infoSend, mailbox, recvBuf, transit>>
      /\ \/ /\ backup["S"] = "done" /\ backup' = [backup EXCEPT !["S"] = "null"]
            /\ pc' = [pc EXCEPT !["S"] = "sent"] /\ return' = return
         \/ /\ backup' = backup /\ pc' = [pc EXCEPT !["S"] = "probe"]
            /\ return' = [return EXCEPT !["S"] = "test"]
  BY DEF TestPayloadSent, TestPayload
<1>3. op["S"] > 0 /\ type["S"] # "plain"
  BY <1>1, <1>2 DEF MatchInv, ConnInv, At
<1>4. TypeOK'
  BY <1>1, <1>2 DEF TypeOK, PCs, Types
<1>5. KindInv'
  BY <1>1, <1>2, KindKept
<1>6. ConnInv'
  BY <1>1, <1>2 DEF ConnInv, TypeOK, Persistent
<1>7. MatchInv'
  BY <1>1, <1>2, <1>3 DEF MatchInv, ConnInv, At, TypeOK, Persistent
<1>8. AloneInv'
  BY <1>1, <1>2 DEF AloneInv, TypeOK
<1>9. InitsFirstInv'
  BY <1>1, <1>2, <1>3, IprobeKept DEF InitsFirstInv, FirstLook, At, TypeOK, Persistent
<1> QED
  BY <1>4, <1>5, <1>6, <1>7, <1>8, <1>9 DEF IInv

LEMMA LeaveWaitSendStep == ASSUME IInv, LeaveWaitSend PROVE IInv'
<1> USE Sides
<1>1. TypeOK /\ KindInv /\ ConnInv /\ MatchInv /\ AloneInv /\ InitsFirstInv
  BY DEF IInv
<1>2. /\ pc["S"] = "sent" /\ pc' = [pc EXCEPT !["S"] = "idle"]
      /\ type' = [type EXCEPT !["S"] = IF type["S"] = "rdma" THEN "rdma" ELSE "fallback"]
      /\ UNCHANGED <<deployment, op, return, connected, infoSend, backup, mailbox, recvBuf,
                     transit>>
  BY DEF LeaveWaitSend, KeepMessages
<1>3. TypeOK'
  BY <1>1, <1>2 DEF TypeOK, PCs, Types
<1>4. KindInv'
  BY <1>1, <1>2, KindKept
<1>5. ConnInv'
  BY <1>1, <1>2 DEF ConnInv, TypeOK, Persistent
<1>6. MatchInv'
  BY <1>1, <1>2 DEF MatchInv, ConnInv, At, TypeOK, Persistent
<1>7. AloneInv'
  BY <1>1, <1>2 DEF AloneInv, TypeOK
<1>8. InitsFirstInv'
  BY <1>1, <1>2, IprobeKept DEF InitsFirstInv, FirstLook, At, TypeOK, Persistent
<1> QED
  BY <1>3, <1>4, <1>5, <1>6, <1>7, <1>8 DEF IInv

LEMMA StartOrdinaryStep == ASSUME IInv, NEW s \in Side, StartOrdinary(s) PROVE IInv'
<1> USE Sides
<1>1. TypeOK /\ KindInv /\ ConnInv /\ MatchInv /\ AloneInv /\ InitsFirstInv
  BY DEF IInv
<1>2. /\ pc[s] = "idle" /\ pc' = [pc EXCEPT ![s] = "wait"]
      /\ op' = [op EXCEPT ![s] = op[s] + 1] /\ op[s] + 1 \in 1 .. MaxOp
      /\ type[s] \in {"fallback", "plain"}
      /\ UNCHANGED <<deployment, type, return, connected, infoSend>>
  BY <1>1, HandshakeAssumption DEF StartOrdinary, TypeOK
<1>3. /\ backup' \in [Side -> {"null", "pending", "done"}]
      /\ mailbox' \in [Side -> Seq(Message)] /\ mailbox'["S"] = mailbox["S"]
      /\ recvBuf' \in 0 .. MaxOp
      /\ transit' \in [Side -> Seq(Message)]
      /\ KindInv'
      /\ s = "S" => backup'["R"] = backup["R"] /\ mailbox' = mailbox
      /\ s = "R" => backup'["S"] = backup["S"]
  <2>1. CASE s = "S"
    <3> DEFINE m == Payload(op["S"] + 1)
    <3>1. /\ transit' = [transit EXCEPT !["S"] = Append(transit["S"], m)]
          /\ UNCHANGED <<mailbox, recvBuf>>
          /\ \E b \in {"pending", "done"} : backup' = [backup EXCEPT !["S"] = b]
      BY <2>1 DEF StartOrdinary, Send
    <3>2. /\ Append(transit["S"], m) \in Seq(OfKind(Sends("S")))
          /\ Append(transit["S"], m) \in Seq(Message)
      <4>1. m \in OfKind({"payload"})
        BY <1>2, <2>1, MessageKinds
      <4>2. "payload" \in Sends("S") /\ transit["S"] \in Seq(OfKind(Sends("S")))
        BY <1>1 DEF Sends, KindInv
      <4> QED
        BY <4>1, <4>2, Sent
    <3>3. \A r \in Side : Sends(r)' = Sends(r)
      BY <1>1, <1>2, <2>1 DEF Sends, TypeOK
    <3>4. KindInv'
      BY <1>1, <3>1, <3>2, <3>3 DEF KindInv, TypeOK
    <3> QED
      BY <1>1, <2>1, <3>1, <3>2, <3>4 DEF TypeOK
  <2>2. CASE s = "R"
    <3>1. PostRecv /\ op'["R"] > 0
      BY <1>1, <1>2, <2>2 DEF StartOrdinary, TypeOK
    <3> QED
      BY <1>1, <1>2, <2>2, <3>1, PostRecvStep
  <2> QED
    BY <2>1, <2>2
<1>4. op'[s] > 0 /\ (op["R"] > 0 => op'["R"] > 0)
  BY <1>1, <1>2 DEF TypeOK
<1>5. TypeOK'
  BY <1>1, <1>2, <1>3 DEF TypeOK, PCs
<1>6. ConnInv'
  BY <1>1, <1>2 DEF ConnInv, TypeOK, Persistent
<1>7. MatchInv'
  BY <1>1, <1>2, <1>3, <1>4 DEF MatchInv, ConnInv, At, TypeOK, Persistent
<1>8. AloneInv'
  BY <1>1, <1>2 DEF AloneInv, TypeOK
<1>9. InitsFirstInv'
  BY <1>1, <1>2 DEF InitsFirstInv, ConnInv, Persistent
<1> QED
  BY <1>3, <1>5, <1>6, <1>7, <1>8, <1>9 DEF IInv

LEMMA BackupDoneStep == ASSUME IInv, NEW s \in Side, BackupDone(s) PROVE IInv'
<1> USE Sides
<1>1. TypeOK /\ KindInv /\ ConnInv /\ MatchInv /\ AloneInv /\ InitsFirstInv
  BY DEF IInv
<1>2. /\ pc[s] = "wait" /\ pc' = [pc EXCEPT ![s] = "idle"]
      /\ backup' = [backup EXCEPT ![s] = "null"]
      /\ UNCHANGED <<deployment, type, op, return, connected, infoSend, mailbox, recvBuf,
                     transit>>
  BY DEF BackupDone
<1>3. TypeOK'
  BY <1>1, <1>2 DEF TypeOK, PCs
<1>4. KindInv'
  BY <1>1, <1>2, KindKept
<1>5. ConnInv'
  BY <1>1, <1>2 DEF ConnInv, TypeOK, Persistent
<1>6. MatchInv'
  BY <1>1, <1>2 DEF MatchInv, At, TypeOK, Persistent
<1>7. AloneInv'
  BY <1>1, <1>2 DEF AloneInv, TypeOK
<1>8. InitsFirstInv'
  BY <1>1, <1>2, IprobeKept DEF InitsFirstInv, FirstLook, At, TypeOK, Persistent
<1> QED
  BY <1>3, <1>4, <1>5, <1>6, <1>7, <1>8 DEF IInv

\* A message that arrives does not hide those before it.
LEMMA IprobeGrows ==
  ASSUME TypeOK, NEW s \in Side, NEW kind, NEW m \in Message, Iprobe(s, kind),
         mailbox'[s] = Append(mailbox[s], m)
  PROVE  Iprobe(s, kind)'
<1>1. mailbox[s] \in Seq(Message)
  BY DEF TypeOK
<1>2. PICK i \in DOMAIN mailbox[s] : mailbox[s][i].kind = kind
  BY DEF Iprobe, Arrived
<1>3. i \in DOMAIN Append(mailbox[s], m) /\ Append(mailbox[s], m)[i] = mailbox[s][i]
  BY <1>1, AppendProperties
<1> QED
  BY <1>2, <1>3 DEF Iprobe, Arrived

LEMMA ArriveStep == ASSUME IInv, NEW s \in Side, Arrive(s) PROVE IInv'
<1> USE Sides
<1>1. TypeOK /\ KindInv /\ ConnInv /\ MatchInv /\ AloneInv /\ InitsFirstInv
  BY DEF IInv
<1>2. UNCHANGED <<deployment, type, op, pc, return, connected>>
  BY DEF Arrive
<1> DEFINE p == Peer(s)
<1>3. PICK i \in DOMAIN transit[s] :
        LET msg == transit[s][i] rest == RemoveAt(transit[s], i) IN
        CASE msg.kind = "infoAck" ->
               /\ infoSend' = [infoSend EXCEPT ![p] = "done"]
               /\ transit' = [transit EXCEPT ![s] = rest]
               /\ UNCHANGED <<backup, mailbox, recvBuf>>
          [] msg.kind = "payloadAck" ->
               /\ backup' = [backup EXCEPT ![p] =
                               IF msg.n = op[p] /\ @ = "pending" THEN "done" ELSE @]
               /\ transit' = [transit EXCEPT ![s] = rest]
               /\ UNCHANGED <<infoSend, mailbox, recvBuf>>
          [] msg.kind = "payload" /\ backup[p] = "pending" ->
               /\ backup' = [backup EXCEPT ![p] = "done"]
               /\ recvBuf' = msg.n
               /\ transit' = [transit EXCEPT ![s] = rest, ![p] = Append(@, PayloadAck(msg.n))]
               /\ UNCHANGED <<infoSend, mailbox>>
          [] OTHER ->
               /\ mailbox' = [mailbox EXCEPT ![p] = Append(@, msg)]
               /\ transit' = [transit EXCEPT ![s] = rest]
               /\ UNCHANGED <<infoSend, backup, recvBuf>>
  BY DEF Arrive
<1> DEFINE msg == transit[s][i]
           rest == RemoveAt(transit[s], i)
<1>4. p \in Side /\ p # s /\ Peer(p) = s
  OBVIOUS
<1>5. /\ msg \in OfKind(Sends(s)) /\ msg \in Message
      /\ rest \in Seq(OfKind(Sends(s))) /\ rest \in Seq(Message)
  <2>1. transit[s] \in Seq(OfKind(Sends(s)))
    BY <1>1 DEF KindInv
  <2>2. i \in 1 .. Len(transit[s])
    BY <2>1
  <2>3. rest \in Seq(OfKind(Sends(s)))
    BY <2>1, <2>2, Removed
  <2>4. msg \in OfKind(Sends(s))
    BY <2>1, <2>2
  <2> QED
    BY <2>3, <2>4, KindsIncluded DEF OfKind
<1>6. \A r \in Side : Sends(r)' = Sends(r) /\ At(r)' = At(r)
  BY <1>2 DEF Sends, At
\* What the rest of the invariant looks at, in every case.
<1>7. ASSUME /\ TypeOK' /\ KindInv'
             /\ \A r \in Side : infoSend[r] = "done" => infoSend'[r] = "done"
             /\ \A r \in Side : infoSend'[r] = "done" => infoSend[r] = "done" \/ connected[Peer(r)]
             /\ \A r \in Side : Iprobe(r, "info") => Iprobe(r, "info")'
             /\ backup'["R"] = "pending" => backup["R"] = "pending"
             /\ backup'["S"] = "done" => backup["S"] = "done" \/ op["R"] > 0
      PROVE  IInv'
  <2>1. ConnInv'
    BY <1>1, <1>2, <1>7 DEF ConnInv, Persistent
  <2>2. MatchInv'
    BY <1>1, <1>2, <1>6, <1>7 DEF MatchInv, Persistent
  <2>3. AloneInv'
    BY <1>1, <1>2 DEF AloneInv
  <2>4. InitsFirstInv'
    BY <1>1, <1>2, <1>6, <1>7 DEF InitsFirstInv, FirstLook, Persistent
  <2> QED
    BY <1>7, <2>1, <2>2, <2>3, <2>4 DEF IInv
<1>8. CASE msg.kind = "infoAck"
  <2>1. /\ infoSend' = [infoSend EXCEPT ![p] = "done"]
        /\ transit' = [transit EXCEPT ![s] = rest]
        /\ UNCHANGED <<backup, mailbox, recvBuf>>
    BY <1>3, <1>8
  <2>2. connected[s]
    BY <1>5, <1>8 DEF OfKind, Sends
  <2>3. TypeOK'
    BY <1>1, <1>2, <1>5, <2>1 DEF TypeOK
  <2>4. KindInv'
    BY <1>1, <1>5, <1>6, <2>1 DEF KindInv, TypeOK
  <2>5. \A r \in Side : Iprobe(r, "info") => Iprobe(r, "info")'
    BY <2>1, IprobeKept
  <2> QED
    BY <1>1, <1>4, <1>7, <2>1, <2>2, <2>3, <2>4, <2>5 DEF TypeOK
<1>9. CASE msg.kind = "payloadAck"
  <2>1. /\ backup' = [backup EXCEPT ![p] = IF msg.n = op[p] /\ @ = "pending" THEN "done" ELSE @]
        /\ transit' = [transit EXCEPT ![s] = rest]
        /\ UNCHANGED <<infoSend, mailbox, recvBuf>>
    BY <1>3, <1>9
  <2>2. s = "R" /\ p = "S" /\ op["R"] > 0
    BY <1>5, <1>9 DEF OfKind, Sends
  <2>3. TypeOK'
    BY <1>1, <1>2, <1>5, <2>1 DEF TypeOK
  <2>4. KindInv'
    BY <1>1, <1>5, <1>6, <2>1 DEF KindInv, TypeOK
  <2>5. \A r \in Side : Iprobe(r, "info") => Iprobe(r, "info")'
    BY <2>1, IprobeKept
  <2> QED
    BY <1>1, <1>7, <2>1, <2>2, <2>3, <2>4, <2>5 DEF TypeOK
<1>10. CASE msg.kind = "payload" /\ backup[p] = "pending"
  <2>1. /\ backup' = [backup EXCEPT ![p] = "done"]
        /\ recvBuf' = msg.n
        /\ transit' = [transit EXCEPT ![s] = rest, ![p] = Append(@, PayloadAck(msg.n))]
        /\ UNCHANGED <<infoSend, mailbox>>
    BY <1>3, <1>10
  <2>2. s = "S" /\ p = "R" /\ msg.n \in 1 .. MaxOp /\ op["R"] > 0
    BY <1>1, <1>5, <1>10 DEF OfKind, Sends, Message, MatchInv
  <2>3. /\ Append(transit[p], PayloadAck(msg.n)) \in Seq(OfKind(Sends(p)))
        /\ Append(transit[p], PayloadAck(msg.n)) \in Seq(Message)
    <3>1. "payloadAck" \in Sends(p) /\ PayloadAck(msg.n) \in OfKind({"payloadAck"})
      BY <2>2, MessageKinds DEF Sends
    <3>2. transit[p] \in Seq(OfKind(Sends(p)))
      BY <1>1, <1>4 DEF KindInv
    <3> QED
      BY <3>1, <3>2, Sent
  <2>4. recvBuf' \in 0 .. MaxOp
    BY <2>1, <2>2
  <2>5. /\ transit' \in [Side -> Seq(Message)]
        /\ transit'[s] = rest /\ transit'[p] = Append(transit[p], PayloadAck(msg.n))
    BY <1>1, <1>4, <1>5, <2>1, <2>3 DEF TypeOK
  <2>6. TypeOK'
    BY <1>1, <1>2, <2>1, <2>4, <2>5 DEF TypeOK
  <2>7. KindInv'
    BY <1>5, <1>6, <2>2, <2>3, <2>5 DEF KindInv
  <2>8. \A r \in Side : Iprobe(r, "info") => Iprobe(r, "info")'
    BY <2>1, IprobeKept
  <2> QED
    BY <1>1, <1>7, <2>1, <2>2, <2>6, <2>7, <2>8 DEF TypeOK
<1>11. CASE /\ msg.kind \notin {"infoAck", "payloadAck"}
            /\ ~(msg.kind = "payload" /\ backup[p] = "pending")
  <2>1. /\ mailbox' = [mailbox EXCEPT ![p] = Append(mailbox[p], msg)]
        /\ transit' = [transit EXCEPT ![s] = rest]
        /\ UNCHANGED <<infoSend, backup, recvBuf>>
    BY <1>3, <1>11
  <2>2. Append(mailbox[p], msg) \in Seq(Message)
    BY <1>1, <1>4, <1>5, AppendProperties DEF TypeOK
  <2>3. TypeOK'
    BY <1>1, <1>2, <1>5, <2>1, <2>2 DEF TypeOK
  <2>4. KindInv'
    BY <1>1, <1>5, <1>6, <2>1 DEF KindInv, TypeOK
  <2>5. \A r \in Side : Iprobe(r, "info") => Iprobe(r, "info")'
    BY <1>1, <1>4, <1>5, <2>1, IprobeKept, IprobeGrows DEF TypeOK
  <2> QED
    BY <1>1, <1>7, <2>1, <2>3, <2>4, <2>5 DEF TypeOK
<1> QED
  BY <1>8, <1>9, <1>10, <1>11

LEMMA NextIInv == IInv /\ [Next]_vars => IInv'
<1> SUFFICES ASSUME IInv, [Next]_vars PROVE IInv'
  OBVIOUS
<1>1. CASE UNCHANGED vars
  BY <1>1, IprobeKept
     DEF vars, IInv, TypeOK, KindInv, Sends, ConnInv, MatchInv, AloneInv, InitsFirstInv,
         FirstLook, At, Persistent
<1>2. CASE Next
  BY <1>1, <1>2, IssendPayloadStep, WaitSearchingSendStep, TestPayloadSentStep,
     LeaveWaitSendStep, FallbackInStartStep, WaitSearchingRecvStep, SearchRoundStep,
     DecideStep, ProgressWhileBlockedStep, InitRequestStep, StartSearchingStep,
     StartOrdinaryStep, ProbeNothingStep, ProbeFindsPeerStep, PeerTookInfoStep,
     ProgressFromOthersStep, ProgressFallbackStep, BackupDoneStep, ArriveStep
     DEF Next, Stopped
<1> QED
  BY <1>1, <1>2

-----------------------------------------------------------------------------

(***************************************************************************)
(* The type invariant, in every deployment.                                *)
(***************************************************************************)
THEOREM TypeCorrect == Spec => []TypeOK
<1>1. IInv => TypeOK
  BY DEF IInv
<1> QED
  BY <1>1, InitIInv, NextIInv, PTL DEF Spec

(***************************************************************************)
(* In every deployment, also where operations may hang, a side that uses   *)
(* RDMA has the addresses of its peer and the peer has its addresses.      *)
(***************************************************************************)
THEOREM AddressesExchangedHolds == Spec => []AddressesExchanged
<1>1. IInv => AddressesExchanged
  BY DEF IInv, ConnInv, AddressesExchanged
<1> QED
  BY <1>1, InitIInv, NextIInv, PTL DEF Spec

(***************************************************************************)
(* In every deployment the first wait of a persistent sender returns only  *)
(* when the receiver has started.                                          *)
(***************************************************************************)
THEOREM FirstSendMatchedHolds == Spec => []FirstSendMatched
<1>1. IInv => FirstSendMatched
  BY Sides DEF IInv, MatchInv, At, FirstSendMatched
<1> QED
  BY <1>1, InitIInv, NextIInv, PTL DEF Spec

\* Where no side is progressed by another request, or both know of each other.
AgreeingDeployments == \A d \in Deployments : ~d.others \/ d.setup = "initsFirst"

(***************************************************************************)
(* The sides do not disagree on the protocol, in every deployment without  *)
(* other requests, also where an operation may hang, and in every one in   *)
(* which both sides know of each other before the first start.             *)
(***************************************************************************)
THEOREM AgreementHolds == AgreeingDeployments => (Spec => []Agreement)
<1> SUFFICES ASSUME AgreeingDeployments PROVE Spec => []Agreement
  OBVIOUS
<1>1. IInv => Agreement
  <2> SUFFICES ASSUME IInv, NEW s \in Side, type[s] = "rdma"
               PROVE  type[Peer(s)] \in {"search", "rdma"}
    BY DEF Agreement
  <2>1. TypeOK /\ ConnInv /\ AloneInv /\ InitsFirstInv /\ Peer(s) \in Side
    BY Sides DEF IInv
  <2>2. connected[s] /\ connected[Peer(s)]
    BY <2>1 DEF ConnInv
  <2>3. type[s] # "plain" /\ type[Peer(s)] # "plain"
    BY <2>1, <2>2 DEF ConnInv
  <2>4. Side \subseteq Persistent
    BY <2>1, <2>3, Sides DEF ConnInv
  <2>5. deployment \in Deployments /\ deployment.persistent \subseteq Side
    BY <2>1, HandshakeAssumption DEF TypeOK, Deployment
  <2>6. Persistent = Side
    BY <2>4, <2>5 DEF Persistent
  <2>7. ~deployment.others \/ deployment.setup = "initsFirst"
    BY <2>5 DEF AgreeingDeployments
  <2>8. type[Peer(s)] # "fallback"
    BY <2>1, <2>2, <2>6, <2>7 DEF AloneInv, InitsFirstInv
  <2> QED
    BY <2>1, <2>3, <2>8 DEF TypeOK, Types
<1> QED
  BY <1>1, InitIInv, NextIInv, PTL DEF Spec

\* Two persistent sides always know of each other before one starts.
KnownDeployments == \A d \in Deployments : d.persistent = Side => d.setup = "initsFirst"

(***************************************************************************)
(* Two persistent sides that know of each other before either starts use   *)
(* RDMA after the first operation.                                         *)
(***************************************************************************)
THEOREM ConnectsIfPossibleHolds == KnownDeployments => (Spec => []ConnectsIfPossible)
<1> SUFFICES ASSUME KnownDeployments PROVE Spec => []ConnectsIfPossible
  OBVIOUS
<1>1. IInv => ConnectsIfPossible
  BY DEF KnownDeployments, IInv, TypeOK, InitsFirstInv, At, Persistent, ConnectsIfPossible
<1> QED
  BY <1>1, InitIInv, NextIInv, PTL DEF Spec

-----------------------------------------------------------------------------
(* The payloads. *)

\* Payload n is in a sequence of messages.
Holds(q, n) == \E i \in 1 .. Len(q) : q[i] = Payload(n)

Ascending(q) ==
  \A i, j \in 1 .. Len(q) :
    i < j /\ q[i].kind = "payload" /\ q[j].kind = "payload" => q[i].n < q[j].n

\* Of the payloads 1 .. sent, those up to taken have been received, and the others
\* wait at the receiver or are under way, the lower ones ahead.
InOrder(waiting, underWay, taken, sent) ==
  /\ Ascending(waiting) /\ Ascending(underWay)
  /\ \A m, n \in 1 .. MaxOp : Holds(waiting, m) /\ Holds(underWay, n) => m < n
  /\ \A n \in 1 .. MaxOp : Holds(waiting, n) \/ Holds(underWay, n) <=> n \in taken + 1 .. sent
  /\ taken <= sent

LEMMA PayloadOf ==
  /\ \A m \in Message : m.kind = "payload" => m.n \in 1 .. MaxOp /\ m = Payload(m.n)
  /\ \A n : Payload(n).kind = "payload" /\ Payload(n).n = n
  BY DEF Message, Payload

LEMMA RestOf ==
  ASSUME NEW q \in Seq(Message), NEW i \in 1 .. Len(q)
  PROVE  /\ RemoveAt(q, i) \in Seq(Message)
         /\ Len(RemoveAt(q, i)) = Len(q) - 1
         /\ \A j \in 1 .. Len(q) - 1 : RemoveAt(q, i)[j] = IF j < i THEN q[j] ELSE q[j + 1]
<1>1. Len(q) \in Nat /\ i \in Int /\ \A j \in 1 .. Len(q) : q[j] \in Message
  OBVIOUS
<1>2. /\ SubSeq(q, 1, i - 1) \in Seq(Message) /\ Len(SubSeq(q, 1, i - 1)) = i - 1
      /\ \A j \in 1 .. i - 1 : SubSeq(q, 1, i - 1)[j] = q[j]
  BY <1>1, SubSeqProperties
<1>3. /\ SubSeq(q, i + 1, Len(q)) \in Seq(Message) /\ Len(SubSeq(q, i + 1, Len(q))) = Len(q) - i
      /\ \A j \in 1 .. Len(q) - i : SubSeq(q, i + 1, Len(q))[j] = q[i + j]
  BY <1>1, SubSeqProperties
<1>4. \A j \in 1 .. Len(q) - 1 : j >= i =>
        SubSeq(q, i + 1, Len(q))[j - (i - 1)] = q[j + 1]
  <2> SUFFICES ASSUME NEW j \in 1 .. Len(q) - 1, j >= i
               PROVE  SubSeq(q, i + 1, Len(q))[j - (i - 1)] = q[j + 1]
    OBVIOUS
  <2>1. j - (i - 1) \in 1 .. Len(q) - i /\ i + (j - (i - 1)) = j + 1
    BY <1>1
  <2> QED
    BY <1>3, <2>1
<1> DEFINE a == SubSeq(q, 1, i - 1) b == SubSeq(q, i + 1, Len(q))
<1>5. /\ a \o b \in Seq(Message) /\ Len(a \o b) = Len(a) + Len(b)
      /\ \A j \in 1 .. Len(a) + Len(b) :
           (a \o b)[j] = IF j <= Len(a) THEN a[j] ELSE b[j - Len(a)]
  BY <1>2, <1>3, ConcatProperties
<1>6. RemoveAt(q, i) = a \o b
  BY DEF RemoveAt
<1>7. Len(a) = i - 1 /\ Len(b) = Len(q) - i
  BY <1>2, <1>3
<1>8. ASSUME NEW j \in 1 .. Len(q) - 1
      PROVE  RemoveAt(q, i)[j] = IF j < i THEN q[j] ELSE q[j + 1]
  <2>1. j \in 1 .. Len(a) + Len(b) /\ (j <= Len(a) <=> j < i)
    <3> HIDE DEF a, b
    <3> QED
      BY <1>1, <1>7
  <2>2. CASE j < i
    <3>1. j \in 1 .. i - 1
      BY <1>1, <2>2
    <3> QED
      BY <1>2, <1>5, <1>6, <2>1, <2>2, <3>1
  <2>3. CASE ~(j < i)
    BY <1>1, <1>2, <1>4, <1>5, <1>6, <2>1, <2>3
  <2> QED
    BY <2>2, <2>3
<1> HIDE DEF a, b
<1> QED
  BY <1>1, <1>5, <1>6, <1>7, <1>8

LEMMA RestIncluded ==
  ASSUME NEW q \in Seq(Message), NEW i \in 1 .. Len(q)
  PROVE  \A j \in DOMAIN RemoveAt(q, i) : \E k \in DOMAIN q : RemoveAt(q, i)[j] = q[k]
<1> DEFINE r == RemoveAt(q, i)
<1>1. /\ r \in Seq(Message) /\ Len(r) = Len(q) - 1
      /\ \A j \in 1 .. Len(q) - 1 : r[j] = IF j < i THEN q[j] ELSE q[j + 1]
  BY RestOf
<1> HIDE DEF r
<1>2. DOMAIN r = 1 .. Len(q) - 1 /\ DOMAIN q = 1 .. Len(q) /\ Len(q) \in Nat
  BY <1>1
<1>3. ASSUME NEW j \in DOMAIN r PROVE \E k \in DOMAIN q : r[j] = q[k]
  <2>1. CASE j < i
    BY <1>1, <1>2, <2>1
  <2>2. CASE ~(j < i)
    <3>1. j + 1 \in DOMAIN q /\ r[j] = q[j + 1]
      BY <1>1, <1>2, <2>2
    <3> QED
      BY <3>1
  <2> QED
    BY <2>1, <2>2
<1> QED
  BY <1>3 DEF r

\* What is left when message i is taken out.
LEMMA HeldByRest ==
  ASSUME NEW q \in Seq(Message), NEW i \in 1 .. Len(q), Ascending(q)
  PROVE  /\ Ascending(RemoveAt(q, i))
         /\ \A n \in 1 .. MaxOp : Holds(RemoveAt(q, i), n) <=> Holds(q, n) /\ q[i] # Payload(n)
<1> DEFINE r == RemoveAt(q, i)
<1>1. /\ Len(q) \in Nat /\ Len(r) = Len(q) - 1
      /\ \A j \in 1 .. Len(r) : r[j] = IF j < i THEN q[j] ELSE q[j + 1]
  BY RestOf
<1> HIDE DEF r
<1>2. Ascending(r)
  <2> SUFFICES ASSUME NEW j \in 1 .. Len(r), NEW k \in 1 .. Len(r), j < k,
                      r[j].kind = "payload", r[k].kind = "payload"
               PROVE  r[j].n < r[k].n
    BY DEF Ascending
  <2> DEFINE Old(l) == IF l < i THEN l ELSE l + 1
  <2>1. Old(j) \in 1 .. Len(q) /\ Old(k) \in 1 .. Len(q) /\ Old(j) < Old(k)
    BY <1>1
  <2>2. r[j] = q[Old(j)] /\ r[k] = q[Old(k)]
    BY <1>1
  <2> QED
    BY <2>1, <2>2 DEF Ascending
<1>3. ASSUME NEW n \in 1 .. MaxOp, Holds(r, n) PROVE Holds(q, n) /\ q[i] # Payload(n)
  <2>1. PICK j \in 1 .. Len(r) : r[j] = Payload(n)
    BY <1>3 DEF Holds
  <2> DEFINE k == IF j < i THEN j ELSE j + 1
  <2>2. k \in 1 .. Len(q) /\ q[k] = Payload(n) /\ k # i
    BY <1>1, <2>1
  <2>3. q[i] = Payload(n) => n < n
    BY <2>2, PayloadOf DEF Ascending
  <2> QED
    BY <2>2, <2>3 DEF Holds
<1>4. ASSUME NEW n \in 1 .. MaxOp, Holds(q, n), q[i] # Payload(n) PROVE Holds(r, n)
  <2>1. PICK j \in 1 .. Len(q) : q[j] = Payload(n)
    BY <1>4 DEF Holds
  <2> DEFINE k == IF j < i THEN j ELSE j - 1
  <2>2. j # i
    BY <1>4, <2>1
  <2>3. k \in 1 .. Len(r) /\ (IF k < i THEN k ELSE k + 1) = j
    BY <1>1, <2>2
  <2>4. r[k] = q[j]
    BY <1>1, <2>3
  <2> QED
    BY <2>1, <2>3, <2>4 DEF Holds
<1> QED
  BY <1>2, <1>3, <1>4 DEF r

\* What is there when message m has joined.
LEMMA HeldWith ==
  ASSUME NEW q \in Seq(Message), NEW m \in Message, Ascending(q),
         m.kind = "payload" => \A n \in 1 .. MaxOp : Holds(q, n) => n < m.n
  PROVE  /\ Append(q, m) \in Seq(Message) /\ Ascending(Append(q, m))
         /\ \A n \in 1 .. MaxOp : Holds(Append(q, m), n) <=> Holds(q, n) \/ m = Payload(n)
<1> DEFINE a == Append(q, m)
<1>1. /\ Len(q) \in Nat /\ a \in Seq(Message) /\ Len(a) = Len(q) + 1 /\ a[Len(q) + 1] = m
      /\ \A j \in 1 .. Len(q) : a[j] = q[j] /\ q[j] \in Message
  BY AppendProperties
<1> HIDE DEF a
<1>2. Ascending(a)
  <2> SUFFICES ASSUME NEW j \in 1 .. Len(a), NEW k \in 1 .. Len(a), j < k,
                      a[j].kind = "payload", a[k].kind = "payload"
               PROVE  a[j].n < a[k].n
    BY DEF Ascending
  <2>1. CASE k \in 1 .. Len(q)
    BY <1>1, <2>1 DEF Ascending
  <2>2. CASE k = Len(q) + 1
    <3>1. j \in 1 .. Len(q) /\ a[j] = q[j] /\ q[j] \in Message /\ a[k] = m
      BY <1>1, <2>2
    <3>2. q[j] = Payload(q[j].n) /\ q[j].n \in 1 .. MaxOp
      BY <3>1, PayloadOf
    <3> QED
      BY <3>1, <3>2 DEF Holds
  <2> QED
    BY <1>1, <2>1, <2>2
<1>3. ASSUME NEW n \in 1 .. MaxOp PROVE Holds(a, n) <=> Holds(q, n) \/ m = Payload(n)
  <2>1. 1 .. Len(a) = 1 .. Len(q) \union {Len(q) + 1}
    BY <1>1
  <2> QED
    BY <1>1, <2>1 DEF Holds
<1> QED
  BY <1>1, <1>2, <1>3 DEF a

\* Other messages come and go.
LEMMA OthersAside ==
  ASSUME NEW q \in Seq(Message), NEW t \in Seq(Message), NEW r \in Nat, NEW s \in Nat,
         InOrder(q, t, r, s)
  PROVE  /\ \A m \in Message : m.kind # "payload" =>
              InOrder(Append(q, m), t, r, s) /\ InOrder(q, Append(t, m), r, s)
         /\ \A i \in 1 .. Len(q) : q[i].kind # "payload" => InOrder(RemoveAt(q, i), t, r, s)
         /\ \A i \in 1 .. Len(t) : t[i].kind # "payload" => InOrder(q, RemoveAt(t, i), r, s)
<1>1. Ascending(q) /\ Ascending(t)
  BY DEF InOrder
<1>2. ASSUME NEW m \in Message, m.kind # "payload"
      PROVE  InOrder(Append(q, m), t, r, s) /\ InOrder(q, Append(t, m), r, s)
  <2>1. \A n : m # Payload(n)
    BY <1>2, PayloadOf
  <2>2. /\ Ascending(Append(q, m)) /\ Ascending(Append(t, m))
        /\ \A n \in 1 .. MaxOp : Holds(Append(q, m), n) <=> Holds(q, n)
        /\ \A n \in 1 .. MaxOp : Holds(Append(t, m), n) <=> Holds(t, n)
    BY <1>1, <1>2, <2>1, HeldWith
  <2> QED
    BY <2>2 DEF InOrder
<1>3. ASSUME NEW i \in 1 .. Len(q), q[i].kind # "payload" PROVE InOrder(RemoveAt(q, i), t, r, s)
  <2>1. \A n : q[i] # Payload(n)
    BY <1>3, PayloadOf
  <2>2. /\ Ascending(RemoveAt(q, i))
        /\ \A n \in 1 .. MaxOp : Holds(RemoveAt(q, i), n) <=> Holds(q, n)
    BY <1>1, <2>1, HeldByRest
  <2> QED
    BY <2>2 DEF InOrder
<1>4. ASSUME NEW i \in 1 .. Len(t), t[i].kind # "payload" PROVE InOrder(q, RemoveAt(t, i), r, s)
  <2>1. \A n : t[i] # Payload(n)
    BY <1>4, PayloadOf
  <2>2. /\ Ascending(RemoveAt(t, i))
        /\ \A n \in 1 .. MaxOp : Holds(RemoveAt(t, i), n) <=> Holds(t, n)
    BY <1>1, <2>1, HeldByRest
  <2> QED
    BY <2>2 DEF InOrder
<1> QED
  BY <1>2, <1>3, <1>4

\* The next payload is sent.
LEMMA NextSent ==
  ASSUME NEW q \in Seq(Message), NEW t \in Seq(Message), NEW r \in Nat, NEW s \in Nat,
         InOrder(q, t, r, s), s + 1 \in 1 .. MaxOp
  PROVE  InOrder(q, Append(t, Payload(s + 1)), r, s + 1)
<1>1. Payload(s + 1) \in Message /\ Payload(s + 1).n = s + 1
  BY DEF Payload, Message
<1>2. MaxOp \in Nat /\ r <= s
  BY HandshakeAssumption DEF InOrder
<1>3. \A n \in 1 .. MaxOp : Holds(q, n) \/ Holds(t, n) => n < s + 1
  BY <1>2 DEF InOrder
<1>4. Ascending(q) /\ Ascending(t)
  BY DEF InOrder
<1>5. /\ Ascending(Append(t, Payload(s + 1)))
      /\ \A n \in 1 .. MaxOp :
           Holds(Append(t, Payload(s + 1)), n) <=> Holds(t, n) \/ Payload(s + 1) = Payload(n)
  BY <1>1, <1>3, <1>4, HeldWith
<1>6. \A n : Payload(s + 1) = Payload(n) <=> n = s + 1
  BY PayloadOf
<1>7. ASSUME NEW m \in 1 .. MaxOp, NEW n \in 1 .. MaxOp,
             Holds(q, m), Holds(Append(t, Payload(s + 1)), n)
      PROVE  m < n
  BY <1>3, <1>5, <1>6, <1>7 DEF InOrder
<1>8. ASSUME NEW n \in 1 .. MaxOp
      PROVE  Holds(q, n) \/ Holds(Append(t, Payload(s + 1)), n) <=> n \in r + 1 .. s + 1
  <2>1. Holds(q, n) \/ Holds(t, n) <=> n \in r + 1 .. s
    BY DEF InOrder
  <2>2. n \in r + 1 .. s + 1 <=> n \in r + 1 .. s \/ n = s + 1
    BY <1>2
  <2> QED
    BY <1>5, <1>6, <2>1, <2>2
<1> QED
  BY <1>2, <1>4, <1>5, <1>7, <1>8 DEF InOrder

\* The first payload that waits at the receiver is matched.
LEMMA WaitingTaken ==
  ASSUME NEW q \in Seq(Message), NEW t \in Seq(Message), NEW r \in Nat, NEW s \in Nat,
         InOrder(q, t, r, s),
         NEW i \in 1 .. Len(q), q[i].kind = "payload",
         \A j \in 1 .. Len(q) : q[j].kind = "payload" => i <= j
  PROVE  q[i].n = r + 1 /\ InOrder(RemoveAt(q, i), t, r + 1, s)
<1> DEFINE n == q[i].n
<1>1. q[i] = Payload(n) /\ n \in 1 .. MaxOp /\ MaxOp \in Nat /\ i \in Nat
  BY PayloadOf, HandshakeAssumption
<1>2. n \in r + 1 .. s /\ Holds(q, n)
  BY <1>1 DEF InOrder, Holds
<1>3. \A m \in 1 .. MaxOp : Holds(q, m) => n <= m
  <2> SUFFICES ASSUME NEW m \in 1 .. MaxOp, NEW j \in 1 .. Len(q), q[j] = Payload(m)
               PROVE  n <= m
    BY DEF Holds
  <2>1. q[j].kind = "payload" /\ q[j].n = m
    BY PayloadOf
  <2>2. i <= j /\ j \in Nat
    BY <2>1
  <2>3. Ascending(q)
    BY DEF InOrder
  <2>4. i < j => n < m
    BY <2>1, <2>3 DEF Ascending
  <2> QED
    BY <1>1, <2>1, <2>2, <2>4
<1>4. \A m \in 1 .. MaxOp : Holds(t, m) => n < m
  BY <1>1, <1>2 DEF InOrder
<1>5. n = r + 1
  <2>1. r + 1 \in 1 .. MaxOp /\ r + 1 \in r + 1 .. s
    BY <1>1, <1>2
  <2>2. Holds(q, r + 1) \/ Holds(t, r + 1)
    BY <2>1 DEF InOrder
  <2> QED
    BY <1>1, <1>2, <1>3, <1>4, <2>1, <2>2
<1>6. /\ Ascending(RemoveAt(q, i))
      /\ \A m \in 1 .. MaxOp : Holds(RemoveAt(q, i), m) <=> Holds(q, m) /\ m # n
  <2>1. \A m : q[i] = Payload(m) <=> m = n
    BY <1>1, PayloadOf
  <2> QED
    BY <2>1, HeldByRest DEF InOrder
<1>7. ASSUME NEW m \in 1 .. MaxOp
      PROVE  Holds(RemoveAt(q, i), m) \/ Holds(t, m) <=> m \in r + 1 + 1 .. s
  <2>1. Holds(q, m) \/ Holds(t, m) <=> m \in r + 1 .. s
    BY DEF InOrder
  <2>2. m \in r + 1 + 1 .. s <=> m \in r + 1 .. s /\ m # n
    BY <1>5
  <2>3. Holds(t, m) => m # n
    BY <1>1, <1>4
  <2> QED
    BY <1>6, <2>1, <2>2, <2>3
<1>8. r + 1 <= s
  BY <1>2, <1>5
<1> QED
  BY <1>5, <1>6, <1>7, <1>8 DEF InOrder

\* A payload arrives ahead of the others that are under way: if none waits, it is the
\* next one, otherwise it joins those.
LEMMA UnderWayArrives ==
  ASSUME NEW q \in Seq(Message), NEW t \in Seq(Message), NEW r \in Nat, NEW s \in Nat,
         InOrder(q, t, r, s),
         NEW i \in 1 .. Len(t), t[i].kind = "payload",
         \A j \in 1 .. Len(t) : t[j].kind = "payload" => i <= j
  PROVE  /\ (\A n \in 1 .. MaxOp : ~Holds(q, n))
              => t[i].n = r + 1 /\ InOrder(q, RemoveAt(t, i), r + 1, s)
         /\ InOrder(Append(q, t[i]), RemoveAt(t, i), r, s)
<1> DEFINE n == t[i].n
<1>1. t[i] = Payload(n) /\ n \in 1 .. MaxOp /\ MaxOp \in Nat /\ i \in Nat
  BY PayloadOf, HandshakeAssumption
<1>2. n \in r + 1 .. s /\ Holds(t, n) /\ Ascending(q) /\ Ascending(t)
  BY <1>1 DEF InOrder, Holds
<1>3. \A m \in 1 .. MaxOp : Holds(t, m) => n <= m
  <2> SUFFICES ASSUME NEW m \in 1 .. MaxOp, NEW j \in 1 .. Len(t), t[j] = Payload(m)
               PROVE  n <= m
    BY DEF Holds
  <2>1. t[j].kind = "payload" /\ t[j].n = m
    BY PayloadOf
  <2>2. i <= j /\ j \in Nat
    BY <2>1
  <2>3. i < j => n < m
    BY <1>2, <2>1 DEF Ascending
  <2> QED
    BY <1>1, <2>1, <2>2, <2>3
<1>4. \A m \in 1 .. MaxOp : Holds(q, m) => m < n
  BY <1>1, <1>2 DEF InOrder
<1>5. \A m : t[i] = Payload(m) <=> m = n
  BY <1>1, PayloadOf
<1>6. /\ Ascending(RemoveAt(t, i))
      /\ \A m \in 1 .. MaxOp : Holds(RemoveAt(t, i), m) <=> Holds(t, m) /\ m # n
  BY <1>2, <1>5, HeldByRest
<1>7. ASSUME \A m \in 1 .. MaxOp : ~Holds(q, m)
      PROVE  n = r + 1 /\ InOrder(q, RemoveAt(t, i), r + 1, s)
  <2>1. n = r + 1
    <3>1. r + 1 \in 1 .. MaxOp /\ r + 1 \in r + 1 .. s
      BY <1>1, <1>2
    <3>2. Holds(t, r + 1)
      BY <1>7, <3>1 DEF InOrder
    <3> QED
      BY <1>1, <1>2, <1>3, <3>1, <3>2
  <2>2. ASSUME NEW m \in 1 .. MaxOp
        PROVE  Holds(q, m) \/ Holds(RemoveAt(t, i), m) <=> m \in r + 1 + 1 .. s
    <3>1. Holds(q, m) \/ Holds(t, m) <=> m \in r + 1 .. s
      BY DEF InOrder
    <3>2. m \in r + 1 + 1 .. s <=> m \in r + 1 .. s /\ m # n
      BY <2>1
    <3> QED
      BY <1>6, <1>7, <3>1, <3>2
  <2>3. r + 1 <= s
    BY <1>2, <2>1
  <2> QED
    BY <1>2, <1>6, <1>7, <2>1, <2>2, <2>3 DEF InOrder
<1>8. InOrder(Append(q, t[i]), RemoveAt(t, i), r, s)
  <2>1. /\ Ascending(Append(q, t[i]))
        /\ \A m \in 1 .. MaxOp : Holds(Append(q, t[i]), m) <=> Holds(q, m) \/ m = n
    <3>1. t[i] \in Message
      OBVIOUS
    <3> QED
      BY <1>2, <1>4, <1>5, <3>1, HeldWith
  <2>2. ASSUME NEW m \in 1 .. MaxOp, NEW k \in 1 .. MaxOp,
               Holds(Append(q, t[i]), m), Holds(RemoveAt(t, i), k)
        PROVE  m < k
    <3>1. Holds(t, k) /\ k # n /\ (Holds(q, m) \/ m = n)
      BY <1>6, <2>1, <2>2
    <3>2. Holds(q, m) => m < k
      BY <3>1 DEF InOrder
    <3>3. n < k
      BY <1>1, <1>3, <3>1
    <3> QED
      BY <3>1, <3>2, <3>3
  <2>3. ASSUME NEW m \in 1 .. MaxOp
        PROVE  Holds(Append(q, t[i]), m) \/ Holds(RemoveAt(t, i), m) <=> m \in r + 1 .. s
    <3>1. Holds(q, m) \/ Holds(t, m) <=> m \in r + 1 .. s
      BY DEF InOrder
    <3> QED
      BY <1>2, <1>6, <2>1, <3>1
  <2>4. r <= s
    BY DEF InOrder
  <2> QED
    BY <1>6, <2>1, <2>2, <2>3, <2>4 DEF InOrder
<1> QED
  BY <1>7, <1>8

\* The first message of a kind is ahead of the others of its kind.
LEMMA FirstIsFirst ==
  ASSUME TypeOK, NEW s \in Side, NEW kind, Iprobe(s, kind)
  PROVE  \A j \in 1 .. Len(mailbox[s]) : mailbox[s][j].kind = kind => First(s, kind) <= j
<1>1. mailbox[s] \in Seq(Message)
  BY DEF TypeOK
<1>2. DOMAIN mailbox[s] = 1 .. Len(mailbox[s]) /\ Len(mailbox[s]) \in Nat
  BY <1>1
<1>3. Arrived(s, kind) \in SUBSET Nat /\ Arrived(s, kind) # {}
  BY <1>2 DEF Arrived, Iprobe
<1>4. \E i \in Arrived(s, kind) : \A j \in Arrived(s, kind) : i <= j
  BY <1>3, LeastExists
<1>5. \A j \in Arrived(s, kind) : First(s, kind) <= j
  BY <1>4 DEF First
<1> QED
  BY <1>2, <1>5 DEF Arrived

-----------------------------------------------------------------------------
(* The payloads in the steps of the protocol. *)

\* How many payloads the sender has sent, and whether the receive of the operation at
\* hand is matched.
SentPayloads == IF At("S") = "post" THEN 0 ELSE op["S"]
Matched == \/ backup["R"] = "done"
           \/ backup["R"] = "null" /\ At("R") \in {"new", "idle", "wait"}

OrderInv == InOrder(mailbox["R"], transit["S"], recvBuf, SentPayloads)

RecvInv ==
  /\ op["R"] = IF Matched THEN recvBuf ELSE recvBuf + 1
  /\ backup["R"] = "pending" => ~Iprobe("R", "payload")
  /\ At("R") \in {"new", "idle"} => backup["R"] = "null"
  /\ At("R") \notin {"new", "idle", "wait"} => type["R"] = "search"
  /\ At("R") = "wait" => type["R"] # "search" /\ pc["R"] = "wait"
  /\ At("R") = "idle" /\ type["R"] = "search" => op["R"] = 0

PayloadInv == OrderInv /\ RecvInv /\ (At("S") = "post" => op["S"] = 1)

LEMMA PayloadWaits ==
  ASSUME TypeOK
  PROVE  Iprobe("R", "payload") <=> \E n \in 1 .. MaxOp : Holds(mailbox["R"], n)
<1>1. mailbox["R"] \in Seq(Message)
  BY Sides DEF TypeOK
<1>2. /\ DOMAIN mailbox["R"] = 1 .. Len(mailbox["R"])
      /\ \A i \in 1 .. Len(mailbox["R"]) : mailbox["R"][i] \in Message
  BY <1>1
<1> QED
  BY <1>2, PayloadOf DEF Iprobe, Arrived, Holds

LEMMA OrderTypes ==
  ASSUME TypeOK
  PROVE  /\ mailbox["R"] \in Seq(Message) /\ transit["S"] \in Seq(Message)
         /\ recvBuf \in Nat /\ SentPayloads \in Nat /\ MaxOp \in Nat
  BY Sides, HandshakeAssumption DEF TypeOK, SentPayloads

\* MPI_Irecv takes the next payload, or waits for it.
LEMMA PostRecvTakesNext ==
  ASSUME TypeOK, OrderInv, PostRecv, SentPayloads' = SentPayloads
  PROVE  /\ OrderInv'
         /\ \/ backup'["R"] = "done" /\ recvBuf' = recvBuf + 1
            \/ backup'["R"] = "pending" /\ recvBuf' = recvBuf /\ ~Iprobe("R", "payload")'
<1> USE Sides
<1>1. CASE Iprobe("R", "payload")
  <2> DEFINE i == First("R", "payload")
             n == mailbox["R"][i].n
  <2>1. /\ backup' = [backup EXCEPT !["R"] = "done"]
        /\ mailbox' = [mailbox EXCEPT !["R"] = RemoveAt(mailbox["R"], i)]
        /\ transit' = [transit EXCEPT !["R"] = Append(transit["R"], PayloadAck(n))]
        /\ recvBuf' = n
    BY <1>1 DEF PostRecv, Send
  <2>2. /\ i \in 1 .. Len(mailbox["R"]) /\ mailbox["R"][i].kind = "payload"
        /\ \A j \in 1 .. Len(mailbox["R"]) : mailbox["R"][j].kind = "payload" => i <= j
    BY <1>1, FirstArrived, FirstIsFirst DEF OfKind
  <2>3. n = recvBuf + 1 /\ InOrder(RemoveAt(mailbox["R"], i), transit["S"], recvBuf + 1, SentPayloads)
    <3> HIDE DEF i
    <3> QED
      BY <2>2, OrderTypes, WaitingTaken DEF OrderInv
  <2>4. backup'["R"] = "done" /\ mailbox'["R"] = RemoveAt(mailbox["R"], i) /\ transit'["S"] = transit["S"]
    BY <2>1 DEF TypeOK
  <2> QED
    BY <2>1, <2>3, <2>4 DEF OrderInv
<1>2. CASE ~Iprobe("R", "payload")
  <2>1. /\ backup' = [backup EXCEPT !["R"] = "pending"]
        /\ UNCHANGED <<mailbox, recvBuf, transit>>
    BY <1>2 DEF PostRecv
  <2> QED
    BY <1>2, <2>1, IprobeKept DEF OrderInv, TypeOK
<1> QED
  BY <1>1, <1>2

LEMMA OrderKept ==
  ASSUME OrderInv, mailbox'["R"] = mailbox["R"], transit'["S"] = transit["S"],
         recvBuf' = recvBuf, SentPayloads' = SentPayloads
  PROVE  OrderInv'
  BY DEF OrderInv

LEMMA RecvKept ==
  ASSUME RecvInv, pc'["R"] = pc["R"], return'["R"] = return["R"], type'["R"] = type["R"],
         op'["R"] = op["R"], backup'["R"] = backup["R"], mailbox'["R"] = mailbox["R"],
         recvBuf' = recvBuf
  PROVE  RecvInv'
<1>1. At("R")' = At("R") /\ Matched' = Matched
  BY DEF At, Matched
<1>2. Iprobe("R", "payload")' = Iprobe("R", "payload")
  BY DEF Iprobe, Arrived
<1> QED
  BY <1>1, <1>2 DEF RecvInv

\* The sender goes on without a payload.
LEMMA SenderStep ==
  ASSUME PayloadInv, mailbox'["R"] = mailbox["R"], transit'["S"] = transit["S"],
         recvBuf' = recvBuf, pc'["R"] = pc["R"], return'["R"] = return["R"],
         type'["R"] = type["R"], op'["R"] = op["R"], backup'["R"] = backup["R"],
         \/ At("S")' = At("S") /\ op'["S"] = op["S"]
         \/ At("S") # "post" /\ At("S")' # "post" /\ op'["S"] = op["S"]
         \/ At("S") # "post" /\ op["S"] = 0 /\ At("S")' = "post" /\ op'["S"] = 1
  PROVE  PayloadInv'
<1>1. SentPayloads' = SentPayloads
  BY DEF SentPayloads
<1> QED
  BY <1>1, OrderKept, RecvKept DEF PayloadInv

\* The receiver goes on, with or without posting its receive.
LEMMA ReceiverStep ==
  ASSUME TypeOK, PayloadInv,
         pc'["S"] = pc["S"], return'["S"] = return["S"], op'["S"] = op["S"],
         \/ PostRecv /\ ~Matched /\ backup["R"] = "null"
         \/ mailbox'["R"] = mailbox["R"] /\ transit'["S"] = transit["S"] /\ recvBuf' = recvBuf
            /\ Matched' = Matched /\ (backup'["R"] = "pending" => backup["R"] = "pending"),
         op' = op,
         At("R")' \in {"new", "idle"} => backup'["R"] = "null",
         At("R")' \notin {"new", "idle", "wait"} => type'["R"] = "search",
         At("R")' = "wait" => type'["R"] # "search" /\ pc'["R"] = "wait",
         At("R")' = "idle" /\ type'["R"] = "search" => op["R"] = 0
  PROVE  PayloadInv'
<1>1. At("S")' = At("S") /\ SentPayloads' = SentPayloads
  BY DEF At, SentPayloads
<1>2. OrderInv' /\ op'["R"] = (IF Matched' THEN recvBuf' ELSE recvBuf' + 1)
      /\ (backup'["R"] = "pending" => ~Iprobe("R", "payload")')
  <2>1. CASE PostRecv /\ ~Matched /\ backup["R"] = "null"
    <3>1. op["R"] = recvBuf + 1
      BY <2>1 DEF PayloadInv, RecvInv
    <3>2. /\ OrderInv'
          /\ \/ backup'["R"] = "done" /\ recvBuf' = recvBuf + 1
             \/ backup'["R"] = "pending" /\ recvBuf' = recvBuf /\ ~Iprobe("R", "payload")'
      BY <1>1, <2>1, PostRecvTakesNext DEF PayloadInv
    <3> QED
      BY <3>1, <3>2 DEF Matched
  <2>2. CASE /\ mailbox'["R"] = mailbox["R"] /\ transit'["S"] = transit["S"] /\ recvBuf' = recvBuf
             /\ Matched' = Matched /\ (backup'["R"] = "pending" => backup["R"] = "pending")
    BY <1>1, <2>2, OrderKept, IprobeKept DEF PayloadInv, RecvInv
  <2> QED
    BY <2>1, <2>2
<1> QED
  BY <1>1, <1>2 DEF PayloadInv, RecvInv

LEMMA InitPayload == Init => PayloadInv
<1> SUFFICES ASSUME Init PROVE PayloadInv
  OBVIOUS
<1> USE Sides
<1>1. /\ mailbox["R"] = <<>> /\ transit["S"] = <<>> /\ recvBuf = 0
      /\ op["R"] = 0 /\ op["S"] = 0 /\ backup["R"] = "null"
      /\ pc["R"] \in {"new", "idle"} /\ pc["S"] \in {"new", "idle"} /\ MaxOp \in Nat
  BY HandshakeAssumption DEF Init
<1>2. At("R") \in {"new", "idle"} /\ At("S") \in {"new", "idle"}
  BY <1>1 DEF At
<1>3. SentPayloads = 0
  BY <1>1, <1>2 DEF SentPayloads
<1>4. OrderInv
  <2>1. Ascending(<<>>) /\ \A n : ~Holds(<<>>, n)
    BY DEF Ascending, Holds
  <2>2. \A n \in 1 .. MaxOp : n \notin 0 + 1 .. 0
    BY <1>1
  <2> QED
    BY <1>1, <1>3, <2>1, <2>2 DEF OrderInv, InOrder
<1> QED
  BY <1>1, <1>2, <1>4 DEF PayloadInv, RecvInv, Matched

LEMMA InitRequestPayload ==
  ASSUME IInv, PayloadInv, NEW s \in Side, InitRequest(s) PROVE PayloadInv'
<1> USE Sides
<1>1. TypeOK /\ ConnInv
  BY DEF IInv
<1>2. /\ transit' = [transit EXCEPT ![s] = Append(transit[s], Info)]
      /\ pc[s] = "new" /\ pc' = [pc EXCEPT ![s] = "idle"]
      /\ UNCHANGED <<deployment, type, op, return, connected, backup, mailbox, recvBuf>>
  BY DEF InitRequest, Send
<1>3. CASE s = "S"
  <2>1. transit'["S"] = Append(transit["S"], Info) /\ pc'["R"] = pc["R"]
    BY <1>1, <1>2, <1>3 DEF TypeOK
  <2>2. At("S")' = "idle" /\ At("S") = "new"
    BY <1>1, <1>2, <1>3 DEF At, TypeOK
  <2>3. SentPayloads' = SentPayloads
    BY <1>2, <2>2 DEF SentPayloads
  <2>4. Info \in Message /\ Info.kind # "payload"
    BY DEF Info, Message
  <2>5. OrderInv'
    BY <1>1, <1>2, <2>1, <2>3, <2>4, OrderTypes, OthersAside DEF OrderInv, PayloadInv
  <2> QED
    BY <1>2, <2>1, <2>2, <2>5, RecvKept DEF PayloadInv
<1>4. CASE s = "R"
  <2>1. transit'["S"] = transit["S"] /\ pc'["S"] = pc["S"]
    BY <1>1, <1>2, <1>4 DEF TypeOK
  <2>2. At("R")' = "idle" /\ At("R") = "new"
    BY <1>1, <1>2, <1>4 DEF At, TypeOK
  <2>3. op["R"] = 0 /\ backup["R"] = "null"
    BY <1>1, <1>2, <1>4, <2>2 DEF ConnInv, PayloadInv, RecvInv
  <2>4. Matched' = Matched
    BY <1>2, <2>2, <2>3 DEF Matched
  <2> QED
    BY <1>1, <1>2, <2>1, <2>2, <2>3, <2>4, ReceiverStep
<1> QED
  BY <1>3, <1>4

LEMMA StartSearchingPayload ==
  ASSUME IInv, PayloadInv, NEW s \in Side, StartSearching(s) PROVE PayloadInv'
<1> USE Sides
<1>1. TypeOK
  BY DEF IInv
<1>2. /\ pc[s] = "idle" /\ type[s] = "search" /\ op[s] = 0
      /\ op' = [op EXCEPT ![s] = 1] /\ pc' = [pc EXCEPT ![s] = "probe"]
      /\ return' = [return EXCEPT ![s] = IF s = "S" THEN "post" ELSE "fallback?"]
      /\ UNCHANGED <<type, backup, mailbox, recvBuf, transit>>
  BY DEF StartSearching, KeepMessages
<1>3. CASE s = "S"
  <2>1. /\ pc'["R"] = pc["R"] /\ return'["R"] = return["R"] /\ op'["R"] = op["R"]
        /\ At("S") = "idle" /\ At("S")' = "post" /\ op'["S"] = 1
    BY <1>1, <1>2, <1>3 DEF At, TypeOK
  <2> QED
    BY <1>2, <1>3, <2>1, SenderStep
<1>4. CASE s = "R"
  <2>1. /\ At("S")' = At("S") /\ op'["S"] = op["S"]
        /\ At("R") = "idle" /\ At("R")' = "fallback?" /\ op'["R"] = 1
    BY <1>1, <1>2, <1>4 DEF At, TypeOK
  <2>2. SentPayloads' = SentPayloads
    BY <2>1 DEF SentPayloads
  <2>3. backup["R"] = "null" /\ recvBuf = 0
    BY <1>2, <1>4, <2>1 DEF PayloadInv, RecvInv, Matched
  <2>4. ~Matched'
    BY <1>2, <2>1, <2>3 DEF Matched
  <2>5. RecvInv'
    BY <1>2, <1>4, <2>1, <2>3, <2>4, IprobeKept DEF RecvInv
  <2> QED
    BY <1>2, <2>1, <2>2, <2>5, OrderKept DEF PayloadInv
<1> QED
  BY <1>3, <1>4

\* A look for the peer ends, and may post the receive.
LEMMA LookEndsPayload ==
  ASSUME IInv, PayloadInv, NEW s \in Side,
         pc[s] \in {"probe", "block"}, pc' = [pc EXCEPT ![s] = return[s]],
         IF PostsReceive(s) THEN PostRecv ELSE KeepMessages,
         UNCHANGED <<type, op, return, connected>>
  PROVE  PayloadInv'
<1> USE Sides
<1>1. TypeOK /\ ConnInv
  BY DEF IInv
<1>2. At(s)' = At(s)
  BY <1>1 DEF At, TypeOK
<1>3. CASE s = "S"
  <2>1. KeepMessages
    BY <1>3 DEF PostsReceive
  <2> QED
    BY <1>1, <1>2, <1>3, <2>1, SenderStep DEF KeepMessages, TypeOK
<1>4. CASE s = "R"
  <2>1. pc'["S"] = pc["S"] /\ return'["S"] = return["S"]
    BY <1>1, <1>4 DEF TypeOK
  <2>2. At("R") \notin {"new", "wait"}
    BY <1>1, <1>4 DEF At, ConnInv, PayloadInv, RecvInv
  <2>3. PostsReceive(s) => PostRecv /\ ~Matched /\ backup["R"] = "null"
    BY <1>4, <2>2 DEF PostsReceive, Matched, PayloadInv, RecvInv
  <2>4. KeepMessages => Matched' = Matched
    BY <1>2, <1>4 DEF KeepMessages, Matched
  <2>5. At("R") = "idle" => ~PostsReceive(s)
    BY <1>4 DEF PostsReceive, PayloadInv, RecvInv
  <2> QED
    BY <1>1, <1>2, <1>4, <2>1, <2>2, <2>3, <2>4, <2>5, ReceiverStep
       DEF KeepMessages, PayloadInv, RecvInv
<1> QED
  BY <1>3, <1>4

LEMMA ProbeFindsPeerPayload ==
  ASSUME IInv, PayloadInv, NEW s \in Side, ProbeFindsPeer(s) PROVE PayloadInv'
<1> USE Sides
<1> DEFINE i == First(s, "info")
<1>1. TypeOK
  BY DEF IInv
<1>2. /\ mailbox' = [mailbox EXCEPT ![s] = RemoveAt(mailbox[s], i)]
      /\ transit' = [transit EXCEPT ![s] = Append(transit[s], InfoAck)]
      /\ pc[s] = "probe" /\ pc' = [pc EXCEPT ![s] = "block"]
      /\ UNCHANGED <<type, op, return, backup, recvBuf>>
  BY DEF ProbeFindsPeer, Send
<1>3. i \in 1 .. Len(mailbox[s]) /\ mailbox[s][i].kind # "payload"
  BY <1>1, FirstArrived DEF ProbeFindsPeer, OfKind
<1>4. InfoAck \in Message /\ InfoAck.kind # "payload"
  BY DEF InfoAck, Message
<1>5. \A r \in Side : At(r)' = At(r)
  BY <1>1, <1>2 DEF At, TypeOK
<1>6. SentPayloads' = SentPayloads /\ Matched' = Matched
  BY <1>2, <1>5 DEF SentPayloads, Matched
<1> HIDE DEF i
<1>7. OrderInv'
  <2>1. CASE s = "S"
    <3>1. mailbox'["R"] = mailbox["R"] /\ transit'["S"] = Append(transit["S"], InfoAck)
      BY <1>1, <1>2, <2>1 DEF TypeOK
    <3> QED
      BY <1>1, <1>2, <1>4, <1>6, <3>1, OrderTypes, OthersAside DEF OrderInv, PayloadInv
  <2>2. CASE s = "R"
    <3>1. mailbox'["R"] = RemoveAt(mailbox["R"], i) /\ transit'["S"] = transit["S"]
      BY <1>1, <1>2, <2>2 DEF TypeOK
    <3> QED
      BY <1>1, <1>2, <1>3, <1>6, <2>2, <3>1, OrderTypes, OthersAside DEF OrderInv, PayloadInv
  <2> QED
    BY <2>1, <2>2
<1>8. Iprobe("R", "payload")' => Iprobe("R", "payload")
  <2>1. CASE s = "S"
    BY <1>1, <1>2, <2>1, IprobeKept DEF TypeOK
  <2>2. CASE s = "R"
    <3>1. mailbox["R"] \in Seq(Message) /\ mailbox'["R"] = RemoveAt(mailbox["R"], i)
      BY <1>1, <1>2, <2>2 DEF TypeOK
    <3> QED
      BY <1>3, <2>2, <3>1, RestIncluded DEF Iprobe, Arrived
  <2> QED
    BY <2>1, <2>2
<1>9. RecvInv'
  BY <1>1, <1>2, <1>5, <1>6, <1>8 DEF RecvInv, PayloadInv, At
<1> QED
  BY <1>2, <1>5, <1>7, <1>9 DEF PayloadInv

LEMMA ProgressFromOthersPayload ==
  ASSUME IInv, PayloadInv, NEW s \in Side, ProgressFromOthers(s) PROVE PayloadInv'
<1> USE Sides
<1>1. TypeOK
  BY DEF IInv
<1>2. /\ pc[s] \in {"idle", "started", "sent"} /\ type[s] = "search"
      /\ return' = [return EXCEPT ![s] = pc[s]] /\ pc' = [pc EXCEPT ![s] = "probe"]
      /\ UNCHANGED <<type, op, backup, mailbox, recvBuf, transit>>
  BY DEF ProgressFromOthers, KeepMessages
<1>3. \A r \in Side : At(r)' = At(r) /\ (r # s => pc'[r] = pc[r] /\ return'[r] = return[r])
  BY <1>1, <1>2 DEF At, TypeOK
<1>4. CASE s = "S"
  BY <1>2, <1>3, <1>4, SenderStep
<1>5. CASE s = "R"
  <2>1. Matched' = Matched /\ At("R") # "wait"
    BY <1>1, <1>2, <1>3, <1>5 DEF Matched, At
  <2> QED
    BY <1>1, <1>2, <1>3, <1>5, <2>1, ReceiverStep DEF PayloadInv, RecvInv
<1> QED
  BY <1>4, <1>5

LEMMA ProgressFallbackPayload ==
  ASSUME IInv, PayloadInv, NEW s \in Side, ProgressFallback(s) PROVE PayloadInv'
<1> USE Sides
<1>1. TypeOK
  BY DEF IInv
<1>2. /\ type[s] = "fallback" /\ backup[s] = "done" /\ backup' = [backup EXCEPT ![s] = "null"]
      /\ UNCHANGED <<type, op, pc, return, mailbox, recvBuf, transit>>
  BY DEF ProgressFallback
<1>3. \A r \in Side : At(r)' = At(r)
  BY <1>2 DEF At
<1>4. CASE s = "S"
  <2>1. backup'["R"] = backup["R"]
    BY <1>1, <1>2, <1>4 DEF TypeOK
  <2> QED
    BY <1>2, <1>3, <2>1, SenderStep
<1>5. CASE s = "R"
  <2>1. At("R") = "wait" /\ backup["R"] = "done" /\ backup'["R"] = "null"
    BY <1>1, <1>2, <1>5 DEF PayloadInv, RecvInv, TypeOK
  <2>2. Matched' /\ Matched
    BY <1>3, <2>1 DEF Matched
  <2> QED
    BY <1>1, <1>2, <1>3, <2>1, <2>2, ReceiverStep DEF PayloadInv, RecvInv
<1> QED
  BY <1>4, <1>5

LEMMA ProgressWhileBlockedPayload ==
  ASSUME IInv, PayloadInv, ProgressWhileBlocked PROVE PayloadInv'
<1> USE Sides
<1>1. TypeOK /\ ConnInv
  BY DEF IInv
<1>2. /\ pc["R"] = "block" /\ PostsReceive("R") /\ PostRecv
      /\ UNCHANGED <<type, op, pc, return>>
  BY DEF ProgressWhileBlocked
<1>3. \A r \in Side : At(r)' = At(r)
  BY <1>2 DEF At
<1>4. At("R") \notin {"new", "wait", "idle"}
  BY <1>1, <1>2 DEF At, ConnInv, PostsReceive, PayloadInv, RecvInv
<1>5. ~Matched /\ backup["R"] = "null"
  BY <1>2, <1>4 DEF PostsReceive, Matched
<1> QED
  BY <1>1, <1>2, <1>3, <1>4, <1>5, ReceiverStep DEF PayloadInv, RecvInv

LEMMA IssendPayloadPayload == ASSUME IInv, PayloadInv, IssendPayload PROVE PayloadInv'
<1> USE Sides
<1>1. TypeOK
  BY DEF IInv
<1>2. /\ pc["S"] = "post" /\ pc' = [pc EXCEPT !["S"] = "started"]
      /\ backup' = [backup EXCEPT !["S"] = "pending"]
      /\ transit' = [transit EXCEPT !["S"] = Append(transit["S"], Payload(op["S"]))]
      /\ UNCHANGED <<type, op, return, mailbox, recvBuf>>
  BY DEF IssendPayload, Send
<1>3. At("S") = "post" /\ At("S")' = "started" /\ op["S"] = 1
  BY <1>1, <1>2 DEF At, TypeOK, PayloadInv
<1>4. SentPayloads = 0 /\ SentPayloads' = 0 + 1 /\ 0 + 1 \in 1 .. MaxOp
  BY <1>2, <1>3, HandshakeAssumption DEF SentPayloads
<1>5. /\ transit'["S"] = Append(transit["S"], Payload(0 + 1))
      /\ pc'["R"] = pc["R"] /\ backup'["R"] = backup["R"]
  BY <1>1, <1>2, <1>3 DEF TypeOK
<1>6. OrderInv'
  BY <1>1, <1>2, <1>4, <1>5, OrderTypes, NextSent DEF OrderInv, PayloadInv
<1> QED
  BY <1>2, <1>3, <1>5, <1>6, RecvKept DEF PayloadInv

\* The other steps of the sender.
LEMMA SenderCallsPayload ==
  ASSUME IInv, PayloadInv, WaitSearchingSend \/ TestPayloadSent \/ LeaveWaitSend \/ BackupDone("S")
  PROVE  PayloadInv'
<1> USE Sides
<1>1. TypeOK
  BY DEF IInv
<1>2. /\ mailbox' = mailbox /\ transit' = transit /\ recvBuf' = recvBuf /\ op' = op
      /\ pc'["R"] = pc["R"] /\ return'["R"] = return["R"]
      /\ type'["R"] = type["R"] /\ backup'["R"] = backup["R"]
  BY <1>1 DEF WaitSearchingSend, TestPayloadSent, TestPayload, LeaveWaitSend, BackupDone,
              KeepMessages, TypeOK
<1>3. pc["S"] \in {"started", "test", "sent", "wait"} /\ At("S") # "post"
  BY DEF WaitSearchingSend, TestPayloadSent, TestPayload, LeaveWaitSend, BackupDone, At
<1>4. At("S")' # "post"
  BY <1>1 DEF WaitSearchingSend, TestPayloadSent, TestPayload, LeaveWaitSend, BackupDone, At, TypeOK
<1> QED
  BY <1>2, <1>3, <1>4, SenderStep

LEMMA FallbackInStartPayload == ASSUME IInv, PayloadInv, FallbackInStart PROVE PayloadInv'
<1> USE Sides
<1>1. TypeOK
  BY DEF IInv
<1>2. /\ pc["R"] = "fallback?" /\ pc' = [pc EXCEPT !["R"] = "started"]
      /\ UNCHANGED <<type, op, return>>
      /\ (PostRecv /\ backup["R"] = "null") \/ KeepMessages
  BY DEF FallbackInStart
<1>3. At("R") = "fallback?" /\ At("R")' = "started" /\ type["R"] = "search"
  BY <1>1, <1>2 DEF At, TypeOK, PayloadInv, RecvInv
<1>4. pc'["S"] = pc["S"]
  BY <1>1, <1>2 DEF TypeOK
<1>5. CASE PostRecv /\ backup["R"] = "null"
  <2>1. ~Matched
    BY <1>3, <1>5 DEF Matched
  <2> QED
    BY <1>1, <1>2, <1>3, <1>4, <1>5, <2>1, ReceiverStep
<1>6. CASE KeepMessages
  <2>1. Matched' = Matched
    BY <1>3, <1>6 DEF KeepMessages, Matched
  <2> QED
    BY <1>1, <1>2, <1>3, <1>4, <1>6, <2>1, ReceiverStep DEF KeepMessages
<1> QED
  BY <1>2, <1>5, <1>6

LEMMA ReceiverSearchesPayload ==
  ASSUME IInv, PayloadInv, WaitSearchingRecv \/ SearchRound PROVE PayloadInv'
<1> USE Sides
<1>1. TypeOK
  BY DEF IInv
<1>2. /\ UNCHANGED <<type, op, backup, mailbox, recvBuf, transit>>
      /\ pc'["S"] = pc["S"] /\ return'["S"] = return["S"]
  BY <1>1 DEF WaitSearchingRecv, SearchRound, KeepMessages, TypeOK
<1>3. pc["R"] \in {"started", "search"} /\ At("R") \in {"started", "search"}
  BY DEF WaitSearchingRecv, SearchRound, At
<1>4. At("R")' \in {"search", "decide"}
  BY <1>1 DEF WaitSearchingRecv, SearchRound, At, TypeOK
<1>5. type["R"] = "search" /\ Matched' = Matched
  BY <1>2, <1>3, <1>4 DEF Matched, PayloadInv, RecvInv
<1> QED
  BY <1>1, <1>2, <1>4, <1>5, ReceiverStep

LEMMA DecidePayload == ASSUME IInv, PayloadInv, Decide PROVE PayloadInv'
<1> USE Sides
<1>1. TypeOK
  BY DEF IInv
<1>2. /\ pc["R"] = "decide" /\ pc' = [pc EXCEPT !["R"] = "wait"]
      /\ type' = [type EXCEPT !["R"] = IF connected["R"] THEN "rdma" ELSE "fallback"]
      /\ UNCHANGED <<op, return>>
      /\ IF backup["R"] = "null" THEN PostRecv ELSE KeepMessages
  BY DEF Decide
<1>3. /\ At("R") = "decide" /\ At("R")' = "wait" /\ pc'["R"] = "wait"
      /\ type'["R"] # "search" /\ pc'["S"] = pc["S"]
  BY <1>1, <1>2 DEF At, TypeOK
<1>4. CASE backup["R"] = "null"
  <2>1. ~Matched
    BY <1>3, <1>4 DEF Matched
  <2> QED
    BY <1>1, <1>2, <1>3, <1>4, <2>1, ReceiverStep
<1>5. CASE backup["R"] # "null"
  <2>1. Matched' = Matched
    BY <1>2, <1>3, <1>5 DEF KeepMessages, Matched
  <2> QED
    BY <1>1, <1>2, <1>3, <1>5, <2>1, ReceiverStep DEF KeepMessages
<1> QED
  BY <1>4, <1>5

LEMMA BackupDonePayload == ASSUME IInv, PayloadInv, BackupDone("R") PROVE PayloadInv'
<1> USE Sides
<1>1. TypeOK
  BY DEF IInv
<1>2. /\ pc["R"] = "wait" /\ backup["R"] \in {"done", "null"}
      /\ backup' = [backup EXCEPT !["R"] = "null"] /\ pc' = [pc EXCEPT !["R"] = "idle"]
      /\ UNCHANGED <<type, op, return, mailbox, recvBuf, transit>>
  BY DEF BackupDone
<1>3. /\ At("R") = "wait" /\ At("R")' = "idle" /\ backup'["R"] = "null"
      /\ pc'["S"] = pc["S"]
  BY <1>1, <1>2 DEF At, TypeOK
<1>4. Matched /\ Matched' /\ type["R"] # "search"
  BY <1>2, <1>3 DEF Matched, PayloadInv, RecvInv
<1> QED
  BY <1>1, <1>2, <1>3, <1>4, ReceiverStep

LEMMA StartOrdinaryPayload ==
  ASSUME IInv, PayloadInv, NEW s \in Side, StartOrdinary(s) PROVE PayloadInv'
<1> USE Sides
<1>1. TypeOK /\ MaxOp \in Nat
  BY HandshakeAssumption DEF IInv
<1>2. /\ pc[s] = "idle" /\ type[s] \in {"fallback", "plain"} /\ op[s] < MaxOp
      /\ op' = [op EXCEPT ![s] = op[s] + 1] /\ pc' = [pc EXCEPT ![s] = "wait"]
      /\ UNCHANGED <<type, return>>
  BY DEF StartOrdinary
<1>3. At(s) = "idle" /\ At(s)' = "wait" /\ op[s] \in 0 .. MaxOp /\ op'[s] = op[s] + 1
  BY <1>1, <1>2 DEF At, TypeOK
<1>4. CASE s = "S"
  <2>1. \E b \in {"pending", "done"} : backup' = [backup EXCEPT !["S"] = b]
    BY <1>4 DEF StartOrdinary
  <2>2. /\ transit' = [transit EXCEPT !["S"] = Append(transit["S"], Payload(op["S"] + 1))]
        /\ UNCHANGED <<mailbox, recvBuf>>
    BY <1>4 DEF StartOrdinary, Send
  <2>3. /\ transit'["S"] = Append(transit["S"], Payload(op["S"] + 1))
        /\ pc'["R"] = pc["R"] /\ backup'["R"] = backup["R"] /\ op'["R"] = op["R"]
    BY <1>1, <1>2, <1>4, <2>1, <2>2 DEF TypeOK
  <2>4. SentPayloads = op["S"] /\ SentPayloads' = op["S"] + 1 /\ op["S"] + 1 \in 1 .. MaxOp
    BY <1>1, <1>2, <1>3, <1>4 DEF SentPayloads
  <2>5. OrderInv'
    BY <1>1, <2>2, <2>3, <2>4, OrderTypes, NextSent DEF OrderInv, PayloadInv
  <2> QED
    BY <1>2, <1>3, <1>4, <2>2, <2>3, <2>5, RecvKept DEF PayloadInv
<1>5. CASE s = "R"
  <2>1. PostRecv /\ pc'["S"] = pc["S"] /\ op'["S"] = op["S"]
    BY <1>1, <1>2, <1>5 DEF StartOrdinary, TypeOK
  <2>2. At("S")' = At("S") /\ SentPayloads' = SentPayloads
    BY <1>2, <2>1 DEF At, SentPayloads
  <2>3. /\ OrderInv'
        /\ \/ backup'["R"] = "done" /\ recvBuf' = recvBuf + 1
           \/ backup'["R"] = "pending" /\ recvBuf' = recvBuf /\ ~Iprobe("R", "payload")'
    BY <1>1, <2>1, <2>2, PostRecvTakesNext DEF PayloadInv
  <2>4. op["R"] = recvBuf
    BY <1>3, <1>5 DEF PayloadInv, RecvInv, Matched
  <2>5. op'["R"] = IF Matched' THEN recvBuf' ELSE recvBuf' + 1
    BY <1>3, <1>5, <2>3, <2>4 DEF Matched
  <2>6. RecvInv'
    BY <1>1, <1>2, <1>3, <1>5, <2>3, <2>5 DEF RecvInv, TypeOK
  <2> QED
    BY <2>1, <2>2, <2>3, <2>6 DEF PayloadInv
<1> QED
  BY <1>4, <1>5

LEMMA ArrivePayload == ASSUME IInv, PayloadInv, NEW s \in Side, Arrive(s) PROVE PayloadInv'
<1> USE Sides
<1>1. TypeOK /\ KindInv
  BY DEF IInv
<1>2. UNCHANGED <<deployment, type, op, pc, return, connected>>
  BY DEF Arrive
<1> DEFINE p == Peer(s)
<1>3. PICK i \in DOMAIN transit[s] :
        LET msg == transit[s][i] rest == RemoveAt(transit[s], i) IN
        /\ Deliverable(s, i)
        /\ CASE msg.kind = "infoAck" ->
                  /\ infoSend' = [infoSend EXCEPT ![p] = "done"]
                  /\ transit' = [transit EXCEPT ![s] = rest]
                  /\ UNCHANGED <<backup, mailbox, recvBuf>>
             [] msg.kind = "payloadAck" ->
                  /\ backup' = [backup EXCEPT ![p] =
                                  IF msg.n = op[p] /\ @ = "pending" THEN "done" ELSE @]
                  /\ transit' = [transit EXCEPT ![s] = rest]
                  /\ UNCHANGED <<infoSend, mailbox, recvBuf>>
             [] msg.kind = "payload" /\ backup[p] = "pending" ->
                  /\ backup' = [backup EXCEPT ![p] = "done"]
                  /\ recvBuf' = msg.n
                  /\ transit' = [transit EXCEPT ![s] = rest, ![p] = Append(@, PayloadAck(msg.n))]
                  /\ UNCHANGED <<infoSend, mailbox>>
             [] OTHER ->
                  /\ mailbox' = [mailbox EXCEPT ![p] = Append(@, msg)]
                  /\ transit' = [transit EXCEPT ![s] = rest]
                  /\ UNCHANGED <<infoSend, backup, recvBuf>>
  BY DEF Arrive
<1> DEFINE msg == transit[s][i]
           rest == RemoveAt(transit[s], i)
<1>4. /\ transit[s] \in Seq(Message) /\ i \in 1 .. Len(transit[s])
      /\ msg \in OfKind(Sends(s)) /\ msg \in Message
  <2>1. transit[s] \in Seq(OfKind(Sends(s))) /\ transit[s] \in Seq(Message)
    BY <1>1 DEF KindInv, TypeOK
  <2>2. i \in 1 .. Len(transit[s])
    BY <2>1
  <2> QED
    BY <2>1, <2>2
<1>5. \A r \in Side : At(r)' = At(r)
  BY <1>2 DEF At
<1>6. SentPayloads' = SentPayloads
  BY <1>2, <1>5 DEF SentPayloads
<1>7. CASE s = "R"
  <2>1. msg.kind # "payload"
    BY <1>4, <1>7 DEF OfKind, Sends
  <2>2. /\ mailbox'["R"] = mailbox["R"] /\ transit'["S"] = transit["S"]
        /\ recvBuf' = recvBuf /\ backup'["R"] = backup["R"]
    BY <1>1, <1>3, <1>7, <2>1 DEF TypeOK
  <2> QED
    BY <1>2, <1>5, <2>2, SenderStep
<1>8. CASE s = "S"
  <2>1. /\ InOrder(mailbox["R"], transit["S"], recvBuf, SentPayloads)
        /\ i \in 1 .. Len(transit["S"]) /\ msg = transit["S"][i] /\ p = "R"
        /\ rest = RemoveAt(transit["S"], i)
    BY <1>4, <1>8 DEF PayloadInv, OrderInv
  <2>2. ASSUME OrderInv', Iprobe("R", "payload")' => Iprobe("R", "payload"),
               recvBuf' = recvBuf, backup'["R"] = backup["R"]
        PROVE  PayloadInv'
    BY <1>2, <1>5, <2>2 DEF PayloadInv, RecvInv, Matched
  <2>3. CASE msg.kind = "infoAck"
    <3>1. /\ transit'["S"] = rest /\ mailbox'["R"] = mailbox["R"] /\ recvBuf' = recvBuf
          /\ backup'["R"] = backup["R"]
      BY <1>1, <1>3, <1>8, <2>3 DEF TypeOK
    <3>2. OrderInv'
      BY <1>1, <1>6, <2>1, <2>3, <3>1, OrderTypes, OthersAside DEF OrderInv
    <3> QED
      BY <2>2, <3>1, <3>2, IprobeKept
  <2>4. CASE msg.kind = "payload"
    <3>1. \A j \in 1 .. Len(transit["S"]) : transit["S"][j].kind = "payload" => i <= j
      <4>1. Len(transit["S"]) \in Nat /\ \A j \in 1 .. i - 1 : Deliverable(s, i) =>
              i = 1 \/ transit["S"][j].kind # "payload"
        BY <1>4, <1>8, <2>1, <2>4 DEF Deliverable
      <4>2. \A j \in 1 .. i - 1 : transit["S"][j].kind # "payload"
        BY <1>3, <2>1, <4>1
      <4> QED
        BY <2>1, <4>1, <4>2
    <3>2. CASE backup["R"] = "pending"
      <4>1. /\ transit'["S"] = rest /\ mailbox'["R"] = mailbox["R"] /\ recvBuf' = msg.n
            /\ backup'["R"] = "done"
        BY <1>1, <1>3, <1>8, <2>4, <3>2 DEF TypeOK
      <4>2. \A n \in 1 .. MaxOp : ~Holds(mailbox["R"], n)
        BY <1>1, <3>2, PayloadWaits DEF PayloadInv, RecvInv
      <4>3. msg.n = recvBuf + 1 /\ InOrder(mailbox["R"], rest, recvBuf + 1, SentPayloads)
        BY <1>1, <2>1, <2>4, <3>1, <4>2, OrderTypes, UnderWayArrives
      <4>4. OrderInv'
        BY <1>6, <4>1, <4>3 DEF OrderInv
      <4>5. ~Matched /\ Matched'
        BY <3>2, <4>1 DEF Matched
      <4>6. At("R") \notin {"new", "idle"}
        BY <3>2 DEF PayloadInv, RecvInv
      <4>7. RecvInv'
        BY <1>2, <1>5, <4>1, <4>3, <4>5, <4>6 DEF PayloadInv, RecvInv
      <4> QED
        BY <1>2, <1>5, <4>4, <4>7 DEF PayloadInv
    <3>3. CASE backup["R"] # "pending"
      <4>1. /\ transit'["S"] = rest /\ mailbox'["R"] = Append(mailbox["R"], msg)
            /\ recvBuf' = recvBuf /\ backup'["R"] = backup["R"]
        BY <1>1, <1>3, <1>8, <2>4, <3>3 DEF TypeOK
      <4>2. OrderInv'
        BY <1>1, <1>6, <2>1, <2>4, <3>1, <4>1, OrderTypes, UnderWayArrives DEF OrderInv
      <4> QED
        BY <1>2, <1>5, <3>3, <4>1, <4>2 DEF PayloadInv, RecvInv, Matched
    <3> QED
      BY <3>2, <3>3
  <2>5. CASE msg.kind \notin {"infoAck", "payload"}
    <3>1. msg.kind # "payloadAck"
      BY <1>4, <1>8 DEF OfKind, Sends
    <3>2. /\ transit'["S"] = rest /\ mailbox'["R"] = Append(mailbox["R"], msg)
          /\ recvBuf' = recvBuf /\ backup'["R"] = backup["R"]
      BY <1>1, <1>3, <1>8, <2>5, <3>1 DEF TypeOK
    <3>3. OrderInv'
      <4>1. InOrder(Append(mailbox["R"], msg), transit["S"], recvBuf, SentPayloads)
        BY <1>1, <1>4, <2>1, <2>5, OrderTypes, OthersAside
      <4>2. Append(mailbox["R"], msg) \in Seq(Message)
        BY <1>1, <1>4, OrderTypes, AppendProperties
      <4>3. InOrder(Append(mailbox["R"], msg), rest, recvBuf, SentPayloads)
        BY <1>1, <2>1, <2>5, <4>1, <4>2, OrderTypes, OthersAside
      <4> QED
        BY <1>6, <3>2, <4>3 DEF OrderInv
    <3>4. Iprobe("R", "payload")' => Iprobe("R", "payload")
      <4>1. mailbox["R"] \in Seq(Message)
        BY <1>1, OrderTypes
      <4>2. /\ DOMAIN Append(mailbox["R"], msg) = DOMAIN mailbox["R"] \union {Len(mailbox["R"]) + 1}
            /\ \A j \in DOMAIN mailbox["R"] : Append(mailbox["R"], msg)[j] = mailbox["R"][j]
            /\ Append(mailbox["R"], msg)[Len(mailbox["R"]) + 1] = msg
        BY <4>1
      <4> QED
        BY <2>5, <3>2, <4>2 DEF Iprobe, Arrived
    <3> QED
      BY <2>2, <3>2, <3>3, <3>4
  <2> QED
    BY <2>3, <2>4, <2>5
<1> QED
  BY <1>7, <1>8

LEMMA NextPayload == IInv /\ PayloadInv /\ [Next]_vars => PayloadInv'
<1> SUFFICES ASSUME IInv, PayloadInv, [Next]_vars PROVE PayloadInv'
  OBVIOUS
<1>1. CASE UNCHANGED vars
  BY <1>1, SenderStep DEF vars, At
<1>2. ASSUME NEW s \in Side, ProbeNothing(s) \/ PeerTookInfo(s) PROVE PayloadInv'
  <2>1. /\ pc[s] \in {"probe", "block"} /\ pc' = [pc EXCEPT ![s] = return[s]]
        /\ UNCHANGED <<type, op, return, connected>>
    BY <1>2 DEF ProbeNothing, PeerTookInfo
  <2>2. PostsReceive(s) => PostRecv
    BY <1>2 DEF ProbeNothing, PeerTookInfo
  <2>3. ~PostsReceive(s) => KeepMessages
    BY <1>2 DEF ProbeNothing, PeerTookInfo
  <2> QED
    BY <2>1, <2>2, <2>3, LookEndsPayload
<1>3. ASSUME NEW s \in Side, BackupDone(s) PROVE PayloadInv'
  BY <1>3, SenderCallsPayload, BackupDonePayload DEF Side
<1>4. CASE Next
  BY <1>1, <1>2, <1>3, <1>4, IssendPayloadPayload, SenderCallsPayload, FallbackInStartPayload,
     ReceiverSearchesPayload, DecidePayload, ProgressWhileBlockedPayload, InitRequestPayload,
     StartSearchingPayload, StartOrdinaryPayload, ProbeFindsPeerPayload,
     ProgressFromOthersPayload, ProgressFallbackPayload, ArrivePayload
     DEF Next, Stopped
<1> QED
  BY <1>1, <1>4

(***************************************************************************)
(* In every deployment, also where the sides disagree or an operation may  *)
(* hang: what a wait of the receiver returns with is the payload of its    *)
(* operation, whether its receive was posted by the start, by the wait, or *)
(* from within the call on another request, and however the messages of    *)
(* the two communicators overtake each other.                              *)
(***************************************************************************)
THEOREM PayloadReceivedHolds == Spec => []PayloadReceived
<1>1. PayloadInv => PayloadReceived
  BY DEF PayloadInv, RecvInv, Matched, At, PayloadReceived
<1> QED
  BY <1>1, InitIInv, NextIInv, InitPayload, NextPayload, PTL DEF Spec
=============================================================================
