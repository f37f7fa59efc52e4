-------------------- MODULE ActiveMessageHandshakeProofs ---------------------
(***************************************************************************)
(* The sides of ActiveMessageHandshake agree, for every number of          *)
(* operations, in a deployment in which a persistent sender starts when it *)
(* has the handler id and no message of a process overtakes another one:   *)
(* the acknowledgement of the id then runs ahead of the first payload, so  *)
(* that the receiver has it when it tests.  In every deployment, active    *)
(* messages go to a handler that is known, and the payloads are received   *)
(* in order, whether the sides agree or not.                               *)
(***************************************************************************)
EXTENDS ActiveMessageHandshake, SequenceTheorems, TLAPS

\* What side s sends: an ordinary process takes no part in the exchange.
Sends(s) ==
  IF s = "S" THEN {"payload"} \union (IF type["S"] = "plain" THEN {} ELSE {"idAck"})
             ELSE {"payloadAck"} \union (IF type["R"] = "plain" THEN {} ELSE {"id"})

OfKind(kinds) == {m \in Message : m.kind \in kinds}

\* Acknowledgements are not matched.
KindInv ==
  \A s \in Side :
    /\ transit[s] \in Seq(OfKind(Sends(s)))
    /\ mailbox[s] \in Seq(OfKind(Sends(Peer(s)) \ {"idAck", "payloadAck"}))

\* Where a side is in the exchange.
PcInv ==
  /\ \A s \in Side : pc[s] \in {"new", "test"} => type[s] = "search"
  /\ pc["S"] = "new" => exchange["S"] = "null"
  /\ type["S"] = "plain" => exchange["S"] = "null"

\* An ordinary side leaves the exchange of its peer incomplete.
PlainInv ==
  /\ type["S"] = "plain" => exchange["R"] # "done" /\ type["R"] # "am"
  /\ type["R"] = "plain" => exchange["S"] # "done" /\ type["S"] # "am"

\* A side that uses active messages has completed its half of the exchange, the
\* receiver after the sender; before the receiver is created there is none.
HandlerInv ==
  /\ \A s \in Side : type[s] = "am" => exchange[s] = "done"
  /\ exchange["R"] = "done" => exchange["S"] = "done"
  /\ \A i \in DOMAIN transit["S"] : transit["S"][i].kind = "idAck" => exchange["S"] = "done"
  /\ pc["R"] = "new" => /\ exchange["S"] # "done" /\ backup["R"] # "pending"
                        /\ transit["R"] = <<>> /\ mailbox["S"] = <<>>

\* Of two persistent sides the sender has the id when it starts; the receiver has
\* its acknowledgement before any payload.
ExchangeInv ==
  deployment.idFirst /\ deployment.ordered /\ type["S"] # "plain" /\ type["R"] # "plain" =>
    /\ \A s \in Side : type[s] # "fallback"
    /\ pc["S"] \in {"started", "test"} => exchange["S"] = "done"
    /\ exchange["R"] # "done" =>
         /\ mailbox["R"] = <<>> /\ backup["R"] # "done" /\ pc["R"] # "test"
         /\ IF exchange["S"] = "done"
              THEN transit["S"] # <<>> /\ transit["S"][1].kind = "idAck"
              ELSE transit["S"] = <<>>

TypeInv == TypeOK /\ KindInv /\ PcInv

\* What holds in every deployment, and what rests on the order of the messages.
DecisionInv == TypeInv /\ PlainInv /\ HandlerInv

IInv == DecisionInv /\ ExchangeInv

-----------------------------------------------------------------------------

LEMMA Sides == Side = {"S", "R"} /\ Peer("S") = "R" /\ Peer("R") = "S"
  BY DEF Side, Peer

\* An element is taken out of a sequence.
LEMMA Removed ==
  ASSUME NEW T, NEW q \in Seq(T), NEW i \in 1 .. Len(q)
  PROVE  RemoveAt(q, i) \in Seq(T)
<1>1. Len(q) \in Nat /\ i \in Int /\ \A j \in 1 .. Len(q) : q[j] \in T
  OBVIOUS
<1>2. SubSeq(q, 1, i - 1) \in Seq(T)
  BY <1>1, SubSeqProperties
<1>3. SubSeq(q, i + 1, Len(q)) \in Seq(T)
  BY <1>1, SubSeqProperties
<1> QED
  BY <1>2, <1>3, ConcatProperties DEF RemoveAt

\* The elements of a sequence of messages.
LEMMA KindsIncluded ==
  ASSUME NEW K, NEW L, K \subseteq L
  PROVE  Seq(OfKind(K)) \subseteq Seq(OfKind(L)) /\ Seq(OfKind(K)) \subseteq Seq(Message)
<1>1. OfKind(K) \subseteq OfKind(L) /\ OfKind(K) \subseteq Message
  BY DEF OfKind
<1> QED
  BY <1>1

LEMMA MessageKinds ==
  /\ Id \in OfKind({"id"}) /\ IdAck \in OfKind({"idAck"})
  /\ \A n \in 1 .. MaxOp : Payload(n) \in OfKind({"payload"})
                           /\ PayloadAck(n) \in OfKind({"payloadAck"})
  BY DEF Id, IdAck, Payload, PayloadAck, OfKind, Message

\* A mailbox holds messages of one kind, so that the first of a kind is the first.
LEMMA FirstOfMailbox ==
  ASSUME TypeInv, NEW s \in Side, NEW kind,
         kind = (IF s = "S" THEN "id" ELSE "payload"), Arrived(s, kind) # {}
  PROVE  /\ First(s, kind) \in 1 .. Len(mailbox[s])
         /\ mailbox[s][First(s, kind)] \in OfKind({kind})
         /\ mailbox[s] # <<>>
         /\ type[Peer(s)] = "plain" => s = "R"
<1> DEFINE q == mailbox[s]
<1>1. q \in Seq(OfKind(Sends(Peer(s)) \ {"idAck", "payloadAck"}))
  BY DEF TypeInv, KindInv
<1>2. Sends(Peer(s)) \ {"idAck", "payloadAck"} \subseteq {kind}
  BY Sides DEF Sends
<1>3. q \in Seq(OfKind({kind}))
  BY <1>1, <1>2, KindsIncluded
<1>4. Len(q) \in Nat /\ DOMAIN q = 1 .. Len(q) /\ \A i \in 1 .. Len(q) : q[i] \in OfKind({kind})
  BY <1>3
<1>5. Arrived(s, kind) = 1 .. Len(q)
  BY <1>4 DEF Arrived, OfKind
<1>6. 1 \in Arrived(s, kind) /\ \A j \in Arrived(s, kind) : 1 <= j
  BY <1>4, <1>5
<1>7. First(s, kind) \in Arrived(s, kind)
  BY <1>6 DEF First
<1>8. q # <<>>
  BY <1>4, <1>5, <1>6
<1>9. type[Peer(s)] = "plain" => s = "R"
  <2>1. q[1] \in OfKind(Sends(Peer(s)) \ {"idAck", "payloadAck"})
    BY <1>1, <1>5, <1>6
  <2>2. Sends(Peer(s)) \ {"idAck", "payloadAck"} # {}
    BY <2>1 DEF OfKind
  <2> QED
    BY <2>2, Sides DEF Sends
<1> QED
  BY <1>4, <1>5, <1>7, <1>8, <1>9

LEMMA InitTypeInv == Init => TypeInv
<1> SUFFICES ASSUME Init PROVE TypeInv
  OBVIOUS
<1>1. TypeOK
  BY HandshakeAssumption DEF Init, TypeOK, Side, Progresses
<1>2. KindInv
  BY DEF Init, KindInv
<1>3. PcInv
  BY DEF Init, PcInv, Side
<1> QED
  BY <1>1, <1>2, <1>3 DEF TypeInv

-----------------------------------------------------------------------------
(* The type invariant. *)

\* A message may join what s sends.
LEMMA Sent ==
  ASSUME TypeInv, NEW s \in Side, NEW kind \in Sends(s), NEW m \in OfKind({kind})
  PROVE  /\ Append(transit[s], m) \in Seq(OfKind(Sends(s)))
         /\ Append(transit[s], m) \in Seq(Message)
         /\ Append(transit[s], m) # <<>>
         /\ \A i \in DOMAIN transit[s] : Append(transit[s], m)[i] = transit[s][i]
         /\ \A i \in DOMAIN Append(transit[s], m) : i \in DOMAIN transit[s]
                                                    \/ Append(transit[s], m)[i] = m
         /\ Append(transit[s], m)[1] = IF transit[s] = <<>> THEN m ELSE transit[s][1]
<1>1. transit[s] \in Seq(OfKind(Sends(s))) /\ m \in OfKind(Sends(s))
  BY DEF TypeInv, KindInv, OfKind
<1>2. Append(transit[s], m) \in Seq(OfKind(Sends(s))) /\ Append(transit[s], m) # <<>>
  BY <1>1, AppendProperties
<1>3. Seq(OfKind(Sends(s))) \subseteq Seq(Message)
  BY KindsIncluded
<1>4. /\ \A i \in DOMAIN transit[s] : Append(transit[s], m)[i] = transit[s][i]
      /\ \A i \in DOMAIN Append(transit[s], m) : i \in DOMAIN transit[s]
                                                 \/ Append(transit[s], m)[i] = m
      /\ Append(transit[s], m)[1] = IF transit[s] = <<>> THEN m ELSE transit[s][1]
  BY <1>1
<1> QED
  BY <1>2, <1>3, <1>4

\* A message may leave the mailbox of s.
LEMMA Matched ==
  ASSUME TypeInv, NEW s \in Side, NEW i \in 1 .. Len(mailbox[s])
  PROVE  /\ RemoveAt(mailbox[s], i) \in Seq(OfKind(Sends(Peer(s)) \ {"idAck", "payloadAck"}))
         /\ RemoveAt(mailbox[s], i) \in Seq(Message)
<1>1. mailbox[s] \in Seq(OfKind(Sends(Peer(s)) \ {"idAck", "payloadAck"}))
  BY DEF TypeInv, KindInv
<1>2. RemoveAt(mailbox[s], i) \in Seq(OfKind(Sends(Peer(s)) \ {"idAck", "payloadAck"}))
  BY <1>1, Removed
<1> QED
  BY <1>2, KindsIncluded

\* KindInv after a step that keeps the roles of the sides.
LEMMA SendsKept ==
  ASSUME type' = type, NEW s \in Side
  PROVE  Sends(s)' = Sends(s) /\ Sends(Peer(s))' = Sends(Peer(s))
  BY DEF Sends, Peer

LEMMA InitRecvType == ASSUME TypeInv, InitRecv PROVE TypeInv'
<1> USE Sides
<1>1. TypeOK /\ KindInv /\ PcInv
  BY DEF TypeInv
<1>2. "id" \in Sends("R") /\ Id \in OfKind({"id"})
  BY <1>1, MessageKinds DEF InitRecv, PcInv, Sends
<1>3. /\ Append(transit["R"], Id) \in Seq(OfKind(Sends("R")))
      /\ Append(transit["R"], Id) \in Seq(Message)
  BY <1>2, Sent
<1>4. /\ transit' = [transit EXCEPT !["R"] = Append(transit["R"], Id)]
      /\ type' = type /\ mailbox' = mailbox
  BY DEF InitRecv, Send
<1>5. TypeOK'
  BY <1>1, <1>3, <1>4 DEF InitRecv, TypeOK, Progresses
<1>6. KindInv'
  BY <1>1, <1>3, <1>4, SendsKept DEF KindInv, TypeOK
<1>7. PcInv'
  BY <1>1 DEF InitRecv, PcInv, TypeOK
<1> QED
  BY <1>5, <1>6, <1>7 DEF TypeInv

LEMMA InitSendType == ASSUME TypeInv, InitSend PROVE TypeInv'
<1> USE Sides
<1>1. TypeOK /\ KindInv /\ PcInv
  BY DEF TypeInv
<1>2. PcInv'
  BY <1>1 DEF InitSend, PcInv, TypeOK
<1>3. CASE Arrived("S", "id") # {}
  <2>1. /\ mailbox' = [mailbox EXCEPT !["S"] = RemoveAt(mailbox["S"], First("S", "id"))]
        /\ transit' = [transit EXCEPT !["S"] = Append(transit["S"], IdAck)]
        /\ type' = type
    BY <1>3 DEF InitSend, Match, Send
  <2>2. First("S", "id") \in 1 .. Len(mailbox["S"])
    BY <1>3, FirstOfMailbox
  <2>3. /\ RemoveAt(mailbox["S"], First("S", "id"))
             \in Seq(OfKind(Sends(Peer("S")) \ {"idAck", "payloadAck"}))
        /\ RemoveAt(mailbox["S"], First("S", "id")) \in Seq(Message)
    BY <2>2, Matched
  <2>4. "idAck" \in Sends("S") /\ IdAck \in OfKind({"idAck"})
    BY <1>1, MessageKinds DEF InitSend, PcInv, Sends
  <2>5. /\ Append(transit["S"], IdAck) \in Seq(OfKind(Sends("S")))
        /\ Append(transit["S"], IdAck) \in Seq(Message)
    BY <2>4, Sent
  <2>6. TypeOK'
    BY <1>1, <1>3, <2>1, <2>3, <2>5 DEF InitSend, TypeOK, Progresses
  <2>7. KindInv'
    BY <1>1, <2>1, <2>3, <2>5, SendsKept DEF KindInv, TypeOK
  <2> QED
    BY <1>2, <2>6, <2>7 DEF TypeInv
<1>4. CASE Arrived("S", "id") = {}
  <2>1. TypeOK'
    BY <1>1, <1>4 DEF InitSend, TypeOK, Progresses
  <2>2. KindInv'
    BY <1>1, <1>4, SendsKept DEF InitSend, KindInv
  <2> QED
    BY <1>2, <2>1, <2>2 DEF TypeInv
<1> QED
  BY <1>3, <1>4

LEMMA StartSendType == ASSUME TypeInv, StartSend PROVE TypeInv'
<1> USE Sides
<1> DEFINE m == Payload(op["S"] + 1)
<1>1. TypeOK /\ KindInv /\ PcInv
  BY DEF TypeInv
<1>2. /\ op["S"] + 1 \in 1 .. MaxOp /\ op' = [op EXCEPT !["S"] = op["S"] + 1]
      /\ op'["S"] = op["S"] + 1
      /\ transit' = [transit EXCEPT !["S"] = Append(transit["S"], m)]
      /\ type' = type /\ mailbox' = mailbox
  BY <1>1, HandshakeAssumption DEF StartSend, Send, TypeOK
<1>3. /\ Append(transit["S"], m) \in Seq(OfKind(Sends("S")))
      /\ Append(transit["S"], m) \in Seq(Message)
  <2>1. "payload" \in Sends("S") /\ m \in OfKind({"payload"})
    BY <1>2, MessageKinds DEF Sends
  <2> QED
    BY <2>1, Sent
<1>4. TypeOK'
  <2>1. backup' \in [Side -> Progresses]
    BY <1>1 DEF StartSend, TypeOK, Progresses
  <2>2. op' \in [Side -> 0 .. MaxOp] /\ transit' \in [Side -> Seq(Message)]
    BY <1>1, <1>2, <1>3, HandshakeAssumption DEF TypeOK
  <2> QED
    BY <1>1, <2>1, <2>2 DEF StartSend, TypeOK
<1>5. KindInv'
  BY <1>1, <1>2, <1>3, SendsKept DEF KindInv, TypeOK
<1>6. PcInv'
  BY <1>1 DEF StartSend, PcInv, TypeOK
<1> QED
  BY <1>4, <1>5, <1>6 DEF TypeInv

LEMMA StartRecvType == ASSUME TypeInv, StartRecv PROVE TypeInv'
<1> USE Sides
<1> DEFINE i == First("R", "payload")
           n == mailbox["R"][i].n
<1>1. TypeOK /\ KindInv /\ PcInv
  BY DEF TypeInv
<1>2. op' \in [Side -> 0 .. MaxOp] /\ pc' \in [Side -> {"new", "idle", "started", "test"}]
  BY <1>1, HandshakeAssumption DEF StartRecv, TypeOK
<1>3. PcInv'
  BY <1>1 DEF StartRecv, PcInv, TypeOK
<1>4. CASE Arrived("R", "payload") # {}
  <2>1. /\ mailbox' = [mailbox EXCEPT !["R"] = RemoveAt(mailbox["R"], i)]
        /\ transit' = [transit EXCEPT !["R"] = Append(transit["R"], PayloadAck(n))]
        /\ recvBuf' = n /\ type' = type
    BY <1>4 DEF StartRecv, Match, Send
  <2>2. i \in 1 .. Len(mailbox["R"]) /\ n \in 1 .. MaxOp
    <3>1. i \in 1 .. Len(mailbox["R"]) /\ mailbox["R"][i] \in OfKind({"payload"})
      BY <1>4, FirstOfMailbox
    <3> QED
      BY <3>1 DEF OfKind, Message
  <2>3. /\ RemoveAt(mailbox["R"], i)
             \in Seq(OfKind(Sends(Peer("R")) \ {"idAck", "payloadAck"}))
        /\ RemoveAt(mailbox["R"], i) \in Seq(Message)
    BY <2>2, Matched
  <2>4. "payloadAck" \in Sends("R") /\ PayloadAck(n) \in OfKind({"payloadAck"})
    BY <2>2, MessageKinds DEF Sends
  <2>5. /\ Append(transit["R"], PayloadAck(n)) \in Seq(OfKind(Sends("R")))
        /\ Append(transit["R"], PayloadAck(n)) \in Seq(Message)
    BY <2>4, Sent
  <2>6. TypeOK'
    <3>1. backup' \in [Side -> Progresses] /\ recvBuf' \in 0 .. MaxOp
      BY <1>1, <1>4, <2>1, <2>2 DEF StartRecv, TypeOK, Progresses
    <3> QED
      BY <1>1, <1>2, <2>1, <2>3, <2>5, <3>1 DEF StartRecv, TypeOK
  <2>7. KindInv'
    BY <1>1, <2>1, <2>3, <2>5, SendsKept DEF KindInv, TypeOK
  <2> QED
    BY <1>3, <2>6, <2>7 DEF TypeInv
<1>5. CASE Arrived("R", "payload") = {}
  <2>1. TypeOK'
    BY <1>1, <1>2, <1>5 DEF StartRecv, TypeOK, Progresses
  <2>2. KindInv'
    BY <1>1, <1>5, SendsKept DEF StartRecv, KindInv
  <2> QED
    BY <1>3, <2>1, <2>2 DEF TypeInv
<1> QED
  BY <1>4, <1>5

LEMMA WaitBackupType == ASSUME TypeInv, NEW s \in Side, WaitBackup(s) PROVE TypeInv'
<1>1. TypeOK /\ KindInv /\ PcInv
  BY DEF TypeInv
<1>2. TypeOK'
  BY <1>1 DEF WaitBackup, TypeOK, Progresses
<1>3. KindInv'
  BY <1>1, SendsKept DEF WaitBackup, KindInv
<1>4. PcInv'
  BY <1>1, Sides DEF WaitBackup, PcInv, TypeOK
<1> QED
  BY <1>2, <1>3, <1>4 DEF TypeInv

\* A persistent side stays one.
LEMMA TestExchangeType == ASSUME TypeInv, NEW s \in Side, TestExchange(s) PROVE TypeInv'
<1>1. TypeOK /\ KindInv /\ PcInv
  BY DEF TypeInv
<1>2. TypeOK'
  BY <1>1 DEF TestExchange, TypeOK
<1>3. \A r \in Side : type'[r] = "plain" <=> type[r] = "plain"
  BY <1>1 DEF TestExchange, TypeOK, PcInv
<1>4. \A r \in Side : Sends(r)' = Sends(r) /\ Sends(Peer(r))' = Sends(Peer(r))
  BY <1>3, Sides DEF Sends
<1>5. KindInv'
  BY <1>1, <1>4 DEF TestExchange, KindInv
<1>6. PcInv'
  BY <1>1, Sides DEF TestExchange, PcInv, TypeOK
<1> QED
  BY <1>2, <1>5, <1>6 DEF TypeInv

\* A message of s arrives: it is consumed, acknowledged, or kept.
LEMMA ArriveType ==
  ASSUME TypeInv, NEW s \in Side, NEW k \in DOMAIN transit[s], ArriveAt(s, k)
  PROVE  TypeInv'
<1> DEFINE msg == transit[s][k]
           p == Peer(s)
           rest == RemoveAt(transit[s], k)
<1>1. TypeOK /\ KindInv /\ PcInv
  BY DEF TypeInv
<1>2. p \in Side /\ p # s /\ Peer(p) = s
  BY Sides
<1>3. UNCHANGED <<deployment, type, op, pc>>
  BY DEF ArriveAt
<1>4. /\ msg \in OfKind(Sends(s)) /\ rest \in Seq(OfKind(Sends(s)))
      /\ msg \in Message /\ rest \in Seq(Message)
  <2>1. transit[s] \in Seq(OfKind(Sends(s)))
    BY <1>1 DEF KindInv
  <2>2. k \in 1 .. Len(transit[s])
    BY <2>1
  <2>3. msg \in OfKind(Sends(s)) /\ rest \in Seq(OfKind(Sends(s)))
    BY <2>1, <2>2, Removed
  <2> QED
    BY <2>3, KindsIncluded DEF OfKind
<1>5. /\ exchange' \in [Side -> Progresses] /\ backup' \in [Side -> Progresses]
      /\ PcInv'
  <2>1. msg.kind = "id" => s = "R" /\ p = "S" /\ type["R"] # "plain"
    BY <1>4, Sides DEF OfKind, Sends
  <2>2. msg.kind = "idAck" => s = "S" /\ p = "R" /\ type["S"] # "plain"
    BY <1>4, Sides DEF OfKind, Sends
  <2>3. exchange' \in [Side -> Progresses] /\ backup' \in [Side -> Progresses]
    BY <1>1, <1>2 DEF ArriveAt, TypeOK, Progresses
  <2>4. exchange'["S"] = exchange["S"] \/ exchange["S"] = "pending"
    BY <1>1, <1>2, <2>1, <2>2 DEF ArriveAt, TypeOK, Progresses
  <2>5. PcInv'
    BY <1>1, <1>3, <2>4 DEF PcInv
  <2> QED
    BY <2>3, <2>5
<1>6. CASE /\ transit' = [transit EXCEPT ![s] = rest]
           /\ UNCHANGED <<mailbox, recvBuf>>
  <2>1. TypeOK'
    BY <1>1, <1>3, <1>4, <1>5, <1>6 DEF TypeOK
  <2>2. KindInv'
    BY <1>1, <1>3, <1>4, <1>6, SendsKept DEF KindInv, TypeOK
  <2> QED
    BY <1>5, <2>1, <2>2 DEF TypeInv
<1>7. CASE /\ msg.kind = "id" /\ exchange[p] = "pending"
           /\ transit' = [transit EXCEPT ![s] = rest, ![p] = Append(transit[p], IdAck)]
           /\ UNCHANGED <<mailbox, recvBuf>>
  <2>1. s = "R" /\ p = "S" /\ type["S"] # "plain"
    BY <1>1, <1>4, <1>7, Sides DEF OfKind, Sends, PcInv
  <2>2. "idAck" \in Sends(p) /\ IdAck \in OfKind({"idAck"})
    BY <2>1, MessageKinds DEF Sends
  <2>3. /\ Append(transit[p], IdAck) \in Seq(OfKind(Sends(p)))
        /\ Append(transit[p], IdAck) \in Seq(Message)
    BY <1>2, <2>2, Sent
  <2>4. TypeOK'
    BY <1>1, <1>2, <1>3, <1>4, <1>5, <1>7, <2>3 DEF TypeOK
  <2>5. KindInv'
    BY <1>1, <1>2, <1>3, <1>4, <1>7, <2>3, SendsKept DEF KindInv, TypeOK
  <2> QED
    BY <1>5, <2>4, <2>5 DEF TypeInv
<1>8. CASE /\ msg.kind = "payload" /\ recvBuf' = msg.n /\ mailbox' = mailbox
           /\ transit' = [transit EXCEPT ![s] = rest,
                                         ![p] = Append(transit[p], PayloadAck(msg.n))]
  <2>1. s = "S" /\ p = "R" /\ msg.n \in 1 .. MaxOp
    BY <1>4, <1>8, Sides DEF OfKind, Sends, Message
  <2>2. "payloadAck" \in Sends(p) /\ PayloadAck(msg.n) \in OfKind({"payloadAck"})
    BY <2>1, MessageKinds DEF Sends
  <2>3. /\ Append(transit[p], PayloadAck(msg.n)) \in Seq(OfKind(Sends(p)))
        /\ Append(transit[p], PayloadAck(msg.n)) \in Seq(Message)
    BY <1>2, <2>2, Sent
  <2>4. TypeOK'
    <3>1. recvBuf' \in 0 .. MaxOp
      BY <1>8, <2>1
    <3>2. transit' \in [Side -> Seq(Message)]
      BY <1>1, <1>2, <1>4, <1>8, <2>3 DEF TypeOK
    <3> QED
      BY <1>1, <1>3, <1>5, <1>8, <3>1, <3>2 DEF TypeOK
  <2>5. KindInv'
    BY <1>1, <1>2, <1>3, <1>4, <1>8, <2>3, SendsKept DEF KindInv, TypeOK
  <2> QED
    BY <1>5, <2>4, <2>5 DEF TypeInv
<1>9. CASE /\ msg.kind \in {"id", "payload"} /\ UNCHANGED recvBuf
           /\ transit' = [transit EXCEPT ![s] = rest]
           /\ mailbox' = [mailbox EXCEPT ![p] = Append(mailbox[p], msg)]
  <2>1. msg \in OfKind(Sends(Peer(p)) \ {"idAck", "payloadAck"})
    BY <1>2, <1>4, <1>9 DEF OfKind
  <2>2. mailbox[p] \in Seq(OfKind(Sends(Peer(p)) \ {"idAck", "payloadAck"}))
    BY <1>1, <1>2 DEF KindInv
  <2>3. Append(mailbox[p], msg) \in Seq(OfKind(Sends(Peer(p)) \ {"idAck", "payloadAck"}))
    BY <2>1, <2>2, AppendProperties
  <2>4. Append(mailbox[p], msg) \in Seq(Message)
    BY <2>3, KindsIncluded
  <2>5. TypeOK'
    BY <1>1, <1>2, <1>3, <1>4, <1>5, <1>9, <2>4 DEF TypeOK
  <2>6. KindInv'
    BY <1>1, <1>2, <1>3, <1>4, <1>9, <2>3, SendsKept DEF KindInv, TypeOK
  <2> QED
    BY <1>5, <2>5, <2>6 DEF TypeInv
<1> QED
  BY <1>6, <1>7, <1>8, <1>9 DEF ArriveAt

LEMMA NextTypeInv == TypeInv /\ [Next]_vars => TypeInv'
<1> SUFFICES ASSUME TypeInv, [Next]_vars PROVE TypeInv'
  OBVIOUS
<1>1. CASE UNCHANGED vars
  BY <1>1 DEF vars, TypeInv, TypeOK, KindInv, PcInv, Sends
<1>2. CASE Next
  BY <1>2, InitRecvType, InitSendType, StartSendType, StartRecvType, WaitBackupType,
     TestExchangeType, ArriveType DEF Next, Arrive
<1> QED
  BY <1>1, <1>2

(***************************************************************************)
(* The type invariant, for every set of deployments and every number of    *)
(* operations.                                                             *)
(***************************************************************************)
THEOREM TypeCorrect == Spec => []TypeOK
<1>1. TypeInv => TypeOK
  BY DEF TypeInv
<1> QED
  BY <1>1, InitTypeInv, NextTypeInv, PTL DEF Spec

-----------------------------------------------------------------------------
(* The decision: in every deployment, and where nothing is overtaken. *)

LEMMA InitDecisionInv == Init => DecisionInv
<1> SUFFICES ASSUME Init PROVE DecisionInv
  OBVIOUS
<1>1. PlainInv
  BY DEF Init, PlainInv, Side
<1>2. HandlerInv
  BY DEF Init, HandlerInv, Side
<1> QED
  BY <1>1, <1>2, InitTypeInv DEF DecisionInv

LEMMA InitExchangeInv == Init => ExchangeInv
  BY DEF Init, ExchangeInv, Side

\* The protocols do not change: all of PlainInv is about the exchange.
LEMMA InitRecvStep ==
  ASSUME DecisionInv, InitRecv
  PROVE  PlainInv' /\ HandlerInv' /\ (ExchangeInv => ExchangeInv')
<1> USE Sides
<1>1. TypeOK /\ PcInv /\ PlainInv /\ HandlerInv
  BY DEF DecisionInv, TypeInv
<1>2. PlainInv'
  BY <1>1 DEF InitRecv, PlainInv, TypeOK
<1>3. transit'["S"] = transit["S"]
  BY <1>1 DEF InitRecv, Send, TypeOK
<1>4. exchange["R"] # "done" /\ exchange'["S"] = exchange["S"] /\ pc'["R"] = "idle"
  BY <1>1 DEF InitRecv, HandlerInv, TypeOK
<1>5. HandlerInv'
  BY <1>1, <1>3, <1>4 DEF InitRecv, HandlerInv, TypeOK, PcInv
<1>6. ASSUME ExchangeInv PROVE ExchangeInv'
  BY <1>1, <1>3, <1>4, <1>6 DEF InitRecv, ExchangeInv, TypeOK
<1> QED
  BY <1>2, <1>5, <1>6

LEMMA InitSendStep ==
  ASSUME DecisionInv, InitSend
  PROVE  PlainInv' /\ HandlerInv' /\ (ExchangeInv => ExchangeInv')
<1> USE Sides
<1>1. TypeInv /\ TypeOK /\ PcInv /\ PlainInv /\ HandlerInv
  BY DEF DecisionInv, TypeInv
<1>2. /\ type["S"] = "search" /\ exchange["S"] = "null" /\ pc["S"] = "new"
      /\ type' = type /\ deployment' = deployment /\ backup' = backup
      /\ pc'["R"] = pc["R"] /\ exchange'["R"] = exchange["R"]
  BY <1>1 DEF InitSend, PcInv, TypeOK
<1>3. CASE Arrived("S", "id") # {}
  <2>1. /\ transit'["S"] = Append(transit["S"], IdAck) /\ transit'["R"] = transit["R"]
        /\ mailbox'["R"] = mailbox["R"] /\ exchange'["S"] = "done"
    BY <1>1, <1>3 DEF InitSend, Match, Send, TypeOK
  <2>2. mailbox["S"] # <<>> /\ type["R"] # "plain"
    BY <1>1, <1>3, FirstOfMailbox
  <2>3. pc["R"] # "new"
    BY <1>1, <2>2 DEF HandlerInv
  <2>4. /\ Append(transit["S"], IdAck) # <<>>
        /\ Append(transit["S"], IdAck)[1] = IF transit["S"] = <<>> THEN IdAck
                                                                ELSE transit["S"][1]
    BY <1>1, <1>2, MessageKinds, Sent DEF Sends
  <2>5. IdAck.kind = "idAck"
    BY DEF IdAck
  <2>6. PlainInv'
    BY <1>1, <1>2, <2>1, <2>2 DEF PlainInv
  <2>7. HandlerInv'
    BY <1>1, <1>2, <2>1, <2>3 DEF HandlerInv
  <2>8. ASSUME ExchangeInv PROVE ExchangeInv'
    BY <1>1, <1>2, <2>1, <2>4, <2>5, <2>8 DEF InitSend, ExchangeInv, TypeOK
  <2> QED
    BY <2>6, <2>7, <2>8
<1>4. CASE Arrived("S", "id") = {}
  <2>1. exchange'["S"] = "pending" /\ UNCHANGED <<mailbox, transit>>
    BY <1>1, <1>4 DEF InitSend, TypeOK
  <2>2. PlainInv' /\ HandlerInv'
    BY <1>1, <1>2, <2>1 DEF PlainInv, HandlerInv
  <2>3. ASSUME ExchangeInv PROVE ExchangeInv'
    BY <1>1, <1>2, <2>1, <2>3 DEF InitSend, ExchangeInv, TypeOK
  <2> QED
    BY <2>2, <2>3
<1> QED
  BY <1>3, <1>4

LEMMA StartSendStep ==
  ASSUME DecisionInv, StartSend
  PROVE  PlainInv' /\ HandlerInv' /\ (ExchangeInv => ExchangeInv')
<1> USE Sides
<1> DEFINE m == Payload(op["S"] + 1)
<1>1. TypeInv /\ TypeOK /\ PcInv /\ PlainInv /\ HandlerInv
  BY DEF DecisionInv, TypeInv
<1>2. /\ transit'["S"] = Append(transit["S"], m) /\ transit'["R"] = transit["R"]
      /\ UNCHANGED <<deployment, mailbox, type, exchange>>
      /\ backup'["R"] = backup["R"]
      /\ pc' = [pc EXCEPT !["S"] = "started"]
  BY <1>1 DEF StartSend, Send, TypeOK
<1>3. m \in OfKind({"payload"}) /\ m.kind = "payload"
  BY <1>1, MessageKinds, HandshakeAssumption DEF StartSend, TypeOK, Payload
<1> HIDE DEF m
<1>4. /\ Append(transit["S"], m) # <<>>
      /\ transit["S"] # <<>> => Append(transit["S"], m)[1] = transit["S"][1]
      /\ \A i \in DOMAIN transit["S"] : Append(transit["S"], m)[i] = transit["S"][i]
      /\ \A i \in DOMAIN Append(transit["S"], m) :
           i \in DOMAIN transit["S"] \/ Append(transit["S"], m)[i] = m
  BY <1>1, <1>3, Sent DEF Sends
<1>5. PlainInv'
  BY <1>1, <1>2 DEF PlainInv
<1>6. HandlerInv'
  BY <1>1, <1>2, <1>3, <1>4 DEF HandlerInv, TypeOK
<1>7. ASSUME ExchangeInv PROVE ExchangeInv'
  <2>1. deployment.idFirst /\ deployment.ordered /\ type["S"] # "plain" /\ type["R"] # "plain"
        => exchange["S"] = "done"
    BY <1>1, <1>7 DEF StartSend, ExchangeInv, TypeOK
  <2> QED
    BY <1>1, <1>2, <1>4, <1>7, <2>1 DEF ExchangeInv, TypeOK
<1> QED
  BY <1>5, <1>6, <1>7

LEMMA StartRecvStep ==
  ASSUME DecisionInv, StartRecv
  PROVE  PlainInv' /\ HandlerInv' /\ (ExchangeInv => ExchangeInv')
<1> USE Sides
<1>1. TypeInv /\ TypeOK /\ PcInv /\ PlainInv /\ HandlerInv
  BY DEF DecisionInv, TypeInv
<1>2. /\ UNCHANGED <<deployment, type, exchange>> /\ pc["R"] = "idle"
      /\ pc' = [pc EXCEPT !["R"] = "started"] /\ pc'["R"] = "started"
  BY <1>1 DEF StartRecv, TypeOK
<1>3. PlainInv' /\ transit'["S"] = transit["S"]
  BY <1>1, <1>2 DEF StartRecv, Match, Send, PlainInv, TypeOK
<1>4. HandlerInv'
  BY <1>1, <1>2, <1>3 DEF HandlerInv
<1>5. CASE Arrived("R", "payload") # {}
  <2>1. mailbox["R"] # <<>>
    BY <1>1, <1>5, FirstOfMailbox
  <2>2. ASSUME ExchangeInv PROVE ExchangeInv'
    BY <1>1, <1>2, <1>3, <2>1, <2>2 DEF ExchangeInv, TypeOK
  <2> QED
    BY <1>3, <1>4, <2>2
<1>6. CASE Arrived("R", "payload") = {}
  <2>1. mailbox' = mailbox /\ transit' = transit /\ backup'["R"] = "pending"
    BY <1>1, <1>6 DEF StartRecv, TypeOK
  <2>2. ASSUME ExchangeInv PROVE ExchangeInv'
    BY <1>1, <1>2, <2>1, <2>2 DEF ExchangeInv, TypeOK
  <2> QED
    BY <1>3, <1>4, <2>2
<1> QED
  BY <1>5, <1>6

LEMMA WaitBackupStep ==
  ASSUME DecisionInv, NEW s \in Side, WaitBackup(s)
  PROVE  PlainInv' /\ HandlerInv' /\ (ExchangeInv => ExchangeInv')
<1>1. TypeOK /\ PcInv /\ PlainInv /\ HandlerInv
  BY DEF DecisionInv, TypeInv
<1>2. PlainInv' /\ HandlerInv'
  BY <1>1, Sides DEF WaitBackup, PlainInv, HandlerInv, TypeOK
<1>3. ASSUME ExchangeInv PROVE ExchangeInv'
  BY <1>1, <1>3, Sides DEF WaitBackup, ExchangeInv, TypeOK
<1> QED
  BY <1>2, <1>3

LEMMA TestExchangeStep ==
  ASSUME DecisionInv, NEW s \in Side, TestExchange(s)
  PROVE  PlainInv' /\ HandlerInv' /\ (ExchangeInv => ExchangeInv')
<1>1. TypeOK /\ PcInv /\ PlainInv /\ HandlerInv
  BY DEF DecisionInv, TypeInv
<1>2. PlainInv'
  BY <1>1, Sides DEF TestExchange, PlainInv, PcInv, TypeOK
<1>3. HandlerInv'
  BY <1>1, Sides DEF TestExchange, HandlerInv, TypeOK
<1>4. ASSUME ExchangeInv PROVE ExchangeInv'
  BY <1>1, <1>4, Sides DEF TestExchange, ExchangeInv, PcInv, TypeOK
<1> QED
  BY <1>2, <1>3, <1>4

\* The elements that are left when one is taken out.
LEMMA RemovedElements ==
  ASSUME NEW T, NEW q \in Seq(T), NEW k \in 1 .. Len(q)
  PROVE  /\ Len(q) \in Nat \ {0} /\ Len(RemoveAt(q, k)) = Len(q) - 1
         /\ \A i \in 1 .. Len(q) - 1 :
              RemoveAt(q, k)[i] = IF i < k THEN q[i] ELSE q[i + 1]
<1> DEFINE u == SubSeq(q, 1, k - 1)
           v == SubSeq(q, k + 1, Len(q))
<1>1. Len(q) \in Nat \ {0} /\ k \in Nat \ {0} /\ k <= Len(q) /\ \A i \in 1 .. Len(q) : q[i] \in T
  OBVIOUS
<1>2. /\ u \in Seq(T) /\ Len(u) = k - 1
      /\ \A i \in 1 .. k - 1 : u[i] = q[i]
  BY <1>1
<1>3. /\ v \in Seq(T) /\ Len(v) = Len(q) - k
      /\ \A i \in 1 .. Len(q) - k : v[i] = q[k + i]
  BY <1>1
<1> HIDE DEF u, v
<1>4. RemoveAt(q, k) = u \o v
  BY DEF RemoveAt, u, v
<1>5. /\ Len(u \o v) = Len(u) + Len(v)
      /\ \A i \in 1 .. Len(u) + Len(v) : (u \o v)[i] = IF i <= Len(u) THEN u[i] ELSE v[i - Len(u)]
  BY <1>2, <1>3, ConcatProperties
<1>6. Len(u) + Len(v) = Len(q) - 1
  BY <1>1, <1>2, <1>3
<1>7. ASSUME NEW i \in 1 .. Len(q) - 1
      PROVE  (u \o v)[i] = IF i < k THEN q[i] ELSE q[i + 1]
  <2>1. CASE i < k
    <3>1. i \in 1 .. k - 1 /\ i <= Len(u)
      BY <1>1, <1>2, <2>1
    <3> QED
      BY <1>2, <1>5, <1>6, <2>1, <3>1
  <2>2. CASE ~(i < k)
    <3>1. /\ ~(i <= Len(u)) /\ i - Len(u) \in 1 .. Len(q) - k
          /\ k + (i - Len(u)) = i + 1
      BY <1>1, <1>2, <2>2
    <3> QED
      BY <1>3, <1>5, <1>6, <2>2, <3>1
  <2> QED
    BY <2>1, <2>2
<1> QED
  BY <1>1, <1>4, <1>5, <1>6, <1>7

\* Where messages are not overtaken, the first message of the sender is the
\* acknowledgement of the id.
LEMMA ArriveStep ==
  ASSUME DecisionInv, NEW s \in Side, NEW k \in DOMAIN transit[s], Deliverable(s, k),
         ArriveAt(s, k)
  PROVE  PlainInv' /\ HandlerInv' /\ (ExchangeInv => ExchangeInv')
<1> DEFINE msg == transit[s][k]
           rest == RemoveAt(transit[s], k)
<1>1. TypeInv /\ TypeOK /\ KindInv /\ PcInv /\ PlainInv /\ HandlerInv
  BY DEF DecisionInv, TypeInv
<1>2. /\ transit[s] \in Seq(OfKind(Sends(s))) /\ k \in 1 .. Len(transit[s])
      /\ transit[s] # <<>> /\ msg \in OfKind(Sends(s))
      /\ UNCHANGED <<deployment, type, pc>>
  <2>1. transit[s] \in Seq(OfKind(Sends(s)))
    BY <1>1 DEF KindInv
  <2> QED
    BY <2>1 DEF ArriveAt
<1>3. \A i \in DOMAIN rest : \E j \in DOMAIN transit[s] : rest[i] = transit[s][j]
  <2>1. Len(rest) = Len(transit[s]) - 1 /\ rest \in Seq(OfKind(Sends(s)))
    BY <1>2, RemovedElements, Removed
  <2>2. ASSUME NEW i \in 1 .. Len(transit[s]) - 1
        PROVE  \E j \in DOMAIN transit[s] : rest[i] = transit[s][j]
    <3>1. i \in 1 .. Len(transit[s]) /\ i + 1 \in 1 .. Len(transit[s])
      BY <1>2
    <3>2. rest[i] = transit[s][i] \/ rest[i] = transit[s][i + 1]
      BY <1>2, RemovedElements
    <3> QED
      BY <1>2, <3>1, <3>2
  <2> QED
    BY <2>1, <2>2
<1>4. CASE s = "S"
  <2>1. msg.kind = "payload" \/ (msg.kind = "idAck" /\ type["S"] # "plain")
    BY <1>2, <1>4, Sides DEF OfKind, Sends
  <2>2. /\ exchange'["S"] = exchange["S"] /\ mailbox'["S"] = mailbox["S"]
        /\ transit'["S"] = rest
    BY <1>1, <1>4, <2>1, Sides DEF ArriveAt, TypeOK
  <2>3. \A i \in DOMAIN transit'["S"] : transit'["S"][i].kind = "idAck" => exchange["S"] = "done"
    BY <1>1, <1>3, <1>4, <2>2 DEF HandlerInv
  <2>4. CASE msg.kind = "idAck"
    <3>1. /\ exchange'["R"] = "done" /\ transit'["R"] = transit["R"]
          /\ backup' = backup /\ mailbox' = mailbox
      BY <1>1, <1>4, <2>4, Sides DEF ArriveAt, TypeOK
    <3>2. exchange["S"] = "done"
      BY <1>1, <1>4, <2>4 DEF HandlerInv
    <3>3. PlainInv'
      BY <1>1, <1>2, <2>1, <2>2, <2>4, <3>1 DEF PlainInv
    <3>4. HandlerInv'
      BY <1>1, <1>2, <2>2, <2>3, <3>1, <3>2, Sides DEF HandlerInv, TypeOK
    <3>5. ASSUME ExchangeInv PROVE ExchangeInv'
      BY <1>2, <2>2, <3>1, <3>5 DEF ExchangeInv
    <3> QED
      BY <3>3, <3>4, <3>5
  <2>5. CASE msg.kind = "payload"
    <3>1. exchange' = exchange
      BY <1>1, <1>4, <2>5, Sides DEF ArriveAt, TypeOK
    <3>2. PlainInv'
      BY <1>1, <1>2, <3>1 DEF PlainInv
    <3>3. HandlerInv'
      <4>1. pc["R"] = "new" => backup'["R"] # "pending" /\ transit'["R"] = transit["R"]
        BY <1>1, <1>4, <2>5, Sides DEF ArriveAt, HandlerInv, TypeOK
      <4> QED
        BY <1>1, <1>2, <2>2, <2>3, <3>1, <4>1 DEF HandlerInv
    <3>4. ASSUME ExchangeInv PROVE ExchangeInv'
      <4>1. ASSUME deployment.ordered, type["S"] # "plain", type["R"] # "plain",
                   deployment.idFirst
            PROVE  exchange["R"] = "done"
        <5>1. k = 1
          BY <4>1 DEF Deliverable
        <5> QED
          BY <1>2, <1>4, <2>5, <3>4, <4>1, <5>1 DEF ExchangeInv
      <4> QED
        BY <1>1, <1>2, <2>2, <3>1, <3>4, <4>1 DEF ExchangeInv
    <3> QED
      BY <3>2, <3>3, <3>4
  <2> QED
    BY <2>1, <2>4, <2>5
<1>5. CASE s = "R"
  <2>1. msg.kind = "payloadAck" \/ (msg.kind = "id" /\ type["R"] # "plain")
    BY <1>2, <1>5, Sides DEF OfKind, Sends
  <2>2. /\ exchange'["R"] = exchange["R"] /\ mailbox'["R"] = mailbox["R"]
        /\ backup'["R"] = backup["R"]
    BY <1>1, <1>5, <2>1, Sides DEF ArriveAt, TypeOK
  <2>3. pc["R"] # "new"
    BY <1>1, <1>2, <1>5 DEF HandlerInv
  <2>4. CASE msg.kind = "payloadAck" \/ (msg.kind = "id" /\ exchange["S"] # "pending")
    <3>1. exchange' = exchange /\ transit'["S"] = transit["S"]
      BY <1>1, <1>5, <2>4, Sides DEF ArriveAt, TypeOK
    <3>2. PlainInv' /\ HandlerInv'
      BY <1>1, <1>2, <2>3, <3>1 DEF PlainInv, HandlerInv
    <3>3. ASSUME ExchangeInv PROVE ExchangeInv'
      BY <1>1, <1>2, <2>2, <3>1, <3>3 DEF ExchangeInv
    <3> QED
      BY <3>2, <3>3
  <2>5. CASE msg.kind = "id" /\ exchange["S"] = "pending"
    <3>1. /\ exchange'["S"] = "done"
          /\ transit'["S"] = Append(transit["S"], IdAck)
      BY <1>1, <1>5, <2>5, Sides DEF ArriveAt, TypeOK
    <3>2. type["S"] # "plain" /\ type["R"] # "plain"
      BY <1>1, <2>1, <2>5 DEF PcInv
    <3>3. /\ Append(transit["S"], IdAck) # <<>>
          /\ Append(transit["S"], IdAck)[1] = IF transit["S"] = <<>> THEN IdAck
                                                                  ELSE transit["S"][1]
      BY <1>1, <3>2, MessageKinds, Sides, Sent DEF Sends
    <3>4. IdAck.kind = "idAck"
      BY DEF IdAck
    <3>5. PlainInv'
      BY <1>2, <3>2 DEF PlainInv
    <3>6. HandlerInv'
      BY <1>1, <1>2, <2>2, <2>3, <3>1, Sides DEF HandlerInv
    <3>7. ASSUME ExchangeInv PROVE ExchangeInv'
      BY <1>1, <1>2, <2>2, <2>5, <3>1, <3>2, <3>3, <3>4, <3>7 DEF ExchangeInv
    <3> QED
      BY <3>5, <3>6, <3>7
  <2> QED
    BY <1>1, <2>1, <2>4, <2>5
<1> QED
  BY <1>4, <1>5, Sides

LEMMA NextStep ==
  ASSUME DecisionInv, [Next]_vars
  PROVE  DecisionInv' /\ (ExchangeInv => ExchangeInv')
<1>1. TypeInv'
  BY NextTypeInv DEF DecisionInv
<1>2. CASE UNCHANGED vars
  BY <1>1, <1>2 DEF vars, DecisionInv, PlainInv, HandlerInv, ExchangeInv
<1>3. CASE Next
  BY <1>1, <1>3, InitRecvStep, InitSendStep, StartSendStep, StartRecvStep,
     WaitBackupStep, TestExchangeStep, ArriveStep DEF Next, Arrive, DecisionInv
<1> QED
  BY <1>2, <1>3

(***************************************************************************)
(* In every deployment, for every number of operations, active messages go *)
(* to a handler that a persistent receiver has registered, and the one who *)
(* waits for them is known to its sender.                                  *)
(***************************************************************************)
THEOREM HandlerKnownHolds == Spec => []HandlerKnown
<1>1. DecisionInv => HandlerKnown
  BY Sides DEF DecisionInv, PlainInv, HandlerInv, HandlerKnown
<1>2. DecisionInv /\ [Next]_vars => DecisionInv'
  BY NextStep
<1> QED
  BY <1>1, <1>2, InitDecisionInv, PTL DEF Spec

(***************************************************************************)
(* In the deployments in which a persistent sender waits for the handler   *)
(* id and no message overtakes another one, the sides decide alike, for    *)
(* every number of operations.                                             *)
(***************************************************************************)
THEOREM TimelyAgreementHolds == Spec => []TimelyAgreement
<1>1. IInv => TimelyAgreement
  BY Sides DEF IInv, DecisionInv, TypeInv, TypeOK, PlainInv, ExchangeInv, Agreement,
     TimelyAgreement
<1>2. Init => IInv
  BY InitDecisionInv, InitExchangeInv DEF IInv
<1>3. IInv /\ [Next]_vars => IInv'
  BY NextStep DEF IInv
<1> QED
  BY <1>1, <1>2, <1>3, PTL DEF Spec

-----------------------------------------------------------------------------
(* The payloads, with or without agreement. *)
\* 1 if the acknowledgement of the id is among the first k messages of t.
Skipped(t, k) == IF \E j \in 1 .. k : t[j].kind = "idAck" THEN 1 ELSE 0

\* The payloads in t are those after number `from` up to number `to`, in order; at
\* most one other message is among them.
Numbered(t, from, to) ==
  /\ \A i \in 1 .. Len(t) : t[i].kind = "payload" => t[i].n = from + i - Skipped(t, i)
  /\ to = from + Len(t) - Skipped(t, Len(t))
  /\ \A i, j \in 1 .. Len(t) : t[i].kind = "idAck" /\ t[j].kind = "idAck" => i = j

\* Number of the last payload that was matched.
Taken == IF backup["R"] = "pending" THEN op["R"] - 1 ELSE op["R"]

OrderInv ==
  /\ \A i \in 1 .. Len(mailbox["R"]) : mailbox["R"][i].n = Taken + i
  /\ Numbered(transit["S"], Taken + Len(mailbox["R"]), op["S"])
  /\ exchange["S"] # "done" => Skipped(transit["S"], Len(transit["S"])) = 0
  /\ recvBuf = Taken
  /\ backup["R"] = "pending" => mailbox["R"] = <<>> /\ op["R"] > 0
  /\ pc["R"] # "started" => backup["R"] # "pending"

SentKinds == OfKind({"payload", "idAck"})

LEMMA PlusMinus ==
  ASSUME NEW a \in Nat, NEW b \in Nat, NEW k \in {0, 1}
  PROVE  a + (b + 1) - k = a + 1 + b - k
  OBVIOUS

LEMMA OneMoved ==
  ASSUME NEW a \in Nat, NEW b \in Nat
  PROVE  a + 1 + (b - 1) = a + b
  OBVIOUS

LEMMA NumberedAppend ==
  ASSUME NEW t \in Seq(SentKinds), NEW from \in Nat, NEW to \in Nat, Numbered(t, from, to),
         NEW m \in SentKinds
  PROVE  /\ m.kind = "payload" /\ m.n = to + 1 =>
              /\ Numbered(Append(t, m), from, to + 1)
              /\ Skipped(Append(t, m), Len(Append(t, m))) = Skipped(t, Len(t))
         /\ m.kind = "idAck" /\ Skipped(t, Len(t)) = 0 =>
              Numbered(Append(t, m), from, to)
<1> DEFINE u == Append(t, m)
<1>1. /\ Len(t) \in Nat /\ Len(u) = Len(t) + 1 /\ u[Len(t) + 1] = m
      /\ \A i \in 1 .. Len(t) : u[i] = t[i]
  OBVIOUS
<1> HIDE DEF u
<1>2. \A k \in 0 .. Len(t) : Skipped(u, k) = Skipped(t, k)
  BY <1>1 DEF Skipped
<1>3. \A k \in 0 .. Len(u) : Skipped(u, k) \in {0, 1}
  BY DEF Skipped
<1>4. m.kind \in {"payload", "idAck"}
  BY DEF SentKinds, OfKind
<1>5. ASSUME m.kind = "payload", m.n = to + 1
      PROVE  Numbered(u, from, to + 1) /\ Skipped(u, Len(u)) = Skipped(t, Len(t))
  <2>1. Skipped(u, Len(u)) = Skipped(t, Len(t))
    BY <1>1, <1>5 DEF Skipped
  <2>2. to = from + Len(t) - Skipped(t, Len(t))
    BY DEF Numbered
  <2>3. to + 1 = from + Len(u) - Skipped(u, Len(u))
    BY <2>1, <2>2, <1>1, <1>3
  <2>4. ASSUME NEW i \in 1 .. Len(u), u[i].kind = "payload"
        PROVE  u[i].n = from + i - Skipped(u, i)
    <3>1. CASE i \in 1 .. Len(t)
      BY <3>1, <2>4, <1>1, <1>2 DEF Numbered
    <3>2. CASE i = Len(u)
      BY <3>2, <2>3, <1>1, <1>5
    <3> QED
      BY <3>1, <3>2, <1>1
  <2>5. ASSUME NEW i \in 1 .. Len(u), NEW j \in 1 .. Len(u),
               u[i].kind = "idAck", u[j].kind = "idAck"
        PROVE  i = j
    <3>1. i \in 1 .. Len(t) /\ j \in 1 .. Len(t)
      BY <2>5, <1>1, <1>5
    <3> QED
      BY <3>1, <2>5, <1>1 DEF Numbered
  <2> QED
    BY <2>1, <2>3, <2>4, <2>5 DEF Numbered
<1>6. ASSUME m.kind = "idAck", Skipped(t, Len(t)) = 0
      PROVE  Numbered(u, from, to)
  <2>1. Skipped(u, Len(u)) = 1
    BY <1>1, <1>6 DEF Skipped
  <2>2. to = from + Len(t)
    BY <1>6, <1>1 DEF Numbered
  <2>3. to = from + Len(u) - Skipped(u, Len(u))
    BY <2>1, <2>2, <1>1
  <2>4. ASSUME NEW i \in 1 .. Len(u), u[i].kind = "payload"
        PROVE  u[i].n = from + i - Skipped(u, i)
    <3>1. i \in 1 .. Len(t)
      BY <2>4, <1>1, <1>6
    <3> QED
      BY <3>1, <2>4, <1>1, <1>2 DEF Numbered
  <2>5. \A i \in 1 .. Len(t) : u[i].kind # "idAck"
    BY <1>1, <1>6 DEF Skipped
  <2>6. \A i \in 1 .. Len(u) : u[i].kind = "idAck" => i = Len(u)
    BY <2>5, <1>1
  <2> QED
    BY <2>3, <2>4, <2>6 DEF Numbered
<1> QED
  BY <1>5, <1>6 DEF u

\* The oldest message of its kind leaves a sequence: the acknowledgement may stand
\* before or behind the payload that is taken.
LEMMA NumberedRemoved ==
  ASSUME NEW t \in Seq(SentKinds), NEW from \in Nat, NEW to \in Nat, Numbered(t, from, to),
         NEW k \in 1 .. Len(t), \A j \in 1 .. k - 1 : t[j].kind # t[k].kind
  PROVE  /\ t[k].kind = "payload" =>
              /\ t[k].n = from + 1
              /\ Numbered(RemoveAt(t, k), from + 1, to)
              /\ Skipped(RemoveAt(t, k), Len(RemoveAt(t, k))) = Skipped(t, Len(t))
         /\ t[k].kind = "idAck" =>
              /\ Numbered(RemoveAt(t, k), from, to)
              /\ Skipped(RemoveAt(t, k), Len(RemoveAt(t, k))) = 0
<1> DEFINE u == RemoveAt(t, k)
<1>1. /\ Len(t) \in Nat \ {0} /\ Len(u) = Len(t) - 1
      /\ \A i \in 1 .. Len(u) : u[i] = IF i < k THEN t[i] ELSE t[i + 1]
  BY RemovedElements
<1>2. \A i \in 1 .. Len(t) : t[i].kind \in {"payload", "idAck"}
  BY DEF SentKinds, OfKind
<1> HIDE DEF u
<1>3. \A i, j \in 1 .. Len(t) : t[i].kind = "idAck" /\ t[j].kind = "idAck" => i = j
  BY DEF Numbered
<1>4. \A i \in 0 .. Len(u) : Skipped(u, i) \in {0, 1} /\ Skipped(t, i + 1) \in {0, 1}
  BY DEF Skipped
<1>5. \A i \in 1 .. Len(u), j \in 1 .. Len(u) :
        u[i].kind = "idAck" /\ u[j].kind = "idAck" => i = j
  <2>1. SUFFICES ASSUME NEW i \in 1 .. Len(u), NEW j \in 1 .. Len(u),
                        u[i].kind = "idAck", u[j].kind = "idAck"
                 PROVE  i = j
    OBVIOUS
  <2> DEFINE origin(x) == IF x < k THEN x ELSE x + 1
  <2>2. origin(i) \in 1 .. Len(t) /\ origin(j) \in 1 .. Len(t)
    BY <1>1
  <2>3. t[origin(i)].kind = "idAck" /\ t[origin(j)].kind = "idAck"
    BY <2>1, <1>1
  <2>4. origin(i) = origin(j)
    BY <2>2, <2>3, <1>3
  <2> QED
    BY <2>4, <1>1
<1>6. ASSUME t[k].kind = "payload"
      PROVE  /\ t[k].n = from + 1
             /\ Numbered(u, from + 1, to)
             /\ Skipped(u, Len(u)) = Skipped(t, Len(t))
  <2>1. k = 1 \/ (k = 2 /\ t[1].kind = "idAck")
    <3>1. \A j \in 1 .. k - 1 : t[j].kind = "idAck"
      BY <1>1, <1>2, <1>6
    <3>2. ASSUME k > 2 PROVE FALSE
      <4>1. /\ 1 \in 1 .. k - 1 /\ 2 \in 1 .. k - 1
            /\ 1 \in 1 .. Len(t) /\ 2 \in 1 .. Len(t)
        BY <3>2, <1>1
      <4>2. t[1].kind = "idAck" /\ t[2].kind = "idAck"
        BY <4>1, <3>1
      <4> QED
        BY <4>1, <4>2, <1>3
    <3> QED
      BY <3>1, <3>2, <1>1
  <2>2. ASSUME NEW m \in k - 1 .. Len(u) PROVE Skipped(u, m) = Skipped(t, m + 1)
    <3>1. ASSUME NEW j \in 1 .. m, u[j].kind = "idAck"
          PROVE  \E i \in 1 .. m + 1 : t[i].kind = "idAck"
      <4>1. /\ j \in 1 .. m + 1 /\ j + 1 \in 1 .. m + 1 /\ j \in 1 .. Len(u)
            /\ u[j] = t[j] \/ u[j] = t[j + 1]
        BY <1>1
      <4> QED
        BY <4>1, <3>1
    <3>2. ASSUME NEW i \in 1 .. m + 1, t[i].kind = "idAck"
          PROVE  \E j \in 1 .. m : u[j].kind = "idAck"
      <4>1. i # k
        BY <3>2, <1>6
      <4>2. CASE i < k
        <5>1. i \in 1 .. m /\ i \in 1 .. Len(u) /\ u[i] = t[i]
          BY <4>2, <1>1
        <5> QED
          BY <5>1, <3>2
      <4>3. CASE i > k
        <5>1. i - 1 \in 1 .. m /\ i - 1 \in 1 .. Len(u) /\ ~(i - 1 < k) /\ i - 1 + 1 = i
          BY <4>3, <1>1
        <5>2. u[i - 1] = t[i]
          BY <5>1, <1>1
        <5> QED
          BY <5>1, <5>2, <3>2
      <4> QED
        BY <4>1, <4>2, <4>3, <1>1
    <3> QED
      BY <3>1, <3>2 DEF Skipped
  <2>3. k - Skipped(t, k) = 1
    <3>1. CASE k = 1
      <4>1. Skipped(t, 1) = 0
        BY <3>1, <1>6 DEF Skipped
      <4> QED
        BY <3>1, <4>1
    <3>2. CASE k = 2 /\ t[1].kind = "idAck"
      <4>1. Skipped(t, 2) = 1
        BY <3>2 DEF Skipped
      <4> QED
        BY <3>2, <4>1
    <3> QED
      BY <2>1, <3>1, <3>2
  <2>4. t[k].n = from + 1
    <3>1. t[k].n = from + k - Skipped(t, k)
      BY <1>6 DEF Numbered
    <3>2. Skipped(t, k) \in {0, 1} /\ k \in Nat
      BY DEF Skipped
    <3> QED
      BY <3>1, <3>2, <2>3
  <2>5. Len(u) \in k - 1 .. Len(u) /\ Len(u) \in 0 .. Len(u) /\ Len(u) + 1 = Len(t)
    BY <1>1
  <2>6. Skipped(u, Len(u)) = Skipped(t, Len(t))
    BY <2>2, <2>5
  <2>7. to = from + 1 + Len(u) - Skipped(u, Len(u))
    <3>1. to = from + Len(t) - Skipped(t, Len(t))
      BY DEF Numbered
    <3>2. Skipped(u, Len(u)) \in {0, 1}
      BY <1>4, <2>5
    <3>3. Len(t) \in Nat /\ Len(u) \in Nat
      BY <1>1
    <3> QED
      BY <3>1, <3>2, <3>3, <2>5, <2>6, PlusMinus
  <2>8. ASSUME NEW i \in 1 .. Len(u), u[i].kind = "payload"
        PROVE  u[i].n = from + 1 + i - Skipped(u, i)
    <3>1. ~(i < k)
      <4>1. i < k => i = 1 /\ t[1].kind = "idAck" /\ u[i] = t[i]
        BY <2>1, <1>1
      <4> QED
        BY <4>1, <2>8
    <3>2. i + 1 \in 1 .. Len(t) /\ u[i] = t[i + 1] /\ i \in k - 1 .. Len(u) /\ i \in 0 .. Len(u)
      BY <1>1, <3>1
    <3>3. t[i + 1].n = from + (i + 1) - Skipped(t, i + 1)
      BY <3>2, <2>8 DEF Numbered
    <3>4. Skipped(t, i + 1) = Skipped(u, i) /\ Skipped(u, i) \in {0, 1}
      BY <3>2, <2>2, <1>4
    <3>5. from + (i + 1) - Skipped(u, i) = from + 1 + i - Skipped(u, i)
      <4>1. i \in Nat
        BY <1>1
      <4> QED
        BY <3>4, <4>1, PlusMinus
    <3> QED
      BY <3>2, <3>3, <3>4, <3>5
  <2> QED
    BY <2>4, <2>6, <2>7, <2>8, <1>5 DEF Numbered
<1>7. ASSUME t[k].kind = "idAck"
      PROVE  Numbered(u, from, to) /\ Skipped(u, Len(u)) = 0
  <2>1. ASSUME NEW i \in 1 .. Len(u) PROVE u[i].kind # "idAck"
    <3>1. /\ i < k => u[i] = t[i] /\ i \in 1 .. Len(t) /\ i # k
          /\ ~(i < k) => u[i] = t[i + 1] /\ i + 1 \in 1 .. Len(t) /\ i + 1 # k
      BY <1>1
    <3> QED
      BY <3>1, <1>3, <1>7
  <2>2. \A m \in 0 .. Len(u) : Skipped(u, m) = 0
    BY <2>1 DEF Skipped
  <2>3. \A m \in k .. Len(t) : Skipped(t, m) = 1
    BY <1>7 DEF Skipped
  <2>4. \A m \in 0 .. k - 1 : Skipped(t, m) = 0
    <3>1. \A j \in 1 .. k - 1 : t[j].kind # "idAck"
      BY <1>7
    <3> QED
      BY <3>1 DEF Skipped
  <2>5. Len(u) \in 0 .. Len(u) /\ Len(u) + 1 = Len(t) /\ Len(t) \in k .. Len(t)
    BY <1>1
  <2>6. Skipped(u, Len(u)) = 0 /\ Skipped(t, Len(t)) = 1
    BY <2>2, <2>3, <2>5
  <2>7. to = from + Len(u) - Skipped(u, Len(u))
    BY <2>6, <2>5, <1>1 DEF Numbered
  <2>8. ASSUME NEW i \in 1 .. Len(u), u[i].kind = "payload"
        PROVE  u[i].n = from + i - Skipped(u, i)
    <3>1. i \in 0 .. Len(u) /\ Skipped(u, i) = 0
      BY <1>1, <2>2
    <3>2. CASE i < k
      <4>1. i \in 0 .. k - 1 /\ i \in 1 .. Len(t) /\ u[i] = t[i]
        BY <3>2, <1>1
      <4>2. t[i].n = from + i - Skipped(t, i)
        BY <4>1, <2>8 DEF Numbered
      <4> QED
        BY <4>1, <4>2, <3>1, <2>4
    <3>3. CASE ~(i < k)
      <4>1. i + 1 \in k .. Len(t) /\ i + 1 \in 1 .. Len(t) /\ u[i] = t[i + 1]
        BY <3>3, <1>1
      <4>2. t[i + 1].n = from + (i + 1) - Skipped(t, i + 1)
        BY <4>1, <2>8 DEF Numbered
      <4>3. Skipped(t, i + 1) = 1
        BY <4>1, <2>3
      <4> QED
        BY <4>1, <4>2, <4>3, <3>1
    <3> QED
      BY <3>2, <3>3
  <2> QED
    BY <2>6, <2>7, <2>8, <1>5 DEF Numbered
<1> QED
  BY <1>6, <1>7 DEF u

\* What the sender has under way, and what waits at the receiver.
LEMMA OrderTyped ==
  ASSUME TypeInv, OrderInv
  PROVE  /\ transit["S"] \in Seq(SentKinds)
         /\ mailbox["R"] \in Seq(OfKind({"payload"})) /\ Len(mailbox["R"]) \in Nat
         /\ Taken \in Nat /\ op["S"] \in Nat /\ op["R"] \in Nat
         /\ Taken + Len(mailbox["R"]) \in Nat
<1>1. transit["S"] \in Seq(SentKinds)
  <2>1. transit["S"] \in Seq(OfKind(Sends("S")))
    BY Sides DEF TypeInv, KindInv
  <2>2. Sends("S") \subseteq {"payload", "idAck"}
    BY DEF Sends
  <2> QED
    BY <2>1, <2>2, KindsIncluded DEF SentKinds
<1>2. mailbox["R"] \in Seq(OfKind({"payload"}))
  <2>1. mailbox["R"] \in Seq(OfKind(Sends("S") \ {"idAck", "payloadAck"}))
    BY Sides DEF TypeInv, KindInv
  <2>2. Sends("S") \ {"idAck", "payloadAck"} \subseteq {"payload"}
    BY DEF Sends
  <2> QED
    BY <2>1, <2>2, KindsIncluded
<1>3. Len(mailbox["R"]) \in Nat
  BY <1>2
<1>4. op["S"] \in Nat /\ op["R"] \in Nat
  BY Sides, HandshakeAssumption DEF TypeInv, TypeOK
<1>5. Taken \in Nat
  BY <1>4 DEF Taken, OrderInv
<1> QED
  BY <1>1, <1>2, <1>3, <1>4, <1>5

\* A step that neither sends nor matches a payload.
LEMMA OrderKept ==
  ASSUME OrderInv, mailbox'["R"] = mailbox["R"], transit'["S"] = transit["S"],
         op'["R"] = op["R"], op'["S"] = op["S"], recvBuf' = recvBuf,
         backup'["R"] = "pending" <=> backup["R"] = "pending",
         exchange'["S"] # "done" => exchange["S"] # "done",
         pc'["R"] # "started" => backup["R"] # "pending"
  PROVE  OrderInv'
<1>1. Taken' = Taken
  BY DEF Taken
<1> QED
  BY <1>1 DEF OrderInv, Numbered, Skipped

\* A step in which the sender sends, or has sent, the acknowledgement of the id.
LEMMA OrderAck ==
  ASSUME TypeInv, OrderInv, transit'["S"] = Append(transit["S"], IdAck),
         exchange["S"] # "done", exchange'["S"] = "done",
         mailbox'["R"] = mailbox["R"], op' = op, recvBuf' = recvBuf,
         backup'["R"] = backup["R"], pc'["R"] = pc["R"]
  PROVE  OrderInv'
<1>1. Taken' = Taken
  BY DEF Taken
<1>2. IdAck \in SentKinds /\ IdAck.kind = "idAck"
  BY DEF IdAck, SentKinds, OfKind, Message
<1>3. Numbered(transit["S"], Taken + Len(mailbox["R"]), op["S"])
      /\ Skipped(transit["S"], Len(transit["S"])) = 0
  BY DEF OrderInv
<1>4. Numbered(transit'["S"], Taken + Len(mailbox["R"]), op["S"])
  BY <1>2, <1>3, OrderTyped, NumberedAppend
<1> QED
  BY <1>1, <1>4 DEF OrderInv

LEMMA InitRecvOrder == ASSUME TypeInv, OrderInv, InitRecv PROVE OrderInv'
  BY OrderKept DEF InitRecv, Send, TypeInv, TypeOK, Side, OrderInv

LEMMA InitSendOrder == ASSUME TypeInv, OrderInv, InitSend PROVE OrderInv'
<1>1. exchange["S"] = "null"
  BY DEF InitSend, TypeInv, PcInv
<1>2. CASE Arrived("S", "id") # {}
  BY <1>1, <1>2, OrderAck DEF InitSend, Match, Send, TypeInv, TypeOK, Side
<1>3. CASE Arrived("S", "id") = {}
  BY <1>1, <1>3, OrderKept DEF InitSend, TypeInv, TypeOK, Side, OrderInv
<1> QED
  BY <1>2, <1>3

LEMMA StartSendOrder == ASSUME TypeInv, OrderInv, StartSend PROVE OrderInv'
<1> DEFINE m == Payload(op["S"] + 1)
<1>1. /\ op["S"] + 1 \in 1 .. MaxOp /\ op'["S"] = op["S"] + 1 /\ op'["R"] = op["R"]
      /\ transit'["S"] = Append(transit["S"], m)
      /\ backup'["R"] = backup["R"] /\ pc'["R"] = pc["R"]
      /\ UNCHANGED <<mailbox, exchange, recvBuf>>
  BY HandshakeAssumption DEF StartSend, Send, TypeInv, TypeOK, Side
<1>2. Taken' = Taken
  BY <1>1 DEF Taken
<1>3. m \in SentKinds /\ m.kind = "payload" /\ m.n = op["S"] + 1
  BY <1>1 DEF Payload, SentKinds, OfKind, Message
<1> HIDE DEF m
<1>4. Numbered(transit["S"], Taken + Len(mailbox["R"]), op["S"])
  BY DEF OrderInv
<1>5. /\ Numbered(transit'["S"], Taken + Len(mailbox["R"]), op["S"] + 1)
      /\ Skipped(transit'["S"], Len(transit'["S"])) = Skipped(transit["S"], Len(transit["S"]))
  BY <1>1, <1>3, <1>4, OrderTyped, NumberedAppend
<1> QED
  BY <1>1, <1>2, <1>5 DEF OrderInv

\* The first message of a sequence is taken out.
LEMMA FirstRemoved ==
  ASSUME NEW T, NEW q \in Seq(T), q # <<>>
  PROVE  /\ Len(RemoveAt(q, 1)) = Len(q) - 1
         /\ \A i \in 1 .. Len(q) - 1 : RemoveAt(q, 1)[i] = q[i + 1]
<1>1. 1 \in 1 .. Len(q) /\ Len(q) \in Nat
  OBVIOUS
<1>2. \A i \in 1 .. Len(q) - 1 : ~(i < 1)
  BY <1>1
<1> QED
  BY <1>1, <1>2, RemovedElements

LEMMA StartRecvOrder == ASSUME TypeInv, OrderInv, StartRecv PROVE OrderInv'
<1> DEFINE q == mailbox["R"]
           i == First("R", "payload")
<1>1. /\ q \in Seq(OfKind({"payload"})) /\ Len(q) \in Nat
      /\ \A j \in 1 .. Len(q) : q[j].kind = "payload"
  BY OrderTyped DEF OfKind
<1>2. backup["R"] # "pending" /\ Taken = op["R"] /\ op["R"] \in Nat
  BY OrderTyped DEF StartRecv, OrderInv, Taken
<1>3. /\ op'["R"] = op["R"] + 1 /\ op'["S"] = op["S"] /\ transit'["S"] = transit["S"]
      /\ exchange' = exchange /\ pc'["R"] = "started"
  BY DEF StartRecv, Match, Send, TypeInv, TypeOK, Side
<1>4. Arrived("R", "payload") = 1 .. Len(q)
  BY <1>1 DEF Arrived
<1>5. CASE Arrived("R", "payload") # {}
  <2>1. q # <<>> /\ Len(q) >= 1
    BY <1>1, <1>4, <1>5
  <2>2. i = 1
    <3>1. 1 \in Arrived("R", "payload") /\ \A j \in Arrived("R", "payload") : 1 <= j
      BY <2>1, <1>1, <1>4
    <3>2. i \in Arrived("R", "payload") /\ \A j \in Arrived("R", "payload") : i <= j
      BY <3>1 DEF First
    <3> QED
      BY <3>1, <3>2, <1>4, <1>1
  <2>3. /\ mailbox'["R"] = RemoveAt(q, 1) /\ recvBuf' = q[1].n /\ backup'["R"] = "done"
    BY <1>5, <2>2 DEF StartRecv, Match, TypeInv, TypeOK, Side
  <2>4. /\ Len(mailbox'["R"]) = Len(q) - 1
        /\ \A j \in 1 .. Len(q) - 1 : mailbox'["R"][j] = q[j + 1]
    BY <2>1, <2>3, <1>1, FirstRemoved
  <2>5. Taken' = Taken + 1
    BY <2>3, <1>2, <1>3 DEF Taken
  <2>6. \A j \in 1 .. Len(q) : q[j].n = Taken + j
    BY DEF OrderInv
  <2>7. recvBuf' = Taken'
    BY <2>1, <2>3, <2>5, <2>6, <1>1, <1>2
  <2>8. \A j \in 1 .. Len(mailbox'["R"]) : mailbox'["R"][j].n = Taken' + j
    <3>1. ASSUME NEW j \in 1 .. Len(q) - 1 PROVE mailbox'["R"][j].n = Taken' + j
      <4>1. j + 1 \in 1 .. Len(q) /\ mailbox'["R"][j] = q[j + 1]
        BY <2>4, <1>1
      <4>2. q[j + 1].n = Taken + (j + 1)
        BY <4>1, <2>6
      <4>3. Taken \in Nat /\ Taken + (j + 1) = Taken' + j
        BY <2>5, <1>2
      <4> QED
        BY <4>1, <4>2, <4>3
    <3> QED
      BY <3>1, <2>4
  <2>9. Taken' + Len(mailbox'["R"]) = Taken + Len(q)
    <3>1. Taken \in Nat /\ Taken' = Taken + 1 /\ Len(mailbox'["R"]) = Len(q) - 1
      BY <2>4, <2>5, <1>2
    <3> QED
      BY <3>1, <1>1, OneMoved
  <2> QED
    BY <1>3, <2>3, <2>7, <2>8, <2>9 DEF OrderInv
<1>6. CASE Arrived("R", "payload") = {}
  <2>1. q = <<>>
    BY <1>1, <1>4, <1>6
  <2>2. mailbox' = mailbox /\ recvBuf' = recvBuf /\ backup'["R"] = "pending"
    BY <1>6 DEF StartRecv, TypeInv, TypeOK, Side
  <2>3. Taken' = Taken
    BY <2>2, <1>2, <1>3 DEF Taken
  <2> QED
    BY <2>1, <2>2, <2>3, <1>2, <1>3 DEF OrderInv
<1> QED
  BY <1>5, <1>6

LEMMA WaitBackupOrder ==
  ASSUME TypeInv, OrderInv, NEW s \in Side, WaitBackup(s) PROVE OrderInv'
  BY OrderKept, Sides DEF WaitBackup, TypeInv, TypeOK, OrderInv

LEMMA TestExchangeOrder ==
  ASSUME TypeInv, OrderInv, NEW s \in Side, TestExchange(s) PROVE OrderInv'
  BY OrderKept, Sides DEF TestExchange, TypeInv, TypeOK, OrderInv

\* A message that may arrive is the oldest of its kind.
LEMMA DeliverableFirst ==
  ASSUME NEW s \in Side, NEW T, transit[s] \in Seq(T),
         NEW k \in DOMAIN transit[s], Deliverable(s, k)
  PROVE  /\ k \in 1 .. Len(transit[s])
         /\ \A j \in 1 .. k - 1 : transit[s][j].kind # transit[s][k].kind
  BY DEF Deliverable

\* A message of the sender arrives.
LEMMA ArriveAtReceiver ==
  ASSUME TypeInv, OrderInv, NEW k \in DOMAIN transit["S"], Deliverable("S", k), ArriveAt("S", k)
  PROVE  OrderInv'
<1> USE Sides
<1> DEFINE t == transit["S"]
           q == mailbox["R"]
           msg == t[k]
           u == RemoveAt(t, k)
<1>1. /\ t \in Seq(SentKinds) /\ k \in 1 .. Len(t)
      /\ q \in Seq(OfKind({"payload"})) /\ Len(q) \in Nat
      /\ Taken \in Nat /\ op["S"] \in Nat /\ op["R"] \in Nat /\ Taken + Len(q) \in Nat
      /\ \A j \in 1 .. k - 1 : t[j].kind # t[k].kind
  BY OrderTyped, DeliverableFirst
<1>2. msg \in SentKinds /\ msg.kind \in {"payload", "idAck"}
  BY <1>1 DEF SentKinds, OfKind
<1>3. Numbered(t, Taken + Len(q), op["S"])
  BY DEF OrderInv
<1>4. /\ msg.kind = "payload" =>
           /\ msg.n = Taken + Len(q) + 1
           /\ Numbered(u, Taken + Len(q) + 1, op["S"])
           /\ Skipped(u, Len(u)) = Skipped(t, Len(t))
      /\ msg.kind = "idAck" =>
           /\ Numbered(u, Taken + Len(q), op["S"])
           /\ Skipped(u, Len(u)) = 0
  BY <1>1, <1>3, NumberedRemoved
<1>5. op' = op /\ pc' = pc /\ transit'["S"] = u
  BY <1>2 DEF ArriveAt, TypeInv, TypeOK
<1>6. CASE msg.kind = "idAck"
  <2>1. backup' = backup /\ mailbox' = mailbox /\ recvBuf' = recvBuf
    BY <1>6 DEF ArriveAt
  <2>2. Taken' = Taken
    BY <2>1, <1>5 DEF Taken
  <2> QED
    BY <2>1, <2>2, <1>4, <1>5, <1>6 DEF OrderInv
<1>7. CASE msg.kind = "payload" /\ backup["R"] = "pending"
  <2>1. /\ backup'["R"] = "done" /\ recvBuf' = msg.n
        /\ mailbox' = mailbox /\ exchange' = exchange
    BY <1>7 DEF ArriveAt, TypeInv, TypeOK
  <2>2. q = <<>> /\ Len(q) = 0 /\ Taken = op["R"] - 1
    BY <1>7 DEF OrderInv, Taken
  <2>3. Taken' = Taken + 1
    BY <2>1, <2>2, <1>1, <1>5 DEF Taken
  <2>4. recvBuf' = Taken' /\ Taken' + Len(mailbox'["R"]) = Taken + Len(q) + 1
    BY <2>1, <2>2, <2>3, <1>1, <1>4, <1>7
  <2>5. \A j \in 1 .. Len(mailbox'["R"]) : mailbox'["R"][j].n = Taken' + j
    BY <2>1, <2>2
  <2> QED
    BY <2>1, <2>4, <2>5, <1>4, <1>5, <1>7 DEF OrderInv
<1>8. CASE msg.kind = "payload" /\ backup["R"] # "pending"
  <2>1. /\ mailbox'["R"] = Append(q, msg)
        /\ backup' = backup /\ recvBuf' = recvBuf /\ exchange' = exchange
    BY <1>8 DEF ArriveAt, TypeInv, TypeOK
  <2>2. Taken' = Taken
    BY <2>1, <1>5 DEF Taken
  <2>3. msg \in OfKind({"payload"})
    BY <1>2, <1>8 DEF SentKinds, OfKind
  <2>4. /\ Len(mailbox'["R"]) = Len(q) + 1 /\ mailbox'["R"][Len(q) + 1] = msg
        /\ \A j \in 1 .. Len(q) : mailbox'["R"][j] = q[j]
    BY <2>1, <2>3, <1>1
  <2>5. \A j \in 1 .. Len(q) : q[j].n = Taken + j
    BY DEF OrderInv
  <2>6. ASSUME NEW j \in 1 .. Len(mailbox'["R"])
        PROVE  mailbox'["R"][j].n = Taken' + j
    <3>1. j \in 1 .. Len(q) \/ j = Len(q) + 1
      BY <2>4, <1>1
    <3>2. Taken + Len(q) + 1 = Taken + (Len(q) + 1)
      BY <1>1
    <3> QED
      BY <3>1, <3>2, <2>2, <2>4, <2>5, <1>4, <1>8
  <2>7. Taken' + Len(mailbox'["R"]) = Taken + Len(q) + 1
    BY <2>2, <2>4, <1>1
  <2> QED
    BY <2>1, <2>2, <2>6, <2>7, <1>4, <1>5, <1>8 DEF OrderInv
<1> QED
  BY <1>2, <1>6, <1>7, <1>8

LEMMA ArriveAtSender ==
  ASSUME TypeInv, OrderInv, NEW k \in DOMAIN transit["R"], ArriveAt("R", k)
  PROVE  OrderInv'
<1> USE Sides
<1> DEFINE msg == transit["R"][k]
<1>1. msg.kind \in {"payloadAck", "id"}
  <2>1. transit["R"] \in Seq(OfKind(Sends("R")))
    BY DEF TypeInv, KindInv
  <2>2. msg \in OfKind(Sends("R"))
    BY <2>1
  <2> QED
    BY <2>2 DEF OfKind, Sends
<1>2. op' = op /\ pc' = pc
  BY DEF ArriveAt
<1>3. CASE msg.kind = "id" /\ exchange["S"] = "pending"
  BY <1>2, <1>3, OrderAck DEF ArriveAt, TypeInv, TypeOK
<1>4. CASE msg.kind = "payloadAck" \/ (msg.kind = "id" /\ exchange["S"] # "pending")
  <2>1. /\ transit'["S"] = transit["S"] /\ mailbox'["R"] = mailbox["R"]
        /\ backup'["R"] = backup["R"] /\ exchange'["S"] = exchange["S"] /\ recvBuf' = recvBuf
    BY <1>4 DEF ArriveAt, TypeInv, TypeOK
  <2> QED
    BY <2>1, <1>2, OrderKept DEF OrderInv
<1> QED
  BY <1>1, <1>3, <1>4

LEMMA InitOrderInv == Init => OrderInv
  BY Sides DEF Init, OrderInv, Numbered, Skipped, Taken

LEMMA NextOrderInv == TypeInv /\ OrderInv /\ [Next]_vars => OrderInv'
<1> SUFFICES ASSUME TypeInv, OrderInv, [Next]_vars PROVE OrderInv'
  OBVIOUS
<1>1. CASE UNCHANGED vars
  BY <1>1, OrderKept DEF vars, OrderInv
<1>2. ASSUME NEW s \in Side, Arrive(s) PROVE OrderInv'
  <2>1. PICK k \in DOMAIN transit[s] : Deliverable(s, k) /\ ArriveAt(s, k)
    BY <1>2 DEF Arrive
  <2> QED
    BY <2>1, ArriveAtReceiver, ArriveAtSender, Sides
<1>3. CASE Next
  BY <1>2, <1>3, InitRecvOrder, InitSendOrder, StartSendOrder, StartRecvOrder,
     WaitBackupOrder, TestExchangeOrder DEF Next
<1> QED
  BY <1>1, <1>3

(***************************************************************************)
(* The first operation and those of the fallback carry the payloads in     *)
(* order: the wait of operation n returns with the n-th payload, for every *)
(* number of operations, also if the sides do not agree afterwards.        *)
(***************************************************************************)
THEOREM PayloadReceivedHolds == Spec => []PayloadReceived
<1>1. OrderInv => PayloadReceived
  BY DEF OrderInv, Taken, PayloadReceived
<1>2. Init => TypeInv /\ OrderInv
  BY InitTypeInv, InitOrderInv
<1>3. TypeInv /\ OrderInv /\ [Next]_vars => (TypeInv /\ OrderInv)'
  BY NextTypeInv, NextOrderInv
<1> QED
  BY <1>1, <1>2, <1>3, PTL DEF Spec
=============================================================================
