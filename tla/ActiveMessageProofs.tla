------------------------- MODULE ActiveMessageProofs -------------------------
(***************************************************************************)
(* What ActiveMessage promises of every number of operations: the order of *)
(* the messages and the buffer of the sender in every build, and the wait  *)
(* of the receiver for a build that is used as it works, see SafeBuilds.   *)
(***************************************************************************)
EXTENDS ActiveMessage, TLAPS

SafeBuilds == \A b \in Builds : SafeBuild(b)

\* Message b was the last one used: those kept and those in the network are the
\* ones after it, in order and without a gap ...
Ordered(b, kept, coming) ==
  /\ \A i \in 1 .. Len(kept) : kept[i] = b + i
  /\ \A i \in 1 .. Len(coming) : coming[i] = b + Len(kept) + i

OrderInv == Ordered(recvBuf, pending, network)

\* ... up to the last one that was sent.
CountInv ==
  /\ op["S"] = recvBuf + Len(pending) + Len(network) + Underway
  /\ sendBuf = op["S"]

\* A sender that is not at work has nothing left to be read; the rendezvous
\* holds it in its wait until the data has been fetched.
SendInv ==
  /\ pc["S"] = "idle" => transfer["S"] # "pending"
  /\ build.mode = "eager" => transfer["R"] = "null"
  /\ build.mode = "rendezvous" =>
       /\ Len(pending) + Len(network) + Underway \in {0, 1}
       /\ transfer["S"] = "pending" <=> Len(pending) + Len(network) + Underway = 1

ReadyInv == ready => pending = <<>>

\* What holds in every build.
CoreInv == TypeOK /\ OrderInv /\ CountInv /\ SendInv /\ ReadyInv

\* How far the receiver is with its operation, in a safe build: the message has
\* been used, is being fetched, or is still waited for.
RecvInv ==
  /\ pc["R"] = "idle" => recvBuf = op["R"] /\ transfer["R"] # "pending"
  /\ pc["R"] # "idle" => op["R"] > 0
  /\ pc["R"] = "b_recv" => recvBuf = op["R"] - 1 /\ resume = "started"
                           /\ transfer["R"] = "null"
  /\ pc["R"] \in {"idle", "b_recv"} => ~ready
  /\ pc["R"] \in {"started", "wait"} =>
       recvBuf = IF ready \/ transfer["R"] = "pending" THEN op["R"] - 1 ELSE op["R"]
  /\ ready => transfer["R"] = "null"
  /\ build.mode = "rendezvous" =>
       /\ pc["R"] = "wait" => ~ready
       /\ pc["R"] \in {"idle", "b_recv"} => transfer["R"] = "null"

SafeInv == CoreInv /\ SafeBuild(build) /\ RecvInv

IInv == CoreInv /\ (SafeBuild(build) => RecvInv)

-----------------------------------------------------------------------------

\* The state in which the proofs of the steps begin.
LEMMA CoreState ==
  ASSUME CoreInv
  PROVE  /\ TypeOK /\ OrderInv /\ CountInv /\ SendInv /\ ReadyInv
         /\ MaxOp \in Nat /\ 1 .. MaxOp \in SUBSET Nat
         /\ build \in [mode : {"eager", "rendezvous"}, waitEarly : BOOLEAN, others : BOOLEAN]
         /\ Len(network) \in Nat /\ Len(pending) \in Nat /\ Underway \in {0, 1}
         /\ recvBuf \in Nat /\ sendBuf \in Nat /\ op["S"] \in Nat /\ op["R"] \in Nat
  BY MaxOpAssumption, BuildsAssumption DEF CoreInv, TypeOK, Underway, Side

LEMMA SafeState ==
  ASSUME SafeInv
  PROVE  /\ CoreInv /\ TypeOK /\ OrderInv /\ CountInv /\ SendInv /\ ReadyInv /\ RecvInv
         /\ MaxOp \in Nat
         /\ build \in [mode : {"eager", "rendezvous"}, waitEarly : BOOLEAN, others : BOOLEAN]
         /\ ~build.others
         /\ build.mode = "rendezvous" => ~build.waitEarly
  BY MaxOpAssumption, BuildsAssumption DEF SafeInv, CoreInv, TypeOK, SafeBuild

\* A message is appended; the first message is taken.
LEMMA Appended ==
  ASSUME NEW S, NEW q \in Seq(S), NEW m \in S
  PROVE  /\ Append(q, m) \in Seq(S) /\ Len(Append(q, m)) = Len(q) + 1
         /\ \A i \in 1 .. Len(q) : Append(q, m)[i] = q[i]
         /\ Append(q, m)[Len(q) + 1] = m
  OBVIOUS

LEMMA Taken ==
  ASSUME NEW S, NEW q \in Seq(S), q # <<>>
  PROVE  /\ Tail(q) \in Seq(S) /\ Len(Tail(q)) = Len(q) - 1
         /\ Len(q) \in Nat \ {0}
         /\ Head(q) \in S /\ Head(q) = q[1]
         /\ \A i \in 1 .. Len(q) - 1 : Tail(q)[i] = q[i + 1]
  OBVIOUS

\* The counts of messages: one in all, which is the first; none; none but those used.
LEMMA SumOfOne ==
  ASSUME NEW a \in Nat \ {0}, NEW b \in Nat, NEW c \in Nat, a + b + c \in {0, 1}
  PROVE  a = 1 /\ b = 0 /\ c = 0
  OBVIOUS

LEMMA SumOfZero ==
  ASSUME NEW a \in Nat, NEW b \in Nat, NEW c \in Nat, a + b + c \in {0, 1}, a + b + c # 1
  PROVE  a = 0 /\ b = 0 /\ c = 0
  OBVIOUS

LEMMA SumOfNone ==
  ASSUME NEW a \in Nat, NEW b, NEW c, NEW d, b = 0, c = 0, d = 0
  PROVE  a + b + c + d = a
  OBVIOUS

\* Ordered, when the first message kept is used ...
LEMMA OrderedUse ==
  ASSUME NEW b \in Nat, NEW S \in SUBSET Nat, NEW kept \in Seq(S), NEW coming \in Seq(S),
         Ordered(b, kept, coming), kept # <<>>
  PROVE  Head(kept) = b + 1 /\ Ordered(b + 1, Tail(kept), coming)
<1>1. /\ Len(kept) \in Nat \ {0} /\ Len(coming) \in Nat
      /\ Head(kept) = kept[1] /\ Len(Tail(kept)) = Len(kept) - 1
      /\ \A i \in 1 .. Len(kept) - 1 : Tail(kept)[i] = kept[i + 1]
  BY Taken
<1>2. Head(kept) = b + 1
  BY <1>1 DEF Ordered
<1>3. ASSUME NEW i \in 1 .. Len(Tail(kept)) PROVE Tail(kept)[i] = b + 1 + i
  <2>1. i \in 1 .. Len(kept) - 1 /\ i + 1 \in 1 .. Len(kept)
    BY <1>1
  <2> QED
    BY <1>1, <2>1 DEF Ordered
<1>4. ASSUME NEW i \in 1 .. Len(coming)
      PROVE  coming[i] = b + 1 + Len(Tail(kept)) + i
  BY <1>1 DEF Ordered
<1> QED
  BY <1>2, <1>3, <1>4 DEF Ordered

\* ... when the first message in the network is used ...
LEMMA OrderedDeliver ==
  ASSUME NEW b \in Nat, NEW S \in SUBSET Nat, NEW kept \in Seq(S), NEW coming \in Seq(S),
         Ordered(b, kept, coming), coming # <<>>, Len(kept) = 0
  PROVE  Head(coming) = b + 1 /\ Ordered(b + 1, kept, Tail(coming))
<1>1. /\ Len(coming) \in Nat \ {0} /\ Head(coming) = coming[1]
      /\ Len(Tail(coming)) = Len(coming) - 1
      /\ \A i \in 1 .. Len(coming) - 1 : Tail(coming)[i] = coming[i + 1]
  BY Taken
<1>2. Head(coming) = b + 1
  BY <1>1 DEF Ordered
<1>3. ASSUME NEW i \in 1 .. Len(Tail(coming))
      PROVE  Tail(coming)[i] = b + 1 + Len(kept) + i
  <2>1. i \in 1 .. Len(coming) - 1 /\ i + 1 \in 1 .. Len(coming)
    BY <1>1
  <2> QED
    BY <1>1, <2>1 DEF Ordered
<1> QED
  BY <1>2, <1>3 DEF Ordered

\* ... when it is kept ...
LEMMA OrderedKeep ==
  ASSUME NEW b \in Nat, NEW S \in SUBSET Nat, NEW kept \in Seq(S), NEW coming \in Seq(S),
         Ordered(b, kept, coming), coming # <<>>
  PROVE  Ordered(b, Append(kept, Head(coming)), Tail(coming))
<1> DEFINE all == Append(kept, Head(coming))
<1>1. /\ Len(coming) \in Nat \ {0} /\ Head(coming) = coming[1] /\ Head(coming) \in S
      /\ Len(Tail(coming)) = Len(coming) - 1
      /\ \A i \in 1 .. Len(coming) - 1 : Tail(coming)[i] = coming[i + 1]
  BY Taken
<1>2. /\ Len(kept) \in Nat /\ Len(all) = Len(kept) + 1
      /\ \A i \in 1 .. Len(kept) : all[i] = kept[i]
      /\ all[Len(kept) + 1] = Head(coming)
  BY <1>1, Appended
<1>3. Head(coming) = b + Len(kept) + 1
  BY <1>1 DEF Ordered
<1>4. ASSUME NEW i \in 1 .. Len(all) PROVE all[i] = b + i
  <2>1. i \in 1 .. Len(kept) \/ i = Len(kept) + 1
    BY <1>2
  <2>2. CASE i \in 1 .. Len(kept)
    BY <1>2, <2>2 DEF Ordered
  <2>3. CASE i = Len(kept) + 1
    BY <1>2, <1>3, <2>3
  <2> QED
    BY <2>1, <2>2, <2>3
<1>5. ASSUME NEW i \in 1 .. Len(Tail(coming))
      PROVE  Tail(coming)[i] = b + Len(all) + i
  <2>1. i \in 1 .. Len(coming) - 1 /\ i + 1 \in 1 .. Len(coming)
    BY <1>1
  <2>2. coming[i + 1] = b + Len(kept) + (i + 1)
    BY <2>1 DEF Ordered
  <2> QED
    BY <1>1, <1>2, <2>1, <2>2
<1> QED
  BY <1>4, <1>5 DEF Ordered

\* ... and when there is none.
LEMMA OrderedNone ==
  ASSUME NEW b, NEW kept, NEW coming, Len(kept) = 0, Len(coming) = 0
  PROVE  Ordered(b, kept, coming)
  BY DEF Ordered

LEMMA InitCoreInv == Init => CoreInv
<1> SUFFICES ASSUME Init PROVE CoreInv
  OBVIOUS
<1>1. build \in [mode : {"eager", "rendezvous"}, waitEarly : BOOLEAN, others : BOOLEAN]
  BY BuildsAssumption DEF Init
<1>2. TypeOK
  <2>1. 0 \in 0 .. MaxOp
    BY MaxOpAssumption
  <2>2. network \in Seq(1 .. MaxOp) /\ pending \in Seq(1 .. MaxOp)
    BY DEF Init
  <2>3. op \in [Side -> 0 .. MaxOp] /\ transfer \in [Side -> Transfers]
    BY <2>1 DEF Init, Transfers
  <2> QED
    BY <2>1, <2>2, <2>3 DEF Init, TypeOK, Side
<1>3. OrderInv /\ CountInv
  BY <1>1 DEF Init, OrderInv, Ordered, CountInv, Underway, Side
<1>4. SendInv /\ ReadyInv
  BY <1>1 DEF Init, SendInv, ReadyInv, Underway, Side
<1> QED
  BY <1>2, <1>3, <1>4 DEF CoreInv

-----------------------------------------------------------------------------
(* What holds in every build. *)

LEMMA StartSendCore == ASSUME CoreInv, StartSend PROVE CoreInv'
<1> DEFINE n == op["S"] + 1
<1>1. /\ TypeOK /\ OrderInv /\ CountInv /\ SendInv /\ ReadyInv
      /\ MaxOp \in Nat /\ build.mode \in {"eager", "rendezvous"}
  BY CoreState
<1>2. /\ n \in 1 .. MaxOp /\ op' = [op EXCEPT !["S"] = n] /\ sendBuf' = n
      /\ pc["S"] = "idle" /\ pc' = [pc EXCEPT !["S"] = "started"]
      /\ transfer["S"] # "pending"
      /\ UNCHANGED <<build, resume, recvBuf, ready, pending>>
  BY <1>1 DEF StartSend, TypeOK, SendInv, Side
<1>3. /\ Append(network, n) \in Seq(1 .. MaxOp)
      /\ Len(Append(network, n)) = Len(network) + 1
      /\ \A i \in 1 .. Len(network) : Append(network, n)[i] = network[i]
      /\ Append(network, n)[Len(network) + 1] = n
  BY <1>1, <1>2, Appended DEF TypeOK
<1>r. ReadyInv'
  BY <1>1, <1>2 DEF ReadyInv
<1>4. CASE /\ build.mode = "eager"
           /\ transfer' = [transfer EXCEPT !["S"] = "null"]
           /\ network' = Append(network, n)
  <2>1. TypeOK'
    BY <1>1, <1>2, <1>3, <1>4 DEF TypeOK, Side, Transfers
  <2>2. OrderInv' /\ CountInv'
    BY <1>1, <1>2, <1>3, <1>4 DEF TypeOK, OrderInv, Ordered, CountInv, Underway, Side, Transfers
  <2>3. SendInv'
    BY <1>1, <1>2, <1>4 DEF TypeOK, SendInv, Side
  <2> QED
    BY <2>1, <2>2, <2>3, <1>r DEF CoreInv
<1>5. CASE /\ build.mode = "eager"
           /\ transfer' = [transfer EXCEPT !["S"] = "pending"]
           /\ network' = network
  <2>1. TypeOK'
    BY <1>1, <1>2, <1>5 DEF TypeOK, Side, Transfers
  <2>2. OrderInv' /\ CountInv'
    BY <1>1, <1>2, <1>5 DEF TypeOK, OrderInv, Ordered, CountInv, Underway, Side, Transfers
  <2>3. SendInv'
    BY <1>1, <1>2, <1>5 DEF TypeOK, SendInv, Side
  <2> QED
    BY <2>1, <2>2, <2>3, <1>r DEF CoreInv
<1>6. CASE /\ build.mode = "rendezvous"
           /\ transfer' = [transfer EXCEPT !["S"] = "pending"]
           /\ network' = Append(network, n)
  <2>1. TypeOK'
    BY <1>1, <1>2, <1>3, <1>6 DEF TypeOK, Side, Transfers
  <2>2. OrderInv' /\ CountInv'
    BY <1>1, <1>2, <1>3, <1>6 DEF TypeOK, OrderInv, Ordered, CountInv, SendInv, Underway, Side, Transfers
  <2>3. SendInv'
    BY <1>1, <1>2, <1>3, <1>6 DEF TypeOK, SendInv, Underway, Side
  <2> QED
    BY <2>1, <2>2, <2>3, <1>r DEF CoreInv
<1> QED
  BY <1>1, <1>2, <1>4, <1>5, <1>6 DEF StartSend, TypeOK, Side

LEMMA TakeEagerCore == ASSUME CoreInv, TakeEager PROVE CoreInv'
<1>1. /\ TypeOK /\ OrderInv /\ CountInv /\ SendInv /\ ReadyInv
      /\ MaxOp \in Nat /\ build.mode \in {"eager", "rendezvous"}
  BY CoreState
<1>2. /\ sendBuf \in 1 .. MaxOp /\ op["S"] = sendBuf
      /\ sendBuf = recvBuf + Len(pending) + Len(network) + 1
  BY <1>1 DEF TakeEager, TypeOK, OrderInv, Ordered, CountInv, Underway, Side
<1>3. /\ Append(network, sendBuf) \in Seq(1 .. MaxOp)
      /\ Len(Append(network, sendBuf)) = Len(network) + 1
      /\ \A i \in 1 .. Len(network) : Append(network, sendBuf)[i] = network[i]
      /\ Append(network, sendBuf)[Len(network) + 1] = sendBuf
  BY <1>1, <1>2, Appended DEF TypeOK
<1>4. TypeOK'
  BY <1>1, <1>2, <1>3 DEF TakeEager, TypeOK, Side, Transfers
<1>5. OrderInv' /\ CountInv'
  <2>1. /\ network' = Append(network, sendBuf) /\ transfer'["S"] = "done"
        /\ UNCHANGED <<build, op, sendBuf, recvBuf, pending>> /\ build.mode = "eager"
    BY <1>1 DEF TakeEager, TypeOK, Side
  <2>2. Underway' = 0
    BY <2>1 DEF Underway
  <2>3. Len(pending) \in Nat /\ Len(network) \in Nat /\ recvBuf \in Nat
    BY CoreState
  <2>4. CountInv'
    BY <1>2, <1>3, <2>1, <2>2, <2>3 DEF CountInv
  <2>5. ASSUME NEW i \in 1 .. Len(network')
        PROVE  network'[i] = recvBuf' + Len(pending') + i
    <3>1. i \in 1 .. Len(network) \/ i = Len(network) + 1
      BY <1>3, <2>1, <2>3
    <3>2. CASE i \in 1 .. Len(network)
      BY <1>1, <1>3, <2>1, <3>2 DEF OrderInv, Ordered
    <3>3. CASE i = Len(network) + 1
      BY <1>2, <1>3, <2>1, <2>3, <3>3
    <3> QED
      BY <3>1, <3>2, <3>3
  <2> QED
    BY <1>1, <2>1, <2>4, <2>5 DEF OrderInv, Ordered
<1>6. SendInv' /\ ReadyInv'
  BY <1>1 DEF TakeEager, TypeOK, SendInv, ReadyInv, Side, Transfers
<1> QED
  BY <1>4, <1>5, <1>6 DEF CoreInv

\* A step that only moves a process on.
LEMMA PcCore ==
  ASSUME CoreInv, WaitSend \/ StartRecv \/ ProgressFromOthers \/ WaitRecv
  PROVE  CoreInv'
<1>1. TypeOK /\ OrderInv /\ CountInv /\ SendInv /\ ReadyInv /\ MaxOp \in Nat
  BY CoreState
<1> USE DEF WaitSend, StartRecv, ProgressFromOthers, WaitRecv
<1>2. TypeOK'
  BY <1>1 DEF TypeOK, Side
<1>3. UNCHANGED <<build, sendBuf, recvBuf, transfer, network, ready, pending>>
      /\ op'["S"] = op["S"]
  BY <1>1 DEF TypeOK, Side
<1>4. OrderInv' /\ CountInv' /\ ReadyInv'
  BY <1>1, <1>3 DEF OrderInv, CountInv, ReadyInv, Underway
<1>5. SendInv'
  <2>1. pc'["S"] = "idle" => pc["S"] = "idle"
    BY <1>1 DEF TypeOK, Side
  <2> QED
    BY <1>1, <1>3, <2>1 DEF SendInv, Underway
<1> QED
  BY <1>2, <1>4, <1>5 DEF CoreInv

LEMMA SendCompleteCore == ASSUME CoreInv, SendComplete PROVE CoreInv'
<1>1. TypeOK /\ OrderInv /\ CountInv /\ SendInv /\ ReadyInv
      /\ build.mode \in {"eager", "rendezvous"}
  BY CoreState
<1>2. TypeOK'
  BY <1>1 DEF SendComplete, TypeOK, Side, Transfers
<1>3. Underway' = Underway
  BY <1>1 DEF SendComplete, TypeOK, Underway, Side
<1>4. OrderInv' /\ CountInv' /\ ReadyInv'
  BY <1>1, <1>3 DEF SendComplete, OrderInv, CountInv, ReadyInv
<1>5. SendInv'
  BY <1>1, <1>3 DEF SendComplete, TypeOK, SendInv, Side
<1> QED
  BY <1>2, <1>4, <1>5 DEF CoreInv

\* The one message of a rendezvous that is kept, or comes, is all there is.
LEMMA OneRendezvous ==
  ASSUME CoreInv, build.mode = "rendezvous", NEW q \in {pending, network}, q # <<>>
  PROVE  /\ Len(pending) + Len(network) = 1 /\ Len(q) = 1 /\ Underway = 0
         /\ sendBuf = recvBuf + 1 /\ transfer["S"] = "pending" /\ pc["S"] # "idle"
         /\ transfer["R"] # "pending"
<1>1. TypeOK /\ CountInv /\ SendInv /\ Underway \in Nat
      /\ Len(network) \in Nat /\ Len(pending) \in Nat /\ recvBuf \in Nat
  BY CoreState
<1>2. Len(q) \in Nat \ {0}
  BY <1>1 DEF TypeOK
<1>3. Len(pending) + Len(network) + Underway \in {0, 1}
  BY <1>1 DEF SendInv
<1>4. Len(pending) + Len(network) = 1 /\ Len(q) = 1 /\ Underway = 0
  <2>1. CASE q = pending
    <3>1. Len(pending) \in Nat \ {0}
      BY <1>1, <2>1 DEF TypeOK
    <3>2. Len(pending) = 1 /\ Len(network) = 0 /\ Underway = 0
      BY <1>1, <1>3, <3>1, SumOfOne
    <3> QED
      BY <2>1, <3>2
  <2>2. CASE q = network
    <3>1. Len(network) \in Nat \ {0} /\ Len(network) + Len(pending) + Underway \in {0, 1}
      BY <1>1, <1>2, <1>3, <2>2
    <3>2. Len(network) = 1 /\ Len(pending) = 0 /\ Underway = 0
      BY <1>1, <3>1, SumOfOne
    <3> QED
      BY <2>2, <3>2
  <2> QED
    BY <2>1, <2>2
<1>5. sendBuf = recvBuf + 1
  BY <1>1, <1>4 DEF CountInv
<1>6. transfer["S"] = "pending" /\ pc["S"] # "idle"
  BY <1>1, <1>4 DEF SendInv
<1>7. transfer["R"] # "pending"
  BY <1>4 DEF Underway
<1> QED
  BY <1>4, <1>5, <1>6, <1>7

\* The first message kept is used, by b_recv or by the wait.
LEMMA KeptUsed ==
  ASSUME CoreInv, pending # <<>>
  PROVE  /\ Tail(pending) \in Seq(1 .. MaxOp) /\ Len(Tail(pending)) = Len(pending) - 1
         /\ Len(pending) \in Nat \ {0} /\ Head(pending) = recvBuf + 1
         /\ Head(pending) \in 1 .. MaxOp
         /\ Ordered(recvBuf + 1, Tail(pending), network)
<1>1. TypeOK /\ OrderInv /\ 1 .. MaxOp \in SUBSET Nat /\ recvBuf \in Nat
  BY CoreState
<1>2. pending \in Seq(1 .. MaxOp) /\ network \in Seq(1 .. MaxOp)
  BY <1>1 DEF TypeOK
<1>3. Head(pending) = recvBuf + 1 /\ Ordered(recvBuf + 1, Tail(pending), network)
  BY <1>1, <1>2, OrderedUse DEF OrderInv
<1> QED
  BY <1>2, <1>3, Taken

\* A rendezvous, of which the one message has just left the list or the network,
\* is carried out at once or is left pending.
LEMMA FetchCore ==
  ASSUME CoreInv, build.mode = "rendezvous", pending # <<>> \/ network # <<>>,
         Len(pending') = 0, Len(network') = 0,
         pending' \in Seq(1 .. MaxOp), network' \in Seq(1 .. MaxOp),
         FetchNow \/ FetchLater,
         pc'["S"] = pc["S"], UNCHANGED <<build, op, sendBuf>>
  PROVE  /\ OrderInv' /\ CountInv' /\ SendInv'
         /\ recvBuf' \in 0 .. MaxOp /\ transfer' \in [Side -> Transfers]
<1>1. TypeOK /\ CountInv /\ SendInv /\ recvBuf \in Nat /\ sendBuf \in Nat
  BY CoreState
<1>2. /\ Underway = 0 /\ sendBuf = recvBuf + 1 /\ transfer["S"] = "pending"
      /\ pc["S"] # "idle" /\ transfer["R"] # "pending"
  BY OneRendezvous
<1>3. OrderInv'
  BY OrderedNone DEF OrderInv
<1>4. op["S"] = sendBuf
  BY <1>1 DEF CountInv
<1>5. CASE FetchNow
  <2>1. /\ recvBuf' = sendBuf /\ transfer'["S"] = "done" /\ transfer'["R"] = transfer["R"]
        /\ transfer' \in [Side -> Transfers]
    BY <1>1, <1>5 DEF FetchNow, TypeOK, Side, Transfers
  <2>2. Underway' = 0
    BY <1>2, <2>1 DEF Underway
  <2>3. CountInv'
    BY <1>1, <1>4, <2>1, <2>2 DEF CountInv
  <2>4. Len(pending') + Len(network') + Underway' = 0
    BY <2>2
  <2>5. SendInv'
    BY <2>1, <2>4 DEF SendInv
  <2> QED
    BY <1>1, <1>3, <2>1, <2>3, <2>5 DEF TypeOK
<1>6. CASE FetchLater
  <2>1. /\ recvBuf' = recvBuf /\ transfer'["R"] = "pending"
        /\ transfer'["S"] = transfer["S"] /\ transfer' \in [Side -> Transfers]
    BY <1>1, <1>6 DEF FetchLater, TypeOK, Side, Transfers
  <2>2. Underway' = 1
    BY <2>1 DEF Underway
  <2>3. CountInv'
    BY <1>1, <1>2, <1>4, <2>1, <2>2 DEF CountInv
  <2>4. Len(pending') + Len(network') + Underway' = 1
    BY <2>2
  <2>5. SendInv'
    BY <1>2, <2>1, <2>4 DEF SendInv
  <2> QED
    BY <1>1, <1>3, <2>1, <2>3, <2>5 DEF TypeOK
<1> QED
  BY <1>5, <1>6

LEMMA BRecvCore == ASSUME CoreInv, BRecv PROVE CoreInv'
<1>1. /\ TypeOK /\ OrderInv /\ CountInv /\ SendInv /\ ReadyInv
      /\ build.mode \in {"eager", "rendezvous"}
      /\ Len(network) \in Nat /\ recvBuf \in Nat
  BY CoreState
<1>2. /\ pc' = [pc EXCEPT !["R"] = resume] /\ pc'["S"] = pc["S"]
      /\ pc' \in [Side -> {"idle", "b_recv", "started", "wait"}] /\ pc'["S"] # "b_recv"
      /\ UNCHANGED <<build, op, resume, sendBuf, network>>
  BY <1>1 DEF BRecv, TypeOK, Side
<1>3. CASE /\ pending # <<>> /\ pending' = Tail(pending) /\ ready' = ready
           /\ build.mode = "eager"
           /\ recvBuf' = Head(pending) /\ transfer' = transfer
  <2>1. TypeOK'
    BY <1>1, <1>2, <1>3, KeptUsed DEF TypeOK
  <2>2. OrderInv'
    BY <1>2, <1>3, KeptUsed DEF OrderInv
  <2>3. CountInv'
    <3>1. Underway' = Underway /\ Underway \in {0, 1}
      BY <1>2, <1>3, CoreState DEF Underway
    <3>2. recvBuf' = recvBuf + 1 /\ Len(pending') = Len(pending) - 1 /\ Len(pending) \in Nat
      BY <1>3, KeptUsed
    <3>3. recvBuf' + Len(pending') + Len(network') + Underway' =
            recvBuf + Len(pending) + Len(network) + Underway
      BY <1>1, <1>2, <3>1, <3>2
    <3> QED
      BY <1>1, <1>2, <3>3 DEF CountInv
  <2>4. SendInv'
    BY <1>1, <1>2, <1>3 DEF SendInv, Underway
  <2>5. ReadyInv'
    BY <1>1, <1>3 DEF ReadyInv
  <2> QED
    BY <2>1, <2>2, <2>3, <2>4, <2>5 DEF CoreInv
<1>4. CASE /\ pending # <<>> /\ pending' = Tail(pending) /\ ready' = ready
           /\ build.mode = "rendezvous" /\ (FetchNow \/ FetchLater)
  <2>1. /\ Len(pending') = 0 /\ pending' \in Seq(1 .. MaxOp)
        /\ Len(network') = 0 /\ network' \in Seq(1 .. MaxOp)
    <3>1. Len(pending) + Len(network) = 1 /\ Len(pending) = 1
      BY <1>4, OneRendezvous
    <3> QED
      BY <1>1, <1>2, <1>4, <3>1, KeptUsed DEF TypeOK
  <2>2. /\ OrderInv' /\ CountInv' /\ SendInv'
        /\ recvBuf' \in 0 .. MaxOp /\ transfer' \in [Side -> Transfers]
    BY <1>2, <1>4, <2>1, FetchCore
  <2>3. ReadyInv'
    BY <1>1, <1>4 DEF ReadyInv
  <2>4. TypeOK'
    BY <1>1, <1>2, <1>4, <2>1, <2>2 DEF TypeOK
  <2> QED
    BY <2>2, <2>3, <2>4 DEF CoreInv
<1>5. CASE /\ pending = <<>> /\ ready' = TRUE
           /\ UNCHANGED <<pending, recvBuf, transfer>>
  <2>1. TypeOK'
    BY <1>1, <1>2, <1>5 DEF TypeOK
  <2>2. OrderInv' /\ CountInv' /\ SendInv' /\ ReadyInv'
    BY <1>1, <1>2, <1>5 DEF OrderInv, CountInv, SendInv, ReadyInv, Underway
  <2> QED
    BY <2>1, <2>2 DEF CoreInv
<1> QED
  BY <1>1, <1>3, <1>4, <1>5 DEF BRecv

LEMMA RecvCompleteCore == ASSUME CoreInv, RecvComplete PROVE CoreInv'
<1>1. /\ TypeOK /\ OrderInv /\ CountInv /\ SendInv /\ ReadyInv
      /\ build.mode \in {"eager", "rendezvous"}
  BY CoreState
<1>2. /\ pc' = [pc EXCEPT !["R"] = "idle"] /\ pc'["S"] = pc["S"]
      /\ UNCHANGED <<build, op, resume, sendBuf, network>>
  BY <1>1 DEF RecvComplete, TypeOK, Side
<1>3. /\ UNCHANGED <<pending, recvBuf>> /\ ready' \in {ready, FALSE}
      /\ \/ transfer' = transfer
         \/ /\ build.mode = "rendezvous" /\ transfer["R"] # "pending"
            /\ transfer' = [transfer EXCEPT !["R"] = "null"]
  BY <1>1 DEF RecvComplete, ReadyInv
<1>4. TypeOK'
  BY <1>1, <1>2, <1>3 DEF TypeOK, Side, Transfers
<1>5. Underway' = Underway /\ transfer'["S"] = transfer["S"]
      /\ (build.mode = "eager" => transfer'["R"] = transfer["R"])
  BY <1>1, <1>2, <1>3 DEF Underway, TypeOK, Side
<1>6. OrderInv' /\ CountInv' /\ ReadyInv'
  <2>1. OrderInv'
    BY <1>1, <1>2, <1>3 DEF OrderInv
  <2>2. CountInv'
    BY <1>1, <1>2, <1>3, <1>5 DEF CountInv
  <2>3. ready' => ready
    BY <1>3
  <2>4. ReadyInv'
    BY <1>1, <1>3, <2>3 DEF ReadyInv
  <2> QED
    BY <2>1, <2>2, <2>4
<1>7. SendInv'
  BY <1>1, <1>2, <1>3, <1>5 DEF SendInv
<1> QED
  BY <1>4, <1>6, <1>7 DEF CoreInv

\* The first message in the network arrives.
LEMMA Arrived ==
  ASSUME CoreInv, network # <<>>
  PROVE  /\ Tail(network) \in Seq(1 .. MaxOp) /\ Len(Tail(network)) = Len(network) - 1
         /\ Len(network) \in Nat \ {0} /\ Head(network) = recvBuf + Len(pending) + 1
         /\ Head(network) \in 1 .. MaxOp
         /\ Append(pending, Head(network)) \in Seq(1 .. MaxOp)
         /\ Len(Append(pending, Head(network))) = Len(pending) + 1
         /\ Ordered(recvBuf, Append(pending, Head(network)), Tail(network))
         /\ pending = <<>> => Ordered(recvBuf + 1, pending, Tail(network))
<1>1. TypeOK /\ OrderInv /\ 1 .. MaxOp \in SUBSET Nat /\ recvBuf \in Nat
  BY CoreState
<1>2. pending \in Seq(1 .. MaxOp) /\ network \in Seq(1 .. MaxOp)
  BY <1>1 DEF TypeOK
<1>3. /\ Tail(network) \in Seq(1 .. MaxOp) /\ Len(Tail(network)) = Len(network) - 1
      /\ Len(network) \in Nat \ {0} /\ Head(network) = network[1]
      /\ Head(network) \in 1 .. MaxOp
  BY <1>2, Taken
<1>4. Head(network) = recvBuf + Len(pending) + 1
  BY <1>1, <1>3 DEF OrderInv, Ordered
<1>5. Ordered(recvBuf, Append(pending, Head(network)), Tail(network))
  BY <1>1, <1>2, OrderedKeep DEF OrderInv
<1>6. ASSUME pending = <<>> PROVE Ordered(recvBuf + 1, pending, Tail(network))
  <2>1. Len(pending) = 0
    BY <1>6
  <2> QED
    BY <1>1, <1>2, <2>1, OrderedDeliver DEF OrderInv
<1> QED
  BY <1>2, <1>3, <1>4, <1>5, <1>6, Appended

LEMMA IncomingCore == ASSUME CoreInv, Incoming PROVE CoreInv'
<1> DEFINE m == Head(network)
<1>1. /\ TypeOK /\ OrderInv /\ CountInv /\ SendInv /\ ReadyInv
      /\ build.mode \in {"eager", "rendezvous"}
      /\ Len(pending) \in Nat /\ recvBuf \in Nat
  BY CoreState
<1>2. network' = Tail(network) /\ network # <<>> /\ UNCHANGED <<build, op, pc, resume, sendBuf>>
  BY DEF Incoming
<1>3. CASE /\ ~ready /\ pending' = Append(pending, m)
           /\ UNCHANGED <<ready, recvBuf, transfer>>
  <2>1. TypeOK'
    BY <1>1, <1>2, <1>3, Arrived DEF TypeOK
  <2>2. OrderInv' /\ ReadyInv'
    BY <1>2, <1>3, Arrived DEF OrderInv, ReadyInv
  <2>3. Underway' = Underway
    BY <1>2, <1>3 DEF Underway
  <2>4. Len(pending') + Len(network') = Len(pending) + Len(network)
        /\ recvBuf + Len(pending') + Len(network') = recvBuf + Len(pending) + Len(network)
    BY <1>1, <1>2, <1>3, Arrived
  <2>5. CountInv' /\ SendInv'
    BY <1>1, <1>2, <1>3, <2>3, <2>4 DEF CountInv, SendInv
  <2> QED
    BY <2>1, <2>2, <2>5 DEF CoreInv
<1>4. CASE /\ ready /\ ready' = FALSE /\ pending' = pending
           /\ build.mode = "eager"
           /\ recvBuf' = m /\ transfer' = transfer
  <2>1. pending = <<>> /\ Len(pending) = 0
    BY <1>1, <1>4 DEF ReadyInv
  <2>2. TypeOK'
    <3>1. recvBuf' \in 0 .. MaxOp /\ network' \in Seq(1 .. MaxOp)
      BY <1>2, <1>4, Arrived
    <3> QED
      BY <1>1, <1>2, <1>4, <3>1 DEF TypeOK
  <2>3. OrderInv' /\ ReadyInv'
    BY <1>1, <1>2, <1>4, <2>1, Arrived DEF OrderInv, ReadyInv
  <2>4. CountInv'
    <3>1. Underway' = Underway /\ Underway \in {0, 1}
      BY <1>2, <1>4, CoreState DEF Underway
    <3>2. /\ recvBuf' = recvBuf + 1 /\ Len(pending') = 0
          /\ Len(network') = Len(network) - 1 /\ Len(network) \in Nat
      BY <1>1, <1>2, <1>4, <2>1, Arrived
    <3>3. recvBuf' + Len(pending') + Len(network') + Underway' =
            recvBuf + Len(pending) + Len(network) + Underway
      BY <1>1, <2>1, <3>1, <3>2
    <3> QED
      BY <1>1, <1>2, <3>3 DEF CountInv
  <2>5. SendInv'
    BY <1>1, <1>2, <1>4 DEF SendInv, Underway
  <2> QED
    BY <2>2, <2>3, <2>4, <2>5 DEF CoreInv
<1>5. CASE /\ ready /\ ready' = FALSE /\ pending' = pending
           /\ build.mode = "rendezvous" /\ (FetchNow \/ FetchLater)
  <2>1. /\ Len(pending') = 0 /\ pending' \in Seq(1 .. MaxOp)
        /\ Len(network') = 0 /\ network' \in Seq(1 .. MaxOp)
    <3>1. Len(network) = 1 /\ Len(pending) = 0
      BY <1>1, <1>2, <1>5, OneRendezvous DEF ReadyInv
    <3> QED
      BY <1>1, <1>2, <1>5, <3>1, Arrived DEF TypeOK
  <2>2. /\ OrderInv' /\ CountInv' /\ SendInv'
        /\ recvBuf' \in 0 .. MaxOp /\ transfer' \in [Side -> Transfers]
    BY <1>2, <1>5, <2>1, FetchCore
  <2>3. ReadyInv'
    BY <1>5 DEF ReadyInv
  <2>4. TypeOK'
    BY <1>1, <1>2, <1>5, <2>1, <2>2 DEF TypeOK
  <2> QED
    BY <2>2, <2>3, <2>4 DEF CoreInv
<1> QED
  BY <1>1, <1>3, <1>4, <1>5 DEF Incoming

LEMMA MoveDataCore == ASSUME CoreInv, MoveData PROVE CoreInv'
<1>1. /\ TypeOK /\ OrderInv /\ CountInv /\ SendInv /\ ReadyInv
      /\ build.mode \in {"eager", "rendezvous"}
      /\ Len(network) \in Nat /\ Len(pending) \in Nat /\ recvBuf \in Nat /\ sendBuf \in Nat
  BY CoreState
<1>2. build.mode = "rendezvous" /\ Underway = 1
  BY <1>1 DEF MoveData, SendInv, Underway
<1>3. Len(pending) = 0 /\ Len(network) = 0
  BY <1>1, <1>2 DEF SendInv
<1>4. /\ recvBuf' = sendBuf /\ transfer'["R"] = "done" /\ transfer'["S"] = "done"
      /\ UNCHANGED <<build, op, pc, resume, sendBuf, network, ready, pending>>
  BY <1>1 DEF MoveData, TypeOK, Side
<1>5. TypeOK'
  BY <1>1 DEF MoveData, TypeOK, Side, Transfers
<1>6. Underway' = 0
  BY <1>4 DEF Underway
<1>7. OrderInv' /\ ReadyInv'
  BY <1>1, <1>3, <1>4, OrderedNone DEF OrderInv, ReadyInv
<1>8. CountInv'
  BY <1>1, <1>3, <1>4, <1>6 DEF CountInv
<1>9. SendInv'
  BY <1>1, <1>2, <1>3, <1>4, <1>6 DEF SendInv
<1> QED
  BY <1>5, <1>7, <1>8, <1>9 DEF CoreInv

LEMMA NextCoreInv == CoreInv /\ [Next]_vars => CoreInv'
<1> SUFFICES ASSUME CoreInv, [Next]_vars PROVE CoreInv'
  OBVIOUS
<1>1. CASE UNCHANGED vars
  BY <1>1 DEF vars, CoreInv, TypeOK, OrderInv, CountInv, SendInv, ReadyInv, Underway
<1> QED
  BY <1>1, StartSendCore, TakeEagerCore, PcCore, SendCompleteCore, BRecvCore,
     RecvCompleteCore, IncomingCore, MoveDataCore DEF Next, Finished

(***************************************************************************)
(* However the transport is built and used, the message in the receive     *)
(* buffer, those kept, those in the network and the one under way are the  *)
(* messages sent, in order and each of them once.                          *)
(***************************************************************************)
THEOREM CoreInvariance == Spec => []CoreInv
  BY InitCoreInv, NextCoreInv, PTL DEF Spec

(***************************************************************************)
(* Type correctness, however the transport is built: no buffer, transfer   *)
(* or list is used before it is set.                                       *)
(***************************************************************************)
THEOREM TypeCorrect == Spec => []TypeOK
<1>1. CoreInv => TypeOK
  BY DEF CoreInv
<1> QED
  BY <1>1, CoreInvariance, PTL

(***************************************************************************)
(* Nothing reads the send buffer while the sender is inactive: in every    *)
(* build, whether or not an application waits for a receive before its     *)
(* message is there, the sender's wait of a rendezvous returns only when   *)
(* the data is in the receive buffer.                                      *)
(***************************************************************************)
THEOREM SendBufferReturnedHolds == Spec => []SendBufferReturned
<1>1. ASSUME CoreInv PROVE SendBufferReturned
  <2>1. /\ TypeOK /\ CountInv /\ SendInv /\ recvBuf \in Nat /\ op["S"] \in Nat
        /\ Len(pending) \in Nat /\ Len(network) \in Nat /\ Underway \in Nat
    BY <1>1, CoreState
  <2>2. ASSUME pc["S"] = "idle", build.mode = "rendezvous"
        PROVE  /\ network = <<>> /\ pending = <<>> /\ transfer["R"] # "pending"
               /\ recvBuf = op["S"]
    <3>1. /\ Len(pending) + Len(network) + Underway \in {0, 1}
          /\ Len(pending) + Len(network) + Underway # 1
      BY <2>1, <2>2 DEF SendInv
    <3>2. Len(pending) = 0 /\ Len(network) = 0 /\ Underway = 0
      BY <2>1, <3>1, SumOfZero
    <3> QED
      BY <2>1, <2>2, <3>2 DEF TypeOK, Underway, CountInv
  <2> QED
    BY <2>1, <2>2 DEF SendInv, SendBufferReturned
<1> QED
  BY <1>1, CoreInvariance, PTL

-----------------------------------------------------------------------------
(* The receiver of a safe build. *)

LEMMA InitRecvInv == Init => RecvInv
  BY DEF Init, RecvInv, Side

LEMMA SenderRecv ==
  ASSUME SafeInv, StartSend \/ TakeEager \/ WaitSend \/ SendComplete
  PROVE  RecvInv'
<1>1. TypeOK /\ RecvInv
  BY SafeState
<1>2. /\ pc'["R"] = pc["R"] /\ op'["R"] = op["R"] /\ transfer'["R"] = transfer["R"]
      /\ UNCHANGED <<build, resume, recvBuf, ready>>
  BY <1>1 DEF StartSend, TakeEager, WaitSend, SendComplete, TypeOK, Side
<1> QED
  BY <1>1, <1>2 DEF RecvInv

LEMMA StartRecvRecv == ASSUME SafeInv, StartRecv PROVE RecvInv'
<1>1. TypeOK /\ SendInv /\ RecvInv
      /\ build.mode \in {"eager", "rendezvous"} /\ MaxOp \in Nat
  BY SafeState
<1> QED
  BY <1>1 DEF StartRecv, TypeOK, RecvInv, SendInv, Side

LEMMA BRecvRecv == ASSUME SafeInv, BRecv PROVE RecvInv'
<1>1. TypeOK /\ SendInv /\ RecvInv /\ CoreInv
      /\ build.mode \in {"eager", "rendezvous"} /\ MaxOp \in Nat
  BY SafeState
<1>2. /\ pc["R"] = "b_recv" /\ pc'["R"] = "started" /\ op["R"] \in Nat
      /\ UNCHANGED <<build, op>>
      /\ ~ready /\ recvBuf = op["R"] - 1 /\ transfer["R"] = "null" /\ op["R"] > 0
  BY <1>1 DEF BRecv, TypeOK, RecvInv, Side
<1>3. CASE /\ pending # <<>> /\ ready' = ready /\ build.mode = "eager"
           /\ recvBuf' = Head(pending) /\ transfer' = transfer
  <2>1. recvBuf' = op["R"]
    BY <1>1, <1>2, <1>3, KeptUsed
  <2> QED
    BY <1>2, <1>3, <2>1 DEF RecvInv
<1>4. CASE /\ pending # <<>> /\ ready' = ready /\ build.mode = "rendezvous" /\ FetchNow
  <2>1. recvBuf' = op["R"] /\ transfer'["R"] = "null"
    BY <1>1, <1>2, <1>4, OneRendezvous DEF FetchNow, TypeOK, Side
  <2> QED
    BY <1>2, <1>4, <2>1 DEF RecvInv
<1>5. CASE /\ pending # <<>> /\ ready' = ready /\ build.mode = "rendezvous" /\ FetchLater
  BY <1>1, <1>2, <1>5 DEF RecvInv, FetchLater, TypeOK, Side
<1>6. CASE /\ ready' = TRUE /\ UNCHANGED <<recvBuf, transfer>>
  BY <1>1, <1>2, <1>6 DEF RecvInv
<1> QED
  BY <1>1, <1>3, <1>4, <1>5, <1>6 DEF BRecv

LEMMA WaitRecvRecv == ASSUME SafeInv, WaitRecv PROVE RecvInv'
<1>1. TypeOK /\ RecvInv /\ (build.mode = "rendezvous" => ~build.waitEarly)
  BY SafeState
<1> QED
  BY <1>1 DEF WaitRecv, TypeOK, RecvInv, Side

LEMMA RecvCompleteRecv == ASSUME SafeInv, RecvComplete PROVE RecvInv'
<1>1. TypeOK /\ RecvInv /\ SendInv /\ ReadyInv
  BY SafeState
<1> QED
  BY <1>1 DEF RecvComplete, TypeOK, RecvInv, SendInv, ReadyInv, Side

LEMMA IncomingRecv == ASSUME SafeInv, Incoming PROVE RecvInv'
<1>1. TypeOK /\ SendInv /\ RecvInv /\ ReadyInv /\ CoreInv
      /\ build.mode \in {"eager", "rendezvous"} /\ MaxOp \in Nat
  BY SafeState
<1>2. UNCHANGED <<build, op, pc, resume>> /\ network # <<>> /\ op["R"] \in Nat /\ recvBuf \in Nat
  BY <1>1 DEF Incoming, TypeOK, Side
<1>3. CASE UNCHANGED <<ready, recvBuf, transfer>>
  BY <1>1, <1>2, <1>3 DEF RecvInv
<1>4. ASSUME ready
      PROVE  /\ Len(pending) = 0 /\ pc["R"] \in {"started", "wait"}
             /\ recvBuf = op["R"] - 1 /\ transfer["R"] = "null"
  BY <1>1, <1>4 DEF TypeOK, RecvInv, ReadyInv, Side
<1>5. CASE ready /\ ready' = FALSE /\ build.mode = "eager"
           /\ recvBuf' = Head(network) /\ transfer' = transfer
  <2>1. recvBuf' = op["R"]
    BY <1>1, <1>2, <1>4, <1>5, Arrived
  <2> QED
    BY <1>1, <1>2, <1>4, <1>5, <2>1 DEF RecvInv
<1>6. CASE ready /\ ready' = FALSE /\ build.mode = "rendezvous" /\ FetchNow
  <2>1. recvBuf' = op["R"] /\ transfer'["R"] = "null"
    BY <1>1, <1>2, <1>4, <1>6, OneRendezvous DEF FetchNow, TypeOK, Side
  <2> QED
    BY <1>1, <1>2, <1>4, <1>6, <2>1 DEF RecvInv
<1>7. CASE ready /\ ready' = FALSE /\ build.mode = "rendezvous" /\ FetchLater
  BY <1>1, <1>2, <1>4, <1>7 DEF RecvInv, FetchLater, TypeOK, Side
<1> QED
  BY <1>1, <1>3, <1>5, <1>6, <1>7 DEF Incoming

LEMMA MoveDataRecv == ASSUME SafeInv, MoveData PROVE RecvInv'
<1>1. TypeOK /\ RecvInv /\ SendInv /\ CountInv /\ CoreInv /\ op["R"] \in Nat
  BY SafeState DEF TypeOK, Side
<1>2. sendBuf = recvBuf + 1
  <2>1. Underway = 1 /\ build.mode = "rendezvous"
    BY <1>1, SafeState DEF MoveData, SendInv, Underway
  <2>2. Len(pending) \in Nat /\ Len(network) \in Nat /\ recvBuf \in Nat
    BY <1>1, CoreState
  <2>3. Len(pending) = 0 /\ Len(network) = 0
    BY <1>1, <2>1, <2>2 DEF SendInv
  <2> QED
    BY <1>1, <2>1, <2>2, <2>3 DEF CountInv
<1>3. ~ready /\ pc["R"] \in {"started", "wait"} /\ recvBuf = op["R"] - 1
  BY <1>1 DEF MoveData, TypeOK, RecvInv, Side
<1> QED
  BY <1>1, <1>2, <1>3 DEF MoveData, RecvInv, TypeOK, Side

LEMMA NextIInv == IInv /\ [Next]_vars => IInv'
<1> SUFFICES ASSUME IInv, [Next]_vars PROVE IInv'
  OBVIOUS
<1>1. CoreInv'
  BY NextCoreInv DEF IInv
<1>2. build' = build
  BY DEF Next, vars, StartSend, TakeEager, WaitSend, SendComplete, StartRecv,
     ProgressFromOthers, BRecv, WaitRecv, RecvComplete, Incoming, MoveData, Finished
<1>3. ASSUME SafeBuild(build) PROVE RecvInv'
  <2>1. SafeInv
    BY <1>3 DEF IInv, SafeInv
  <2>2. CASE UNCHANGED vars
    BY <2>1, <2>2 DEF vars, SafeInv, RecvInv
  <2>3. ~ProgressFromOthers
    BY <1>3 DEF ProgressFromOthers, SafeBuild
  <2> QED
    BY <2>1, <2>2, <2>3, SenderRecv, StartRecvRecv, BRecvRecv, WaitRecvRecv,
       RecvCompleteRecv, IncomingRecv, MoveDataRecv DEF Next, Finished, SafeInv
<1> QED
  BY <1>1, <1>2, <1>3 DEF IInv, SafeBuild

(***************************************************************************)
(* The inductive invariant: the messages, in every build, and how far the  *)
(* receiver is with its operation, in a safe one.                          *)
(***************************************************************************)
THEOREM Invariance == Spec => []IInv
<1>1. Init => IInv
  BY InitCoreInv, InitRecvInv DEF IInv
<1> QED
  BY <1>1, NextIInv, PTL DEF Spec

LEMMA SafeInvariance == SafeBuilds => (Spec => []SafeInv)
<1> SUFFICES ASSUME SafeBuilds PROVE Spec => []SafeInv
  OBVIOUS
<1>1. IInv => SafeInv
  BY DEF IInv, SafeInv, SafeBuilds, CoreInv, TypeOK
<1> QED
  BY <1>1, Invariance, PTL

(***************************************************************************)
(* When the wait of operation n has returned, message n is in the receive  *)
(* buffer, until the next start, in every use but those SafeBuild excludes.*)
(***************************************************************************)
THEOREM BufferContentHolds == Spec => []SafeBufferContent
<1>1. IInv => SafeBufferContent
  BY DEF IInv, RecvInv, SafeBufferContent, BufferContent
<1> QED
  BY <1>1, Invariance, PTL

(***************************************************************************)
(* In every build no message overtakes another one, and none is lost or    *)
(* used twice; in a safe one, in which the receiver is where its operation *)
(* says, the assertions of incoming_am_msg_handler and b_recv hold too.    *)
(***************************************************************************)
THEOREM NoOvertakingHolds == Spec => []NoOvertaking
<1>1. ASSUME IInv PROVE NoOvertaking
  <2>1. OrderInv /\ CountInv /\ ReadyInv
    BY <1>1 DEF IInv, CoreInv
  <2>2. ASSUME build.mode = "rendezvous", SafeBuild(build)
        PROVE  /\ ready => transfer["R"] = "null"
               /\ pc["R"] = "b_recv" => transfer["R"] = "null"
    BY <1>1, <2>2 DEF IInv, RecvInv
  <2> QED
    BY <2>1, <2>2 DEF OrderInv, Ordered, CountInv, ReadyInv, NoOvertaking
<1> QED
  BY <1>1, Invariance, PTL

-----------------------------------------------------------------------------
(***************************************************************************)
(* What the two users of the connection see of it.  Operation n of a side  *)
(* is operation n + 1 of its request, whose first one travelled over MPI.  *)
(***************************************************************************)
Standard == INSTANCE StandardChannel WITH
  started <- [s \in Side |-> op[s] + 1],
  active <- [s \in Side |-> pc[s] # "idle"],
  delivered <- recvBuf + 1

\* The step that puts a message into the receive buffer, by whichever path, puts
\* the next one there, and the receiver waits for it.
Uses ==
  /\ recvBuf' = recvBuf + 1 /\ UNCHANGED op
  /\ \A s \in Side : pc[s] = "idle" <=> pc'[s] = "idle"
  /\ pc["R"] # "idle" /\ op["R"] = recvBuf + 1
  /\ op["S"] >= recvBuf + 1

\* A step that neither starts nor completes an operation nor uses a message.
Keeps ==
  /\ UNCHANGED <<op, recvBuf>>
  /\ \A s \in Side : pc[s] = "idle" <=> pc'[s] = "idle"

\* A message that is kept, in the network or under way was sent after the one in
\* the buffer; one that is fetched is the next.
LEMMA SentBefore ==
  ASSUME CoreInv
  PROVE  /\ pending # <<>> \/ network # <<>> => op["S"] >= recvBuf + 1
         /\ transfer["R"] = "pending" => op["S"] = recvBuf + 1 /\ sendBuf = recvBuf + 1
<1>1. TypeOK /\ CountInv /\ SendInv /\ build.mode \in {"eager", "rendezvous"}
  BY CoreState
<1>2. /\ Len(pending) \in Nat /\ Len(network) \in Nat /\ Underway \in {0, 1}
      /\ pending # <<>> => Len(pending) # 0
      /\ network # <<>> => Len(network) # 0
      /\ recvBuf \in Nat
  BY <1>1, CoreState DEF TypeOK
<1>3. ASSUME transfer["R"] = "pending"
      PROVE  Len(pending) = 0 /\ Len(network) = 0 /\ Underway = 1
  <2>1. build.mode = "rendezvous" /\ Underway = 1
    BY <1>1, <1>3 DEF SendInv, Underway
  <2> QED
    BY <1>1, <1>2, <2>1 DEF SendInv
<1> QED
  BY <1>1, <1>2, <1>3 DEF CountInv

LEMMA BRecvUses == ASSUME SafeInv, BRecv PROVE Uses \/ Keeps
<1>1. CoreInv /\ TypeOK /\ RecvInv
  BY SafeState
<1>2. /\ pc["R"] = "b_recv" /\ pc' = [pc EXCEPT !["R"] = "started"]
      /\ UNCHANGED op /\ recvBuf = op["R"] - 1 /\ op["R"] \in Nat
  BY <1>1 DEF BRecv, TypeOK, RecvInv, Side
<1>3. /\ \A s \in Side : pc[s] = "idle" <=> pc'[s] = "idle"
      /\ op["R"] = recvBuf + 1 /\ UNCHANGED op
  BY <1>1, <1>2 DEF TypeOK, Side
<1>4. CASE recvBuf' = recvBuf
  BY <1>3, <1>4 DEF Keeps
<1>5. CASE pending # <<>> /\ recvBuf' = recvBuf + 1
  BY <1>1, <1>2, <1>3, <1>5, SentBefore DEF Uses
<1>6. pending # <<>> /\ build.mode = "rendezvous" => sendBuf = recvBuf + 1
  BY <1>1, OneRendezvous
<1>7. pending # <<>> => Head(pending) = recvBuf + 1
  BY <1>1, KeptUsed
<1> QED
  BY <1>4, <1>5, <1>6, <1>7 DEF BRecv, FetchNow, FetchLater

LEMMA IncomingUses == ASSUME SafeInv, Incoming PROVE Uses \/ Keeps
<1>1. CoreInv /\ TypeOK /\ RecvInv /\ ReadyInv /\ recvBuf \in Nat
  BY SafeState DEF TypeOK
<1>2. UNCHANGED <<op, pc>> /\ network # <<>>
  BY DEF Incoming
<1>3. CASE recvBuf' = recvBuf
  BY <1>2, <1>3 DEF Keeps
<1>4. ASSUME ready
      PROVE  pending = <<>> /\ pc["R"] # "idle" /\ op["R"] = recvBuf + 1
  BY <1>1, <1>4 DEF TypeOK, RecvInv, ReadyInv, Side
<1>5. CASE ready /\ recvBuf' = recvBuf + 1
  BY <1>1, <1>2, <1>4, <1>5, SentBefore DEF Uses
<1>6. build.mode = "rendezvous" => sendBuf = recvBuf + 1
  BY <1>1, <1>2, OneRendezvous
<1>7. ready => Head(network) = recvBuf + 1
  <2>1. Head(network) = recvBuf + Len(pending) + 1
    BY <1>1, <1>2, Arrived
  <2> QED
    BY <1>1, <1>4, <2>1
<1> QED
  BY <1>3, <1>5, <1>6, <1>7 DEF Incoming, FetchNow, FetchLater

LEMMA MoveDataUses == ASSUME SafeInv, MoveData PROVE Uses
<1>1. CoreInv /\ TypeOK /\ RecvInv
  BY SafeState
<1>2. op["S"] = recvBuf + 1 /\ sendBuf = recvBuf + 1
  BY <1>1, SentBefore DEF MoveData
<1>3. pc["R"] # "idle" /\ op["R"] = recvBuf + 1
  BY <1>1 DEF MoveData, TypeOK, RecvInv, Side
<1> QED
  BY <1>1, <1>2, <1>3 DEF MoveData, Uses, TypeOK

\* A wait of the receiver that returns has its message; it was used before.
LEMMA RecvCompletes ==
  ASSUME SafeInv, RecvComplete
  PROVE  /\ pc["R"] = "wait" /\ pc' = [pc EXCEPT !["R"] = "idle"]
         /\ UNCHANGED <<op, recvBuf>> /\ recvBuf = op["R"]
<1>1. TypeOK /\ RecvInv /\ SendInv /\ ReadyInv
  BY SafeState
<1> QED
  BY <1>1 DEF RecvComplete, TypeOK, RecvInv, SendInv, ReadyInv, Side

\* The steps of the transport, as the channel sees them.
LEMMA ChannelStep ==
  ASSUME SafeInv, [Next]_vars
  PROVE  [Standard!StandardNext]_(Standard!chanVars)
<1> USE DEF Side, Standard!Side, Standard!StandardNext
<1>1. TypeOK
  BY SafeState
<1>2. op["S"] \in Nat /\ op["R"] \in Nat /\ recvBuf \in Nat
  BY <1>1 DEF TypeOK
<1>3. CASE Keeps
  BY <1>3 DEF Keeps, Standard!chanVars
<1>4. CASE Uses
  <2>1. /\ UNCHANGED [s \in Side |-> op[s] + 1]
        /\ UNCHANGED [s \in Side |-> pc[s] # "idle"]
    BY <1>4 DEF Uses
  <2>2. [s \in Side |-> pc[s] # "idle"]["R"]
    BY <1>4 DEF Uses
  <2>3. /\ [s \in Side |-> op[s] + 1]["R"] = recvBuf + 1 + 1
        /\ [s \in Side |-> op[s] + 1]["S"] >= [s \in Side |-> op[s] + 1]["R"]
        /\ (recvBuf + 1)' = recvBuf + 1 + 1
    BY <1>2, <1>4 DEF Uses
  <2>4. Standard!DeliverKept
    BY <2>1, <2>2, <2>3 DEF Standard!DeliverKept
  <2> QED
    BY <2>4
<1>5. CASE StartSend
  <2>1. Standard!ChanStart("S")
    BY <1>1, <1>5 DEF StartSend, TypeOK, Standard!ChanStart
  <2> QED
    BY <2>1
<1>6. CASE StartRecv
  <2>1. Standard!ChanStart("R")
    BY <1>1, <1>6 DEF StartRecv, TypeOK, Standard!ChanStart
  <2> QED
    BY <2>1
<1>7. CASE SendComplete
  <2>1. Standard!CompleteAnyTime("S")
    BY <1>1, <1>7 DEF SendComplete, TypeOK, Standard!CompleteAnyTime
  <2> QED
    BY <2>1
<1>8. CASE RecvComplete
  <2>1. Standard!CompleteAnyTime("R")
    BY <1>1, <1>8, RecvCompletes DEF TypeOK, Standard!CompleteAnyTime
  <2> QED
    BY <2>1
<1>9. CASE TakeEager \/ WaitSend \/ WaitRecv
  BY <1>1, <1>3, <1>9 DEF TakeEager, WaitSend, WaitRecv, TypeOK, Keeps
<1>10. CASE UNCHANGED vars
  BY <1>3, <1>10 DEF vars, Keeps
<1>11. ~ProgressFromOthers
  BY SafeState DEF ProgressFromOthers
<1> QED
  BY <1>3, <1>4, <1>5, <1>6, <1>7, <1>8, <1>9, <1>10, <1>11,
     BRecvUses, IncomingUses, MoveDataUses DEF Next, Finished

LEMMA ChannelInit == Init => Standard!ChanInit
<1> SUFFICES ASSUME Init PROVE Standard!ChanInit
  OBVIOUS
<1>1. recvBuf + 1 = 1 /\ [s \in Side |-> op[s] + 1] = [s \in Side |-> 1]
  BY DEF Init
<1>2. [s \in Side |-> pc[s] # "idle"] = [s \in Side |-> FALSE]
  BY DEF Init
<1> QED
  BY <1>1, <1>2 DEF Standard!ChanInit, Standard!Side, Side

(***************************************************************************)
(* The transport of a safe build is a channel of messages that may be      *)
(* kept: each of them reaches the buffer of the operation it was sent for, *)
(* once and in order, while that operation of the receiver is active,      *)
(* through the handler, the start or the transfer; the eager wait of the   *)
(* sender returns before it has.                                           *)
(***************************************************************************)
THEOREM StandardImplementation == SafeBuilds => (Spec => Standard!StandardSpec)
<1> SUFFICES ASSUME SafeBuilds PROVE Spec => Standard!StandardSpec
  OBVIOUS
<1>1. SafeInv /\ [Next]_vars => [Standard!StandardNext]_(Standard!chanVars)
  BY ChannelStep
<1> QED
  BY <1>1, ChannelInit, SafeInvariance, PTL DEF Spec, Standard!StandardSpec
=============================================================================
