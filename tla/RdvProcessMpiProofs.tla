------------------------ MODULE RdvProcessMpiProofs --------------------------
(***************************************************************************)
(* The part of MPI's promise that RdvProcess keeps for every application   *)
(* which uses its requests as MPI demands: the wait of a receive returns   *)
(* with the message of its operation, and not before it has been sent.     *)
(*                                                                         *)
(* Each action is shown to keep the invariant of a channel.                *)
(***************************************************************************)
EXTENDS RdvProcessProofs

-----------------------------------------------------------------------------
(* A step of a process goes on in its call, or returns from it.            *)

Moves(p) ==
  /\ UNCHANGED <<deployment, next>> /\ ~Ended(p)
  /\ \E fs, at : /\ stack' = [stack EXCEPT ![p] = fs] /\ Based(fs, Call(p).on, at)
                 /\ Call(p).do = IF at = "post" THEN "start" ELSE "wait"
                 /\ Fits(req', Call(p).on, at)

Returns(p) == Advances(p) /\ stack' = [stack EXCEPT ![p] = <<>>]

CalmElsewhere(p) == \A z \in Requests : OwnerOf(z) # p => Calm(req, req', z)

LEMMA FitsCalm ==
  ASSUME NEW rq, NEW new, NEW r, NEW at, Calm(rq, new, r), Fits(rq, r, at)
  PROVE  Fits(new, r, at)
  BY DEF Calm, Fits, SendPlaces, RecvPlaces, Ordinary

LEMMA FitsPrimed ==
  ASSUME deployment' = deployment, NEW r, NEW at, Fits(req', r, at)
  PROVE  Fits(req, r, at)'
  BY DEF Fits, SideOf

\* Then all processes are where their calls say.
LEMMA PlaceStep ==
  ASSUME TypeInv, PlaceInv, NEW p \in Process, Moves(p) \/ Returns(p), CalmElsewhere(p)
  PROVE  PlaceInv'
<1>1. /\ deployment' = deployment /\ \A q \in Process : Program(q)' = Program(q)
      /\ \A q \in Process \ {p} : stack'[q] = stack[q] /\ next'[q] = next[q]
  BY DEF Moves, Returns, Advances, Program, TypeInv, IInv
<1>2. ASSUME NEW q \in Process, q # p
      PROVE  /\ next'[q] <= Len(Program(q)') + 1
             /\ InCall(q)' =>
                  /\ ~Ended(q)'
                  /\ \A i \in 1 .. Len(stack'[q]) - 1 : stack'[q][i].at = "block"
                  /\ Bottom(q)'.req = Call(q)'.on
                  /\ Call(q)'.do = IF Bottom(q)'.at = "post" THEN "start" ELSE "wait"
                  /\ Fits(req, Bottom(q).req, Bottom(q).at)'
  <2>1. /\ InCall(q)' <=> InCall(q)
        /\ Ended(q)' <=> Ended(q)
        /\ Bottom(q)' = Bottom(q) /\ Call(q)' = Call(q)
    BY <1>1, <1>2 DEF InCall, Ended, Bottom, Call
  <2>2. ASSUME InCall(q) PROVE Fits(req, Bottom(q).req, Bottom(q).at)'
    <3>1. PICK r, at : r = Bottom(q).req /\ at = Bottom(q).at
      OBVIOUS
    <3>2. r \in Requests /\ OwnerOf(r) = q /\ Fits(req, r, at)
      BY <2>2, <3>1, BaseOf
    <3>3. Fits(req, r, at)'
      BY <1>1, <1>2, <3>2, FitsCalm, FitsPrimed DEF CalmElsewhere
    <3>4. r = Bottom(q)'.req /\ at = Bottom(q)'.at
      BY <2>1, <3>1
    <3> QED
      BY <3>3, <3>4 DEF Fits, SideOf
  <2> QED
    BY <1>1, <1>2, <2>1, <2>2 DEF PlaceInv
<1>3. /\ next'[p] <= Len(Program(p)') + 1
      /\ InCall(p)' =>
           /\ ~Ended(p)'
           /\ \A i \in 1 .. Len(stack'[p]) - 1 : stack'[p][i].at = "block"
           /\ Bottom(p)'.req = Call(p)'.on
           /\ Call(p)'.do = IF Bottom(p)'.at = "post" THEN "start" ELSE "wait"
           /\ Fits(req, Bottom(p).req, Bottom(p).at)'
  <2>1. CASE Moves(p)
    <3>1. PICK fs, at : /\ stack' = [stack EXCEPT ![p] = fs] /\ Based(fs, Call(p).on, at)
                        /\ Call(p).do = IF at = "post" THEN "start" ELSE "wait"
                        /\ Fits(req', Call(p).on, at)
      BY <2>1 DEF Moves
    <3>2. PICK r : r = Call(p).on
      OBVIOUS
    <3>3. stack'[p] = fs /\ ~Ended(p)' /\ Call(p)' = Call(p) /\ next'[p] = next[p]
      BY <2>1, <3>1 DEF Moves, TypeInv, Ended, Call, Program
    <3>4. Bottom(p)'.req = r /\ Bottom(p)'.at = at /\ \A i \in 1 .. Len(fs) - 1 : fs[i].at = "block"
      BY <3>1, <3>2, <3>3 DEF Based, Bottom
    <3>5. Fits(req, r, at)'
      BY <1>1, <3>1, <3>2, FitsPrimed
    <3>6. Fits(req, Bottom(p).req, Bottom(p).at)'
      BY <3>4, <3>5 DEF Fits, SideOf
    <3> QED
      BY <1>1, <3>1, <3>2, <3>3, <3>4, <3>6 DEF PlaceInv
  <2>2. CASE Returns(p)
    <3>1. stack'[p] = <<>> /\ next'[p] = next[p] + 1 /\ ~Ended(p)
      BY <2>2 DEF Returns, Advances, TypeInv, IInv
    <3>2. next[p] \in 1 .. Len(Program(p))
      BY <3>1 DEF Ended, TypeInv, IInv
    <3> QED
      BY <1>1, <3>1, <3>2 DEF InCall
  <2> QED
    BY <2>1, <2>2
<1> QED
  BY <1>2, <1>3 DEF PlaceInv

\* What is counted.
Counted(r) == req[r].operation_number = Made(r, "start") + IF r \in Starting THEN 1 ELSE 0

LEMMA CountStep ==
  ASSUME TypeInv, CountInv, NEW p \in Process, Moves(p) \/ Returns(p),
         NEW K, K \subseteq Requests, \A r \in K : Counted(r)',
         Call(p).do = "start" /\ Returns(p) => Call(p).on \in K,
         \A z \in Requests \ K : /\ req'[z].operation_number = req[z].operation_number
                                 /\ z \in Starting' <=> z \in Starting
  PROVE  CountInv'
<1>1. deployment' = deployment /\ Requests' = Requests /\ IInv
  BY DEF Moves, Returns, Advances, Requests, TypeInv
<1>2. ASSUME NEW z \in Requests \ K PROVE Counted(z)'
  <2>1. Made(z, "start")' = Made(z, "start")
    <3>1. CASE Moves(p)
      BY <3>1, MadeSame DEF Moves
    <3>2. CASE Returns(p)
      <4>1. "start" \in Calls \ Collective
        BY DEF Calls, Collective
      <4>2. Made(z, "start") \in Nat /\ Advances(p)
        BY <1>1, <3>2, MadeNat DEF Returns
      <4>3. ~ (Call(p).do = "start" /\ Call(p).on = z)
        BY <3>2
      <4> QED
        BY <1>1, <4>1, <4>2, <4>3, MadeStep
    <3> QED
      BY <3>1, <3>2
  <2>2. /\ req'[z].operation_number = req[z].operation_number
        /\ z \in Starting' <=> z \in Starting
    OBVIOUS
  <2> QED
    BY <2>1, <2>2 DEF Counted, CountInv
<1> QED
  BY <1>1, <1>2 DEF Counted, CountInv

\* The state after a step.
Outcome(p) ==
  /\ Moves(p) \/ Returns(p)
  /\ CalmElsewhere(p)
  /\ CountInv'
  /\ Chans(req', payload', Starting', Settled')

LEMMA ChansPrimed ==
  ASSUME deployment' = deployment, Chans(req', payload', Starting', Settled')
  PROVE  (\A c \in Channels : ChannelInv(c, req, payload, Starting, Settled))'
<1>1. Requests' = Requests /\ Channels' = Channels
  BY DEF Channels, Requests, ChannelOf
<1>2. \A c, s : Ends(c, s)' = Ends(c, s)
  BY <1>1 DEF Ends, ChannelOf, SideOf
<1> SUFFICES ASSUME NEW c \in Channels PROVE ChannelInv(c, req, payload, Starting, Settled)'
  BY <1>1
<1>3. ChannelInv(c, req', payload', Starting', Settled')
  BY DEF Chans
<1> QED
  BY <1>2, <1>3 DEF ChannelInv

\* It has all that the invariant asks for.
LEMMA OutcomeInv ==
  ASSUME MpiInv, NEW p \in Process, Outcome(p), TypeInv'
  PROVE  MpiInv'
<1>1. deployment' = deployment
  BY DEF Outcome, Moves, Returns, Advances
<1>2. PlaceInv'
  BY PlaceStep DEF MpiInv, Outcome
<1>3. (\A c \in Channels : ChannelInv(c, req, payload, Starting, Settled))'
  BY <1>1, ChansPrimed DEF Outcome
<1> QED
  BY <1>2, <1>3 DEF MpiInv, Outcome

-----------------------------------------------------------------------------
(* What is known before a step.                                            *)

LEMMA Known ==
  ASSUME MpiInv
  PROVE  /\ TypeInv /\ PlaceInv /\ CountInv /\ IInv /\ Table(req)
         /\ payload \in [Channels -> Messages] /\ Chans(req, payload, Starting, Settled)
  BY TypeFacts DEF MpiInv, Chans

LEMMA WaitAt ==
  ASSUME UsedInTurn, MpiInv, NEW p \in Process, NEW place, place \notin {"block", "post"},
         At(p, place)
  PROVE  \E r \in Requests :
           /\ r = Call(p).on /\ r = Current(p) /\ OwnerOf(r) = p
           /\ Call(p).do = "wait" /\ ~Ended(p) /\ InCall(p) /\ Bottom(p).at = place
           /\ Fits(req, r, place) /\ r \notin Starting
           /\ r \in Settled <=> place = "fetched"
           /\ \A f : Based(<<f>> \o Tail(stack[p]), f.req, f.at)
<1>1. TypeInv /\ PlaceInv
  BY Known
<1>2. /\ InCall(p) /\ Current(p) = Call(p).on /\ Bottom(p).at = place
      /\ \A f : Based(<<f>> \o Tail(stack[p]), f.req, f.at)
  BY <1>1, AtBase
<1>3. /\ ~Ended(p) /\ Call(p).do = "wait" /\ Call(p).on \in Requests /\ OwnerOf(Call(p).on) = p
      /\ Fits(req, Call(p).on, place)
  BY <1>1, <1>2, BaseOf
<1>4. /\ Call(p).on \notin Starting
      /\ Call(p).on \in Settled <=> place = "fetched"
  BY <1>1, <1>2, <1>3, StatusBefore
<1> QED
  BY <1>2, <1>3, <1>4

\* A wait that returns.
LEMMA WaitStatus ==
  ASSUME UsedInTurn, MpiInv, NEW p \in Process, NEW r \in Requests, r = Call(p).on,
         Call(p).do = "wait", Returns(p)
  PROVE  OthersKept(r) /\ r \notin Starting /\ r \notin Starting' /\ r \in Settled'
<1>1. TypeInv /\ PlaceInv /\ Advances(p) /\ ~Ended(p) /\ stack' = [stack EXCEPT ![p] = <<>>]
  BY Known DEF Returns, Advances
<1> QED
  BY <1>1, StatusBefore, StatusReturns

\* The calls of the other processes do not notice a change of r.
LEMMA OneCalm ==
  ASSUME NEW p, NEW r, OwnerOf(r) = p, \A z \in Requests \ {r} : req'[z] = req[z]
  PROVE  CalmElsewhere(p)
  BY DEF CalmElsewhere, Calm

LEMMA WaitReturns ==
  ASSUME UsedInTurn, MpiInv, NEW p \in Process, NEW r \in Requests, r = Call(p).on,
         Call(p).do = "wait", Returns(p),
         \A z \in Requests : req'[z].operation_number = req[z].operation_number,
         CalmElsewhere(p), Chans(req', payload', Starting', Settled')
  PROVE  Outcome(p)
<1>1. OthersKept(r) /\ r \notin Starting /\ r \notin Starting'
  BY WaitStatus
<1>2. \A z \in Requests : z \in Starting' <=> z \in Starting
  BY <1>1 DEF OthersKept
<1>3. CountInv'
  <2>1. TypeInv /\ CountInv
    BY Known
  <2>2. PICK K : K = {}
    OBVIOUS
  <2> QED
    BY <1>2, <2>1, <2>2, CountStep
<1> QED
  BY <1>3 DEF Outcome

\* Calls that have nothing to do with messages.
LEMMA OtherReturns ==
  ASSUME UsedInTurn, MpiInv, NEW p \in Process, FreeRequest(p) \/ Finalize(p) \/ Barrier(p)
  PROVE  Outcome(p)
<1>1. /\ Returns(p) /\ Call(p).do \notin {"start", "wait"} /\ UNCHANGED <<req, payload>>
      /\ Advances(p) /\ stack' = [stack EXCEPT ![p] = <<>>]
  BY DEF FreeRequest, Finalize, Barrier, Calling, Return, Returns, Advances
<1>2. TypeInv /\ PlaceInv /\ CountInv /\ Chans(req, payload, Starting, Settled) /\ Table(req)
  BY Known
<1>3. \A z \in Requests : (z \in Starting' <=> z \in Starting) /\ (z \in Settled' <=> z \in Settled)
  BY <1>1, <1>2, StatusReturns
<1>4. CalmElsewhere(p)
  BY <1>1 DEF CalmElsewhere, Calm
<1>5. CountInv'
  <2>1. PICK K : K = {}
    OBVIOUS
  <2> QED
    BY <1>1, <1>2, <1>3, <2>1, CountStep
<1>6. \A z \in Requests : /\ Same(req[z], req[z])
                          /\ SameStatus(z, Starting, Starting', Settled, Settled')
  BY <1>3 DEF Same, SameCalls, SameFlags, SameStatus
<1>7. Chans(req, payload, Starting', Settled')
  BY <1>2, <1>6, NoneChanged
<1> QED
  BY <1>1, <1>4, <1>5, <1>7 DEF Outcome

\* The end of a send operation,
LEMMA SendWaits ==
  ASSUME OneRequestPerSide, UsedInTurn, MpiInv, NEW p \in Process, NEW r \in Requests,
         r = Call(p).on, OwnerOf(r) = p, SideOf(r) = "S", Call(p).do = "wait", r \notin Settled,
         Returns(p), payload' = payload, \A z \in Requests \ {r} : req'[z] = req[z],
         req'[r].operation_number = req[r].operation_number,
         SendInv(req[r], FALSE, FALSE) => SendInv(req'[r], FALSE, TRUE),
         \A y \in Ends(ChannelOf(r), "R") :
           /\ SendInv(req[r], FALSE, FALSE)
           /\ PairInv(req[r], req[y], payload[ChannelOf(r)], FALSE, FALSE) /\ FlagInv(req[r], req[y])
           => PairInv(req'[r], req[y], payload[ChannelOf(r)], FALSE, TRUE) /\ FlagInv(req'[r], req[y])
  PROVE  Outcome(p)
<1> DEFINE c == ChannelOf(r)
<1>1. PICK no, yes : no = FALSE /\ yes = TRUE
  OBVIOUS
<1>2. OthersKept(r) /\ r \notin Starting /\ r \notin Starting' /\ r \in Settled'
  BY WaitStatus
<1>3. IInv /\ Chans(req, payload, Starting, Settled)
  BY Known
<1>4. Status(r, Starting, Settled, no, no) /\ Status(r, Starting', Settled', no, yes)
  BY <1>1, <1>2, StatusIs
<1>5. SendInv(req[r], no, no)
  BY <1>3, <1>4, SendEnd
<1>6. \A y \in Ends(c, "R") : PairInv(req[r], req[y], payload[c], no, no) /\ FlagInv(req[r], req[y])
  BY <1>3, <1>4, SendEnd
<1>7. SendInv(req[r], FALSE, FALSE)
  BY <1>1, <1>5
<1>8. SendInv(req'[r], no, yes)
  BY <1>1, <1>7
<1>9. ASSUME NEW y \in Ends(c, "R")
      PROVE  PairInv(req'[r], req[y], payload[c], no, yes) /\ FlagInv(req'[r], req[y])
  <2>1. PairInv(req[r], req[y], payload[c], FALSE, FALSE) /\ FlagInv(req[r], req[y])
    BY <1>1, <1>6
  <2>2. PairInv(req'[r], req[y], payload[c], FALSE, TRUE) /\ FlagInv(req'[r], req[y])
    BY <1>7, <2>1
  <2> QED
    BY <1>1, <2>2
<1>10. \A z \in Requests \ {r} : /\ req'[z] = req[z]
                                 /\ SameStatus(z, Starting, Starting', Settled, Settled')
  BY <1>2 DEF OthersKept, SameStatus
<1>11. \A i \in 1 .. Len(payload[c]) : payload[c][i].from \in Ends(c, "S")
  BY <1>3, RequestsTyped DEF Chans, ChannelInv
<1>12. \A y \in Ends(c, "R") : \A sy, dy :
         RecvInv(req[y], payload[c], sy, dy) =>
           /\ RecvInv(req[y], payload[c], sy, dy)
           /\ PairInv(req'[r], req[y], payload[c], no, yes) /\ FlagInv(req'[r], req[y])
  BY <1>9
<1>13. Chans(req', payload, Starting', Settled')
  BY <1>3, <1>4, <1>8, <1>10, <1>11, <1>12, SendChanged
<1>14. CalmElsewhere(p)
  BY OneCalm
<1> QED
  BY <1>13, <1>14, WaitReturns

\* ... and that of a receive operation.
LEMMA RecvWaits ==
  ASSUME OneRequestPerSide, UsedInTurn, MpiInv, NEW p \in Process, NEW r \in Requests,
         r = Call(p).on, OwnerOf(r) = p, SideOf(r) = "R", Call(p).do = "wait",
         NEW dr \in BOOLEAN, r \in Settled <=> dr,
         Returns(p), payload' = payload, \A z \in Requests \ {r} : req'[z] = req[z],
         req'[r].operation_number = req[r].operation_number, req'[r].buf = req[r].buf,
         req'[r].flag = req[r].flag,
         RecvInv(req[r], payload[ChannelOf(r)], FALSE, dr) =>
           RecvInv(req'[r], payload[ChannelOf(r)], FALSE, TRUE),
         \A x \in Ends(ChannelOf(r), "S") : \A sx, dx :
           /\ RecvInv(req[r], payload[ChannelOf(r)], FALSE, dr)
           /\ PairInv(req[x], req[r], payload[ChannelOf(r)], sx, dx) /\ FlagInv(req[x], req[r])
           => PairInv(req[x], req'[r], payload[ChannelOf(r)], sx, dx) /\ FlagInv(req[x], req'[r])
  PROVE  Outcome(p)
<1> DEFINE c == ChannelOf(r)
<1>1. PICK no, yes : no = FALSE /\ yes = TRUE
  OBVIOUS
<1>2. OthersKept(r) /\ r \notin Starting /\ r \notin Starting' /\ r \in Settled'
  BY WaitStatus
<1>3. IInv /\ Chans(req, payload, Starting, Settled)
  BY Known
<1>4. Status(r, Starting, Settled, no, dr) /\ Status(r, Starting', Settled', no, yes)
  BY <1>1, <1>2, StatusIs
<1>5. RecvInv(req[r], payload[c], no, dr)
  BY <1>3, <1>4, RecvEnd
<1>6. RecvInv(req[r], payload[c], FALSE, dr)
  BY <1>1, <1>5
<1>7. RecvInv(req'[r], payload[c], no, yes)
  BY <1>1, <1>6
<1>8. Ends(c, "S") = {} => req'[r].buf = 0 /\ req'[r].flag = 0
  BY <1>3, <1>4, RecvEnd
<1>9. \A z \in Requests \ {r} : /\ req'[z] = req[z]
                                /\ SameStatus(z, Starting, Starting', Settled, Settled')
  BY <1>2 DEF OthersKept, SameStatus
<1>10. \A x \in Ends(c, "S") : \A sx, dx :
         /\ SendInv(req[x], sx, dx)
         /\ PairInv(req[x], req[r], payload[c], sx, dx) /\ FlagInv(req[x], req[r])
         => PairInv(req[x], req'[r], payload[c], sx, dx) /\ FlagInv(req[x], req'[r])
  BY <1>6
<1>11. Chans(req', payload, Starting', Settled')
  BY <1>3, <1>4, <1>7, <1>8, <1>9, <1>10, RecvChanged
<1>12. CalmElsewhere(p)
  BY OneCalm
<1> QED
  BY <1>11, <1>12, WaitReturns

\* The actions in which a wait returns, one after the other.
LEMMA WaitSendEnds ==
  ASSUME OneRequestPerSide, UsedInTurn, MpiInv, Table(req'), NEW p \in Process, WaitSendEnd(p)
  PROVE  Outcome(p)
<1>1. At(p, "sent") /\ Return(p) /\ UNCHANGED <<deployment, payload>>
  BY DEF WaitSendEnd
<1>2. PICK r \in Requests :
        /\ r = Call(p).on /\ r = Current(p) /\ OwnerOf(r) = p /\ Call(p).do = "wait"
        /\ ~Ended(p) /\ Fits(req, r, "sent") /\ r \notin Settled
  BY <1>1, WaitAt
<1>3. Returns(p)
  BY <1>1, <1>2 DEF Return, Returns, Advances
<1>4. Table(req)
  BY Known
<1>5. req' = [req EXCEPT ![r].type = IF @ = "rdma" THEN @ ELSE "fallback"]
  BY <1>2 DEF WaitSendEnd
<1>6. /\ SideOf(r) = "S" /\ req[r].type \in {"search", "rdma"} /\ req[r].operation_number = 1
      /\ req[r].backup # "pending"
  BY <1>2 DEF Fits, SendPlaces, RecvPlaces
<1>7. /\ \A z \in Requests \ {r} : req'[z] = req[z]
      /\ req'[r] = [req[r] EXCEPT !.type = IF @ = "rdma" THEN @ ELSE "fallback"]
  BY <1>4, <1>5 DEF Table
<1>8. /\ req'[r].type = IF req[r].type = "rdma" THEN "rdma" ELSE "fallback"
      /\ req'[r].operation_number = req[r].operation_number /\ req'[r].buf = req[r].buf
      /\ req'[r].backup = req[r].backup /\ SameFlags(req[r], req'[r])
  BY <1>4, <1>7, FieldsTyped DEF MPIOPT_Request, SameFlags
<1>9. /\ req'[r].type \in {req[r].type, "rdma"} \/ (req'[r].type = "fallback" /\ req[r].type = "search")
      /\ req'[r].type \in {"rdma", "fallback"}
      /\ req'[r].type = "fallback" => req[r].type # "rdma"
  BY <1>6, <1>8
<1>10. Rec(req[r]) /\ Rec(req'[r])
  BY <1>4, RecOf
<1>11. SendInv(req[r], FALSE, FALSE) => SendInv(req'[r], FALSE, TRUE)
  BY <1>6, <1>8, <1>9, <1>10, SendDecides
<1>12. ASSUME NEW y \in Ends(ChannelOf(r), "R"), SendInv(req[r], FALSE, FALSE),
              PairInv(req[r], req[y], payload[ChannelOf(r)], FALSE, FALSE), FlagInv(req[r], req[y])
       PROVE  PairInv(req'[r], req[y], payload[ChannelOf(r)], FALSE, TRUE) /\ FlagInv(req'[r], req[y])
  <2>1. Rec(req[y])
    BY <1>4, RecOf DEF Ends
  <2> QED
    BY <1>6, <1>8, <1>9, <1>10, <1>12, <2>1, SendDecides
<1> QED
  BY <1>1, <1>2, <1>3, <1>6, <1>7, <1>8, <1>11, <1>12, SendWaits

LEMMA WaitRecvEnds ==
  ASSUME OneRequestPerSide, UsedInTurn, MpiInv, NEW p \in Process, WaitRecvEnd(p)
  PROVE  Outcome(p)
<1>1. At(p, "received") /\ Return(p) /\ UNCHANGED <<deployment, req, payload>>
  BY DEF WaitRecvEnd
<1>2. PICK r \in Requests :
        /\ r = Call(p).on /\ r = Current(p) /\ OwnerOf(r) = p /\ Call(p).do = "wait"
        /\ ~Ended(p) /\ Fits(req, r, "received") /\ r \notin Settled
  BY <1>1, WaitAt
<1>3. Returns(p)
  BY <1>1, <1>2 DEF Return, Returns, Advances
<1>4. PICK y : y = req[r]
  OBVIOUS
<1>5. /\ SideOf(r) = "R" /\ y.type \in {"rdma", "fallback"} /\ y.operation_number = 1
      /\ y.backup # "pending"
  BY <1>2, <1>4 DEF Fits, SendPlaces, RecvPlaces
<1>6. Rec(y) /\ Messaging(y) /\ SameFlags(y, y) /\ req'[r] = y
  BY <1>1, <1>4, <1>5, Known, RecOf DEF Messaging, SameFlags
<1>7. PICK no \in BOOLEAN : no = FALSE
  OBVIOUS
<1>8. RecvInv(y, payload[ChannelOf(r)], FALSE, no) => RecvInv(y, payload[ChannelOf(r)], FALSE, TRUE)
  BY <1>5, <1>6, RecvCompletes
<1>9. \A x \in Ends(ChannelOf(r), "S") : \A sx, dx :
        /\ RecvInv(y, payload[ChannelOf(r)], FALSE, no)
        /\ PairInv(req[x], y, payload[ChannelOf(r)], sx, dx) /\ FlagInv(req[x], y)
        => PairInv(req[x], y, payload[ChannelOf(r)], sx, dx) /\ FlagInv(req[x], y)
  OBVIOUS
<1>10. r \in Settled <=> no
  BY <1>2, <1>7
<1>11. \A z \in Requests \ {r} : req'[z] = req[z]
  BY <1>1
<1>12. /\ req'[r].operation_number = req[r].operation_number /\ req'[r].buf = req[r].buf
       /\ req'[r].flag = req[r].flag
  BY <1>1
<1>13. RecvInv(req[r], payload[ChannelOf(r)], FALSE, no) => RecvInv(req'[r], payload[ChannelOf(r)], FALSE, TRUE)
  BY <1>4, <1>6, <1>8
<1>14. \A x \in Ends(ChannelOf(r), "S") : \A sx, dx :
        /\ RecvInv(req[r], payload[ChannelOf(r)], FALSE, no)
        /\ PairInv(req[x], req[r], payload[ChannelOf(r)], sx, dx) /\ FlagInv(req[x], req[r])
        => PairInv(req[x], req'[r], payload[ChannelOf(r)], sx, dx) /\ FlagInv(req[x], req'[r])
  BY <1>4, <1>6, <1>9
<1> QED
  BY <1>1, <1>2, <1>3, <1>5, <1>10, <1>11, <1>12, <1>13, <1>14, RecvWaits

LEMMA WaitFetches ==
  ASSUME OneRequestPerSide, UsedInTurn, MpiInv, NEW p \in Process, WaitFetched(p)
  PROVE  Outcome(p)
<1>1. At(p, "fetched") /\ Return(p) /\ UNCHANGED <<deployment, req, payload>>
  BY DEF WaitFetched
<1>2. PICK r \in Requests :
        /\ r = Call(p).on /\ r = Current(p) /\ OwnerOf(r) = p /\ Call(p).do = "wait"
        /\ ~Ended(p) /\ Fits(req, r, "fetched") /\ r \in Settled
  BY <1>1, WaitAt
<1>3. Returns(p)
  BY <1>1, <1>2 DEF Return, Returns, Advances
<1>4. SideOf(r) = "R"
  BY <1>2 DEF Fits, SendPlaces, RecvPlaces
<1>5. PICK yes \in BOOLEAN : yes = TRUE
  OBVIOUS
<1>6. r \in Settled <=> yes
  BY <1>2, <1>5
<1>7. /\ \A z \in Requests \ {r} : req'[z] = req[z]
      /\ req'[r].operation_number = req[r].operation_number /\ req'[r].buf = req[r].buf
      /\ req'[r].flag = req[r].flag
  BY <1>1
<1>8. RecvInv(req[r], payload[ChannelOf(r)], FALSE, yes) => RecvInv(req'[r], payload[ChannelOf(r)], FALSE, TRUE)
  BY <1>1, <1>5
<1>9. \A x \in Ends(ChannelOf(r), "S") : \A sx, dx :
        /\ RecvInv(req[r], payload[ChannelOf(r)], FALSE, yes)
        /\ PairInv(req[x], req[r], payload[ChannelOf(r)], sx, dx) /\ FlagInv(req[x], req[r])
        => PairInv(req[x], req'[r], payload[ChannelOf(r)], sx, dx) /\ FlagInv(req[x], req'[r])
  BY <1>1
<1> QED
  BY <1>1, <1>2, <1>3, <1>4, <1>6, <1>7, <1>8, <1>9, RecvWaits

\* The flag that ends a wait tells that the message is there.
LEMMA SendFlagged ==
  ASSUME NEW x, NEW y, NEW msgs, Rec(x), Rec(y), x.type = "rdma",
         x.flag >= 2 * x.operation_number + 2
  PROVE  /\ SendInv(x, FALSE, FALSE) => SendInv(x, FALSE, TRUE)
         /\ PairInv(x, y, msgs, FALSE, FALSE) /\ FlagInv(x, y) => PairInv(x, y, msgs, FALSE, TRUE)
<1>1. SendInv(x, FALSE, FALSE) => SendInv(x, FALSE, TRUE)
  BY DEF SendInv, EndInv
<1>2. x.operation_number \in Nat /\ x.flag \in Nat /\ y.buf \in Nat
  BY DEF Rec
<1>3. ASSUME FlagInv(x, y) PROVE x.operation_number <= y.buf
  <2>1. x.flag \in ToldByRecv(y.buf, y.operation_number)
    BY <1>3 DEF FlagInv
  <2> QED
    BY <1>2, <2>1 DEF ToldByRecv
<1>4. PairInv(x, y, msgs, FALSE, FALSE) /\ FlagInv(x, y) => PairInv(x, y, msgs, FALSE, TRUE)
  BY <1>3 DEF PairInv
<1> QED
  BY <1>1, <1>4

LEMMA RecvFlagged ==
  ASSUME NEW x, NEW y, NEW msgs, Rec(x), Rec(y), y.type = "rdma",
         y.flag >= 2 * y.operation_number + 2, FlagInv(x, y), RecvInv(y, msgs, FALSE, FALSE)
  PROVE  RecvInv(y, msgs, FALSE, TRUE)
<1>1. y.operation_number \in Nat /\ y.flag \in Nat /\ y.buf \in Nat
  BY DEF Rec
<1>2. y.flag \in ToldBySend(y.buf, x.operation_number)
  BY DEF FlagInv
<1>3. y.operation_number \in {y.buf, y.buf + 1}
  BY DEF RecvInv
<1>4. y.operation_number = y.buf
  BY <1>1, <1>2, <1>3 DEF ToldByRecv, ToldBySend
<1> QED
  BY <1>4 DEF RecvInv, EndInv

LEMMA WaitFlagEnds ==
  ASSUME OneRequestPerSide, UsedInTurn, MpiInv, NEW p \in Process, WaitFlagEnd(p)
  PROVE  Outcome(p)
<1>1. At(p, "flag") /\ Return(p) /\ UNCHANGED <<deployment, req, payload>>
  BY DEF WaitFlagEnd
<1>2. PICK r \in Requests :
        /\ r = Call(p).on /\ r = Current(p) /\ OwnerOf(r) = p /\ Call(p).do = "wait"
        /\ ~Ended(p) /\ Fits(req, r, "flag") /\ r \notin Settled /\ r \notin Starting
  BY <1>1, WaitAt
<1>3. Returns(p)
  BY <1>1, <1>2 DEF Return, Returns, Advances
<1>4. req[r].type = "rdma"
  BY <1>2 DEF Fits, SendPlaces, RecvPlaces
<1>5. req[r].flag >= 2 * req[r].operation_number + 2
  BY <1>2 DEF WaitFlagEnd, DoneFlag
<1>6. /\ \A z \in Requests \ {r} : req'[z] = req[z]
      /\ req'[r].operation_number = req[r].operation_number /\ req'[r].buf = req[r].buf
      /\ req'[r].flag = req[r].flag
  BY <1>1
<1>7. IInv /\ Table(req) /\ Chans(req, payload, Starting, Settled)
  BY Known
<1>8. Rec(req[r])
  BY <1>7, RecOf
<1>9. CASE SideOf(r) = "S"
  <2>1. SendInv(req[r], FALSE, FALSE) => SendInv(req'[r], FALSE, TRUE)
    <3>1. PICK x : x = req[r] /\ x = req'[r] /\ x.type = "rdma"
      BY <1>1, <1>4
    <3>2. SendInv(x, FALSE, FALSE) => SendInv(x, FALSE, TRUE)
      BY <3>1 DEF SendInv, EndInv
    <3> QED
      BY <3>1, <3>2
  <2>2. ASSUME NEW y \in Ends(ChannelOf(r), "R"),
               PairInv(req[r], req[y], payload[ChannelOf(r)], FALSE, FALSE), FlagInv(req[r], req[y])
        PROVE  PairInv(req'[r], req[y], payload[ChannelOf(r)], FALSE, TRUE) /\ FlagInv(req'[r], req[y])
    <3>1. Rec(req[y])
      BY <1>7, RecOf DEF Ends
    <3> QED
      BY <1>1, <1>4, <1>5, <1>8, <2>2, <3>1, SendFlagged
  <2> QED
    BY <1>1, <1>2, <1>3, <1>6, <1>9, <2>1, <2>2, SendWaits
<1>10. CASE SideOf(r) = "R"
  <2>1. PICK no \in BOOLEAN : no = FALSE
    OBVIOUS
  <2>2. r \in Settled <=> no
    BY <1>2, <2>1
  <2>3. Status(r, Starting, Settled, no, no)
    BY <1>2, <2>1, StatusIs
  <2>4. PICK x \in Ends(ChannelOf(r), "S") : TRUE
    <3>1. Ends(ChannelOf(r), "S") = {} => req[r].flag = 0
      BY <1>7, <1>10, <2>3, RecvEnd
    <3>2. req[r].flag # 0
      BY <1>5, <1>8 DEF Rec
    <3> QED
      BY <3>1, <3>2
  <2>5. Rec(req[x]) /\ FlagInv(req[x], req[r])
    <3>1. x \in Requests /\ SideOf(x) = "S" /\ ChannelOf(x) = ChannelOf(r) /\ r \in Ends(ChannelOf(x), "R")
      BY <1>10 DEF Ends
    <3>2. PICK sx, dx : sx = (x \in Starting) /\ dx = (x \in Settled)
      OBVIOUS
    <3>3. Status(x, Starting, Settled, sx, dx)
      BY <3>2 DEF Status
    <3> QED
      BY <1>7, <3>1, <3>3, SendEnd, RecOf
  <2>6. RecvInv(req[r], payload[ChannelOf(r)], FALSE, no) => RecvInv(req'[r], payload[ChannelOf(r)], FALSE, TRUE)
    BY <1>1, <1>4, <1>5, <1>8, <2>1, <2>5, RecvFlagged
  <2>7. \A z \in Ends(ChannelOf(r), "S") : \A sx, dx :
          /\ RecvInv(req[r], payload[ChannelOf(r)], FALSE, no)
          /\ PairInv(req[z], req[r], payload[ChannelOf(r)], sx, dx) /\ FlagInv(req[z], req[r])
          => PairInv(req[z], req'[r], payload[ChannelOf(r)], sx, dx) /\ FlagInv(req[z], req'[r])
    BY <1>1
  <2> QED
    BY <1>1, <1>2, <1>3, <1>6, <1>10, <2>2, <2>6, <2>7, RecvWaits
<1>11. SideOf(r) \in {"S", "R"}
  BY <1>7, RequestsTyped DEF Side
<1> QED
  BY <1>9, <1>10, <1>11

LEMMA WaitOrdinaryEnds ==
  ASSUME OneRequestPerSide, UsedInTurn, MpiInv, Table(req'), NEW p \in Process, WaitOrdinary(p)
  PROVE  Outcome(p)
<1>1. At(p, "mpi_wait") /\ Return(p) /\ UNCHANGED <<deployment, payload>>
  BY DEF WaitOrdinary
<1>2. PICK r \in Requests :
        /\ r = Call(p).on /\ r = Current(p) /\ OwnerOf(r) = p /\ Call(p).do = "wait"
        /\ ~Ended(p) /\ Fits(req, r, "mpi_wait") /\ r \notin Settled
  BY <1>1, WaitAt
<1>3. Returns(p)
  BY <1>1, <1>2 DEF Return, Returns, Advances
<1>4. IInv /\ Table(req)
  BY Known
<1>5. req' = [req EXCEPT ![r].backup = "null"] /\ req[r].backup # "pending"
  BY <1>2 DEF WaitOrdinary
<1>6. req[r].type \in Ordinary
  BY <1>2 DEF Fits, SendPlaces, RecvPlaces
<1>7. /\ \A z \in Requests \ {r} : req'[z] = req[z]
      /\ req'[r] = [req[r] EXCEPT !.backup = "null"]
  BY <1>4, <1>5 DEF Table
<1>8. /\ req'[r].type = req[r].type /\ req'[r].operation_number = req[r].operation_number
      /\ req'[r].buf = req[r].buf /\ req'[r].backup = "null" /\ SameFlags(req[r], req'[r])
      /\ req'[r].flag = req[r].flag
  BY <1>4, <1>7, FieldsTyped DEF MPIOPT_Request, SameFlags
<1>9. Rec(req[r]) /\ Rec(req'[r])
  BY <1>4, RecOf
<1>10. req'[r].backup = "pending" <=> req[r].backup = "pending"
  BY <1>5, <1>8
<1>11. CASE SideOf(r) = "S"
  <2>1. SendInv(req[r], FALSE, FALSE) => SendInv(req'[r], FALSE, TRUE)
    BY <1>6, <1>8, <1>9, SendCompletes
  <2>2. ASSUME NEW y \in Ends(ChannelOf(r), "R"), SendInv(req[r], FALSE, FALSE),
               PairInv(req[r], req[y], payload[ChannelOf(r)], FALSE, FALSE), FlagInv(req[r], req[y])
        PROVE  PairInv(req'[r], req[y], payload[ChannelOf(r)], FALSE, TRUE) /\ FlagInv(req'[r], req[y])
    <3>1. Rec(req[y])
      BY <1>4, RecOf DEF Ends
    <3> QED
      BY <1>6, <1>8, <1>9, <2>2, <3>1, SendCompletes
  <2> QED
    BY <1>1, <1>2, <1>3, <1>7, <1>8, <1>11, <2>1, <2>2, SendWaits
<1>12. CASE SideOf(r) = "R"
  <2>1. PICK no \in BOOLEAN : no = FALSE
    OBVIOUS
  <2>2. r \in Settled <=> no
    BY <1>2, <2>1
  <2>3. req[r].type \in {"rdma", "fallback", "plain"} /\ Messaging(req[r])
    BY <1>6 DEF Ordinary, Messaging
  <2>4. RecvInv(req[r], payload[ChannelOf(r)], FALSE, no) => RecvInv(req'[r], payload[ChannelOf(r)], FALSE, TRUE)
    BY <1>5, <1>8, <1>9, <1>10, <2>3, RecvCompletes
  <2>5. ASSUME NEW x \in Ends(ChannelOf(r), "S"), NEW sx, NEW dx,
               RecvInv(req[r], payload[ChannelOf(r)], FALSE, no),
               PairInv(req[x], req[r], payload[ChannelOf(r)], sx, dx), FlagInv(req[x], req[r])
        PROVE  PairInv(req[x], req'[r], payload[ChannelOf(r)], sx, dx) /\ FlagInv(req[x], req'[r])
    <3>1. Rec(req[x])
      BY <1>4, RecOf DEF Ends
    <3> QED
      BY <1>5, <1>8, <1>9, <1>10, <2>3, <2>5, <3>1, RecvCompletes
  <2> QED
    BY <1>1, <1>2, <1>3, <1>7, <1>8, <1>12, <2>2, <2>4, <2>5, RecvWaits
<1>13. SideOf(r) \in {"S", "R"}
  BY <1>4, RequestsTyped DEF Side
<1> QED
  BY <1>11, <1>12, <1>13

-----------------------------------------------------------------------------
(* Starts.                                                                 *)

\* With one request per side, the starts of the side are those of the request.
LEMMA StartedMade ==
  ASSUME OneRequestPerSide, IInv, PlaceInv, NEW r \in Requests
  PROVE  Started(ChannelOf(r), SideOf(r)) = Made(r, "start")
<1> DEFINE p == OwnerOf(r)
<1>1. p \in Process /\ next[p] <= Len(Program(p)) + 1 /\ next[p] \in Nat
  BY OwnerTyped DEF PlaceInv, IInv
<1>2. deployment \in Deployments /\ Len(Program(p)) \in Nat
  BY DeploymentsAssumption, <1>1 DEF IInv, Program
<1>3. ASSUME NEW i \in 1 .. next[p] - 1, Program(p)[i].do = "start"
      PROVE  SideOf(Program(p)[i].on) = SideOf(r) /\ ChannelOf(Program(p)[i].on) = ChannelOf(r)
               <=> Program(p)[i].on = r
  <2>1. i \in 1 .. Len(Program(p))
    BY <1>1, <1>2
  <2>2. Program(p)[i].on \in DOMAIN deployment.requests
    BY <1>1, <1>2, <1>3, <2>1, DeploymentsAssumption DEF Program, Collective
  <2> QED
    BY <1>2, <2>2 DEF OneRequestPerSide, SideOf, ChannelOf, Requests
<1>4. {i \in 1 .. next[p] - 1 :
         LET call == Program(p)[i] IN
         /\ call.do = "start"
         /\ SideOf(call.on) = SideOf(r) /\ ChannelOf(call.on) = ChannelOf(r)}
      = {j \in 1 .. next[p] - 1 : Program(p)[j].do = "start" /\ Program(p)[j].on = r}
  BY <1>3
<1> QED
  BY <1>4 DEF Started, Made, Times, OwnerOf, Program, ChannelOf, SideOf

\* A start that returns.
LEMMA StartReturns ==
  ASSUME UsedInTurn, MpiInv, NEW p \in Process, NEW r \in Requests, r = Call(p).on,
         Call(p).do = "start", Returns(p)
  PROVE  /\ OthersKept(r) /\ r \notin Starting' /\ r \notin Settled'
         /\ /\ req'[r].operation_number = Made(r, "start") + 1
            /\ \A z \in Requests \ {r} : req'[z].operation_number = req[z].operation_number
            /\ CalmElsewhere(p) /\ Chans(req', payload', Starting', Settled')
            => Outcome(p)
<1>1. TypeInv /\ PlaceInv /\ CountInv /\ IInv /\ Advances(p) /\ stack' = [stack EXCEPT ![p] = <<>>]
  BY Known DEF Returns
<1>2. OthersKept(r) /\ r \notin Starting' /\ r \notin Settled'
  BY <1>1, StatusReturns
<1>3. ASSUME req'[r].operation_number = Made(r, "start") + 1,
             \A z \in Requests \ {r} : req'[z].operation_number = req[z].operation_number
      PROVE  CountInv'
  <2>1. PICK K : K = {r}
    OBVIOUS
  <2>2. Made(r, "start")' = Made(r, "start") + 1
    BY <1>1, MadeStep DEF Calls, Collective
  <2>3. Made(r, "start") \in Nat
    BY <1>1, MadeNat
  <2>4. Counted(r)'
    BY <1>2, <1>3, <2>2, <2>3 DEF Counted
  <2>5. \A z \in Requests \ K : /\ req'[z].operation_number = req[z].operation_number
                                /\ z \in Starting' <=> z \in Starting
    BY <1>2, <1>3, <2>1 DEF OthersKept
  <2>6. K \subseteq Requests /\ Call(p).on \in K /\ \A z \in K : Counted(z)'
    BY <2>1, <2>4 DEF Counted
  <2> QED
    BY <1>1, <2>5, <2>6, CountStep
<1> QED
  BY <1>2, <1>3 DEF Outcome

\* The first start of a sender ends with its message being sent.
LEMMA PostFirsts ==
  ASSUME OneRequestPerSide, UsedInTurn, MpiInv, Table(req'), NEW p \in Process, PostFirst(p)
  PROVE  Outcome(p)
<1>1. At(p, "post") /\ Return(p) /\ deployment' = deployment
  BY DEF PostFirst
<1>2. TypeInv /\ PlaceInv /\ CountInv /\ IInv /\ Table(req) /\ payload \in [Channels -> Messages]
      /\ Chans(req, payload, Starting, Settled)
  BY Known
<1>3. PICK r : r = Current(p) /\ r = Call(p).on
  BY <1>1, <1>2, AtBase
<1>4. /\ r \in Requests /\ OwnerOf(r) = p /\ ~Ended(p) /\ Call(p).do = "start"
      /\ Fits(req, r, "post") /\ InCall(p) /\ Bottom(p).at = "post"
  BY <1>1, <1>2, <1>3, AtBase, BaseOf
<1>5. r \in Starting /\ r \notin Settled
  BY <1>2, <1>3, <1>4, StatusBefore
<1>6. Returns(p)
  BY <1>1, <1>4 DEF Return, Returns, Advances
<1>7. OthersKept(r) /\ r \notin Starting' /\ r \notin Settled'
  BY <1>3, <1>4, <1>6, StartReturns
<1>8. req[r].type = "search" /\ req[r].operation_number = 1
  BY <1>4 DEF Fits, SendPlaces, RecvPlaces
<1>9. req[r].operation_number = Made(r, "start") + 1
  BY <1>2, <1>4, <1>5 DEF CountInv
<1>10. PICK no, yes : no = FALSE /\ yes = TRUE
  OBVIOUS
<1>11. Status(r, Starting, Settled, yes, no) /\ Status(r, Starting', Settled', no, no)
  BY <1>5, <1>7, <1>10, StatusIs
<1>12. SideOf(r) \in {"S", "R"} /\ Rec(req[r])
  BY <1>2, <1>4, RequestsTyped, RecOf DEF Side
<1>13. \A z \in Requests \ {r} : /\ req[z] = req[z]
                                 /\ SameStatus(z, Starting, Starting', Settled, Settled')
  BY <1>7 DEF OthersKept, SameStatus
<1>14. /\ Chans(req', payload', Starting', Settled')
       /\ \A z \in Requests \ {r} : Calm(req, req', z)
       /\ req'[r].operation_number = req[r].operation_number
  <2>1. CASE SideOf(r) = "S"
    <3>1. PostSend(req, r, TRUE)
      BY <1>3, <2>1 DEF PostFirst
    <3>2. PICK sync : sync = TRUE
      OBVIOUS
    <3>3. SendInv(req[r], yes, no)
      BY <1>2, <1>4, <1>11, <2>1, SendEnd
    <3>4. Sends(req[r], req[r], yes)
      BY <1>10, <3>3 DEF Sends, SendInv, SameFlags
    <3>5. PostSend(req, r, sync) /\ (req[r].type = "search" => sync)
      BY <3>1, <3>2
    <3>6. Status(r, Starting', Settled', FALSE, FALSE)
      BY <1>10, <1>11
    <3>7. Chans(req', payload', Starting', Settled')
      BY <1>2, <1>4, <1>7, <1>11, <2>1, <3>4, <3>5, <3>6, PostSendChans
    <3> QED
      BY <1>2, <1>4, <2>1, <3>5, <3>7, PostSendCalm
  <2>2. CASE SideOf(r) = "R"
    <3>1. RecvInv(req[r], payload[ChannelOf(r)], yes, no)
      BY <1>2, <1>4, <1>11, <2>2, RecvEnd
    <3>2. CASE req[r].backup = "null" /\ PostRecv(req, r)
      <4>1. Takes(req[r], req[r])
        BY <1>8, <1>12, <3>1, <3>2 DEF Takes, RecvInv, Awaiting, Messaging, SameFlags, Rec
      <4>2. no => req[r].type = "search"
        BY <1>10
      <4>3. Chans(req', payload', Starting', Settled')
        BY <1>2, <1>4, <1>10, <1>11, <1>13, <2>2, <3>2, <4>1, <4>2, PostRecvChans
      <4> QED
        BY <1>2, <1>4, <2>2, <3>2, <4>3, PostRecvCalm
    <3>3. CASE UNCHANGED <<req, payload>>
      <4>1. RecvInv(req[r], payload[ChannelOf(r)], no, no)
        BY <1>8, <1>10, <3>1 DEF RecvInv, EndInv
      <4>2. Ends(ChannelOf(r), "S") = {} => req[r].buf = 0 /\ req[r].flag = 0
        BY <1>2, <1>4, <1>11, <2>2, RecvEnd
      <4>3. Chans(req, payload, Starting', Settled')
        BY <1>2, <1>4, <1>11, <1>13, <2>2, <4>1, <4>2, RecvChanged
      <4> QED
        BY <3>3, <4>3 DEF Calm
    <3> QED
      BY <1>3, <2>2, <3>2, <3>3 DEF PostFirst
  <2> QED
    BY <1>12, <2>1, <2>2
<1>15. CalmElsewhere(p) /\ \A z \in Requests \ {r} : req'[z].operation_number = req[z].operation_number
  BY <1>4, <1>14 DEF CalmElsewhere, Calm
<1> QED
  BY <1>3, <1>4, <1>6, <1>9, <1>14, <1>15, StartReturns

\* A start begins an operation of a settled request.
LEMMA StartBegins ==
  ASSUME OneRequestPerSide, UsedInTurn, MpiInv, NEW p \in Process, Calling(p, "start")
  PROVE  \E r \in Requests :
           /\ r = Call(p).on /\ OwnerOf(r) = p /\ ~Ended(p) /\ Call(p).do = "start"
           /\ r \notin Starting /\ r \in Settled /\ req[r].operation_number = Made(r, "start")
           /\ Table(Begun(r)) /\ \A z \in Requests \ {r} : Begun(r)[z] = req[z]
           /\ LET x == req[r] x2 == Begun(r)[r] IN
              /\ x2.type = x.type /\ x2.operation_number = x.operation_number + 1
              /\ x2.backup = x.backup /\ SameFlags(x, x2) /\ x2.remote = x.remote
              /\ x2.buf = IF SideOf(r) = "S" THEN x.operation_number + 1 ELSE x.buf
<1>1. TypeInv /\ PlaceInv /\ CountInv /\ IInv /\ Table(req)
  BY Known
<1>2. ~Ended(p) /\ Call(p).do = "start" /\ ~InCall(p)
  BY DEF Calling, InCall
<1>3. PICK r : r = Call(p).on
  OBVIOUS
<1>4. r \in Requests /\ OwnerOf(r) = p /\ r \notin Starting /\ r \in Settled
  BY <1>1, <1>2, <1>3, StatusBefore
<1>5. req[r].operation_number = Made(r, "start")
  <2>1. Made(r, "start") \in Nat
    BY <1>1, <1>4, MadeNat
  <2> QED
    BY <1>1, <1>4, <2>1 DEF CountInv
<1>6. SideOf(r) = "S" => Started(ChannelOf(r), "S") = req[r].operation_number
  BY <1>1, <1>4, <1>5, StartedMade
<1>7. Table(Begun(r))
  BY <1>1, <1>4, BegunTyped DEF Alike
<1>8. PICK n : n = IF SideOf(r) = "S" THEN req[r].operation_number + 1 ELSE req[r].buf
  OBVIOUS
<1>9. Begun(r) = SetBuf(SetNumber(req, r, req[r].operation_number + 1), r, n)
  BY <1>1, <1>4, <1>6, <1>8 DEF Begun, SetBuf, SetNumber, Table, MPIOPT_Request
<1>10. \A z \in Requests \ {r} : Begun(r)[z] = req[z]
  BY <1>1, <1>4, <1>9 DEF Table, SetBuf, SetNumber
<1>11. PICK x : x = req[r] /\ x \in MPIOPT_Request
  BY <1>1, <1>4, FieldsTyped
<1>12. PICK x2 : x2 = Begun(r)[r] /\ x2 = [[x EXCEPT !.operation_number = x.operation_number + 1] EXCEPT !.buf = n]
  BY <1>1, <1>4, <1>9, <1>11 DEF Table, SetBuf, SetNumber
<1>13. /\ x2.type = x.type /\ x2.operation_number = x.operation_number + 1
       /\ x2.backup = x.backup /\ SameFlags(x, x2) /\ x2.remote = x.remote
       /\ x2.buf = n
  BY <1>11, <1>12 DEF MPIOPT_Request, SameFlags
<1>14. LET y == req[r] y2 == Begun(r)[r] IN
       /\ y2.type = y.type /\ y2.operation_number = y.operation_number + 1
       /\ y2.backup = y.backup /\ SameFlags(y, y2) /\ y2.remote = y.remote
       /\ y2.buf = IF SideOf(r) = "S" THEN y.operation_number + 1 ELSE y.buf
  BY <1>8, <1>11, <1>12, <1>13
<1>15. /\ r = Call(p).on /\ OwnerOf(r) = p /\ ~Ended(p) /\ Call(p).do = "start"
       /\ r \notin Starting /\ r \in Settled /\ req[r].operation_number = Made(r, "start")
       /\ Table(Begun(r)) /\ \A z \in Requests \ {r} : Begun(r)[z] = req[z]
  BY <1>2, <1>3, <1>4, <1>5, <1>7, <1>10
<1> QED
  BY <1>4, <1>14, <1>15, Zenon

\* A start without RDMA sends or posts a receive.
LEMMA StartOrdinaries ==
  ASSUME OneRequestPerSide, UsedInTurn, MpiInv, Table(req'), NEW p \in Process, StartOrdinary(p)
  PROVE  Outcome(p)
<1>1. Calling(p, "start") /\ Return(p) /\ deployment' = deployment
  BY DEF StartOrdinary
<1>2. IInv /\ Table(req) /\ payload \in [Channels -> Messages]
      /\ Chans(req, payload, Starting, Settled)
  BY Known
<1>3. PICK r \in Requests :
         /\ r = Call(p).on /\ OwnerOf(r) = p /\ ~Ended(p) /\ Call(p).do = "start"
         /\ r \notin Starting /\ r \in Settled /\ req[r].operation_number = Made(r, "start")
         /\ Table(Begun(r)) /\ \A z \in Requests \ {r} : Begun(r)[z] = req[z]
         /\ LET x == req[r] x2 == Begun(r)[r] IN
            /\ x2.type = x.type /\ x2.operation_number = x.operation_number + 1
            /\ x2.backup = x.backup /\ SameFlags(x, x2) /\ x2.remote = x.remote
            /\ x2.buf = IF SideOf(r) = "S" THEN x.operation_number + 1 ELSE x.buf
  BY <1>1, StartBegins
<1>4. Returns(p)
  BY <1>1, <1>3 DEF Return, Returns, Advances
<1>5. OthersKept(r) /\ r \notin Starting' /\ r \notin Settled'
  BY <1>3, <1>4, StartReturns
<1>6. PICK rq : rq = Begun(r)
  OBVIOUS
<1>7. /\ Table(rq) /\ \A z \in Requests \ {r} : rq[z] = req[z]
      /\ rq[r].type = req[r].type /\ rq[r].operation_number = req[r].operation_number + 1
      /\ SameFlags(req[r], rq[r])
      /\ rq[r].buf = IF SideOf(r) = "S" THEN req[r].operation_number + 1 ELSE req[r].buf
  BY <1>3, <1>6
<1>8. /\ req[r].type \in {"fallback", "plain"}
      /\ IF SideOf(r) = "S" THEN PostSend(rq, r, FALSE) ELSE PostRecv(rq, r)
  BY <1>3, <1>6 DEF StartOrdinary
<1>9. PICK no, yes : no = FALSE /\ yes = TRUE
  OBVIOUS
<1>10. Status(r, Starting, Settled, no, yes) /\ Status(r, Starting', Settled', no, no)
  BY <1>3, <1>5, <1>9, StatusIs
<1>11. SideOf(r) \in {"S", "R"} /\ Rec(req[r])
  BY <1>2, RequestsTyped, RecOf DEF Side
<1>12. /\ Chans(req', payload', Starting', Settled')
       /\ \A z \in Requests \ {r} : Calm(rq, req', z)
       /\ req'[r].operation_number = rq[r].operation_number
  <2>1. CASE SideOf(r) = "S"
    <3>1. PICK sync : sync = FALSE
      OBVIOUS
    <3>2. Sends(req[r], rq[r], no)
      BY <1>7, <1>8, <1>9, <2>1 DEF Sends, Ordinary
    <3>3. PostSend(rq, r, sync) /\ (rq[r].type = "search" => sync)
      BY <1>7, <1>8, <2>1, <3>1
    <3>4. Status(r, Starting', Settled', FALSE, FALSE)
      BY <1>9, <1>10
    <3>5. \A z \in Requests \ {r} : rq[z] = req[z]
      BY <1>7
    <3>6. Table(rq)
      BY <1>7
    <3>7. Chans(req', payload', Starting', Settled')
      BY <1>2, <1>5, <1>10, <2>1, <3>2, <3>3, <3>4, <3>5, <3>6, PostSendChans
    <3> QED
      BY <1>2, <2>1, <3>3, <3>6, <3>7, PostSendCalm
  <2>2. CASE SideOf(r) = "R"
    <3>1. RecvInv(req[r], payload[ChannelOf(r)], no, yes)
      BY <1>2, <1>10, <2>2, RecvEnd
    <3>2. req[r].operation_number = req[r].buf
      BY <1>9, <3>1 DEF RecvInv
    <3>3. PostRecv(rq, r)
      BY <1>8, <2>2
    <3>4. Takes(req[r], rq[r]) /\ rq[r].buf = req[r].buf
      BY <1>7, <1>8, <2>2, <3>2 DEF Takes, Messaging
    <3>5. \A z \in Requests \ {r} : /\ rq[z] = req[z]
                                    /\ SameStatus(z, Starting, Starting', Settled, Settled')
      BY <1>5, <1>7 DEF OthersKept, SameStatus
    <3>6. Table(rq)
      BY <1>7
    <3>7. no => rq[r].type = "search"
      BY <1>9
    <3>8. req[r].type = "rdma" => rq[r].operation_number = req[r].operation_number
      BY <1>8
    <3>9. Chans(req', payload', Starting', Settled')
      BY <1>2, <1>9, <1>10, <2>2, <3>3, <3>4, <3>5, <3>6, <3>7, <3>8, PostRecvChans
    <3> QED
      BY <1>2, <2>2, <3>3, <3>6, <3>9, PostRecvCalm
  <2> QED
    BY <1>11, <2>1, <2>2
<1>13. CalmElsewhere(p) /\ \A z \in Requests \ {r} : req'[z].operation_number = req[z].operation_number
  BY <1>3, <1>7, <1>12 DEF CalmElsewhere, Calm
<1>14. req'[r].operation_number = Made(r, "start") + 1
  BY <1>3, <1>7, <1>12
<1> QED
  BY <1>3, <1>4, <1>12, <1>13, <1>14, StartReturns

\* A start with RDMA that does not find the peer ready,
LEMMA StartAnnounces ==
  ASSUME OneRequestPerSide, IInv, Table(req),
         NEW st, NEW dn, NEW st2, NEW dn2, Chans(req, payload, st, dn),
         NEW r \in Requests, req[r].type = "rdma", NEW n \in Nat,
         NEW rq, Table(rq),
         \A z \in Requests \ {r} : rq[z] = req[z] /\ SameStatus(z, st, st2, dn, dn2),
         rq[r].type = "rdma" /\ rq[r].backup = req[r].backup, SameFlags(req[r], rq[r]),
         n = req[r].operation_number + 1, rq[r].operation_number = n,
         rq[r].buf = IF SideOf(r) = "S" THEN n ELSE req[r].buf,
         Status(r, st, dn, FALSE, TRUE), Status(r, st2, dn2, FALSE, FALSE),
         NEW new, new = Announce(rq, r, n)
  PROVE  Chans(new, payload, st2, dn2)
<1> DEFINE c == ChannelOf(r)
<1>1. PICK no, yes : no = FALSE /\ yes = TRUE
  OBVIOUS
<1>2. Status(r, st, dn, no, yes) /\ Status(r, st2, dn2, no, no)
  BY <1>1
<1>3. PICK q : q = req[r].remote
  OBVIOUS
<1>4. q \in Requests /\ ChannelOf(q) = c /\ SideOf(q) # SideOf(r) /\ SideOf(q) \in {"S", "R"}
  BY <1>3, PeerEnd
<1>5. PICK x2 : x2 = new[r]
  OBVIOUS
<1>6. /\ \A z \in Requests \ {r} : new[z] = req[z]
      /\ x2.type = "rdma" /\ x2.operation_number = n /\ x2.backup = req[r].backup
      /\ x2.flag = req[r].flag /\ x2.puts = Append(req[r].puts, 2 * n + 1)
      /\ x2.buf = IF SideOf(r) = "S" THEN n ELSE req[r].buf
  <2>1. /\ \A z \in Requests \ {r} : new[z] = rq[z]
        /\ x2.type = rq[r].type /\ x2.operation_number = rq[r].operation_number
        /\ x2.backup = rq[r].backup /\ x2.buf = rq[r].buf
        /\ x2.flag = rq[r].flag /\ x2.puts = Append(rq[r].puts, 2 * n + 1)
    BY <1>5, AnnounceFields
  <2> QED
    BY <2>1 DEF SameFlags
<1>7. Rec(req[r]) /\ Rec(req[q])
  BY <1>4, RecOf
<1>8. \A z \in Requests \ {r} : new[z] = req[z] /\ SameStatus(z, st, st2, dn, dn2)
  BY <1>6
<1>9. SideOf(r) \in {"S", "R"} /\ c \in Channels
  BY RequestsTyped DEF Side
<1>10. CASE SideOf(r) = "S"
  <2>1. SendInv(req[r], FALSE, TRUE)
    <3>1. SendInv(req[r], no, yes)
      BY <1>2, <1>10, SendEnd
    <3> QED
      BY <1>1, <3>1
  <2>2. PICK b : b = req[q].buf /\ b \in Nat
    BY <1>7 DEF Rec
  <2>3. x2.buf = n
    BY <1>6, <1>10
  <2>4. SendInv(x2, FALSE, FALSE)
    BY <1>6, <1>7, <2>1, <2>2, <2>3, SendAnnounces
  <2>5. ASSUME PairInv(req[r], req[q], payload[c], FALSE, TRUE), FlagInv(req[r], req[q])
        PROVE  PairInv(x2, req[q], payload[c], FALSE, FALSE) /\ FlagInv(x2, req[q])
    <3>1. PairInv(x2, req[q], payload[c], FALSE, FALSE)
      BY <1>6, <1>7, <2>1, <2>2, <2>3, <2>5, SendAnnounces
    <3>2. FlagInv(x2, req[q])
      <4>1. PICK x, y, msgs : x = req[r] /\ y = req[q] /\ msgs = payload[c]
        OBVIOUS
      <4>2. /\ Rec(x) /\ Rec(y) /\ SendInv(x, FALSE, TRUE) /\ PairInv(x, y, msgs, FALSE, TRUE)
            /\ FlagInv(x, y)
        BY <1>7, <2>1, <2>5, <4>1
      <4>3. /\ x.type = "rdma" /\ x2.type = "rdma" /\ n = x.operation_number + 1
            /\ x2.operation_number = n /\ x2.buf = n /\ y.buf = b /\ x2.flag = x.flag
            /\ x2.backup = x.backup /\ x2.puts = Append(x.puts, 2 * n + 1)
        BY <1>6, <2>2, <2>3, <4>1
      <4>4. FlagInv(x2, y)
        BY <2>2, <4>2, <4>3, SendAnnounces
      <4> QED
        BY <4>1, <4>4
    <3> QED
      BY <3>1, <3>2
  <2>6. q \in Ends(c, "R") /\ Ends(c, "R") = {q}
    BY <1>4, <1>10, OneEnd DEF Ends
  <2>7. PairInv(req[r], req[q], payload[c], FALSE, TRUE) /\ FlagInv(req[r], req[q])
    <3>1. PairInv(req[r], req[q], payload[c], no, yes) /\ FlagInv(req[r], req[q])
      BY <1>2, <1>10, <2>6, SendEnd
    <3> QED
      BY <1>1, <3>1
  <2>8. \A y \in Ends(c, "R") : \A sy, dy :
          RecvInv(req[y], payload[c], sy, dy) =>
            /\ RecvInv(req[y], payload[c], sy, dy)
            /\ PairInv(new[r], req[y], payload[c], no, no) /\ FlagInv(new[r], req[y])
    BY <1>1, <1>5, <2>5, <2>6, <2>7
  <2>9. SendInv(new[r], no, no)
    BY <1>1, <1>5, <2>4
  <2>10. \A i \in 1 .. Len(payload[c]) : payload[c][i].from \in Ends(c, "S")
    BY <1>9 DEF Chans, ChannelInv
  <2>11. Status(r, st2, dn2, no, no)
    BY <1>2
  <2>12. \A d \in Channels : d # c => payload[d] = payload[d]
    OBVIOUS
  <2>13. Chans(req, payload, st, dn) /\ IInv /\ OneRequestPerSide
    OBVIOUS
  <2> HIDE DEF c
  <2> QED
    BY ONLY <1>8, <1>10, <2>8, <2>9, <2>10, <2>11, <2>12, <2>13, SendChanged, r \in Requests DEF c
<1>11. CASE SideOf(r) = "R"
  <2>1. RecvInv(req[r], payload[c], FALSE, TRUE)
    <3>1. RecvInv(req[r], payload[c], no, yes)
      BY <1>2, <1>11, RecvEnd
    <3> QED
      BY <1>1, <3>1
  <2>2. x2.buf = req[r].buf
    BY <1>6, <1>11
  <2>3. RecvInv(x2, payload[c], FALSE, FALSE)
    BY <1>6, <1>7, <2>1, <2>2, RecvAnnounces, ZenonT(30)
  <2>4. ASSUME NEW sx, NEW dx,
               PairInv(req[q], req[r], payload[c], sx, dx), FlagInv(req[q], req[r])
        PROVE  PairInv(req[q], x2, payload[c], sx, dx) /\ FlagInv(req[q], x2)
    BY <1>6, <1>7, <2>1, <2>2, <2>4, RecvAnnounces
  <2>5. Ends(c, "S") = {q}
    BY <1>4, <1>11, OneEnd
  <2>6. \A x \in Ends(c, "S") : \A sx, dx :
          /\ SendInv(req[x], sx, dx) /\ PairInv(req[x], req[r], payload[c], sx, dx) /\ FlagInv(req[x], req[r])
          => PairInv(req[x], new[r], payload[c], sx, dx) /\ FlagInv(req[x], new[r])
    BY <1>5, <2>4, <2>5
  <2>7. RecvInv(new[r], payload[c], no, no)
    BY <1>1, <1>5, <2>3
  <2>8. Ends(c, "S") = {} => new[r].buf = 0 /\ new[r].flag = 0
    BY <2>5
  <2> QED
    BY <1>2, <1>8, <1>11, <2>6, <2>7, <2>8, RecvChanged
<1> QED
  BY <1>9, <1>10, <1>11

\* ... a sender that finds the receiver ready,
LEMMA StartPushes ==
  ASSUME OneRequestPerSide, IInv, Table(req),
         NEW st, NEW dn, NEW st2, NEW dn2, Chans(req, payload, st, dn),
         NEW r \in Requests, SideOf(r) = "S", req[r].type = "rdma", NEW n \in Nat,
         NEW rq, Table(rq),
         \A z \in Requests \ {r} : rq[z] = req[z] /\ SameStatus(z, st, st2, dn, dn2),
         rq[r].type = "rdma" /\ rq[r].backup = req[r].backup, SameFlags(req[r], rq[r]),
         n = req[r].operation_number + 1, rq[r].operation_number = n, rq[r].buf = n,
         rq[r].remote = req[r].remote, req[r].flag = 2 * n + 1,
         Status(r, st, dn, FALSE, TRUE), Status(r, st2, dn2, FALSE, FALSE),
         NEW new, new = Push(rq, r, n)
  PROVE  Chans(new, payload, st2, dn2)
<1> DEFINE c == ChannelOf(r)
<1>1. PICK no, yes : no = FALSE /\ yes = TRUE
  OBVIOUS
<1>2. Status(r, st, dn, no, yes) /\ Status(r, st2, dn2, no, no)
  BY <1>1
<1>3. PICK q : q = req[r].remote
  OBVIOUS
<1>4. q \in Requests /\ ChannelOf(q) = c /\ SideOf(q) = "R" /\ q # r
  BY <1>3, PeerEnd
<1>5. PICK x2, y2 : x2 = new[r] /\ y2 = new[q]
  OBVIOUS
<1>6. /\ \A z \in Requests \ {r, q} : new[z] = req[z]
      /\ x2.type = "rdma" /\ x2.operation_number = n /\ x2.backup = req[r].backup
      /\ x2.flag = 2 * n + 2 /\ x2.puts = Append(req[r].puts, 2 * n + 2)
      /\ x2.buf = n
      /\ y2.type = req[q].type /\ y2.operation_number = req[q].operation_number
      /\ y2.backup = req[q].backup /\ SameFlags(req[q], y2) /\ y2.buf = n
  <2>1. rq[r].remote = q /\ rq[q] = req[q]
    BY <1>3, <1>4
  <2>2. /\ \A z \in Requests \ {r, q} : new[z] = rq[z]
        /\ x2.type = rq[r].type /\ x2.operation_number = rq[r].operation_number
        /\ x2.backup = rq[r].backup /\ x2.buf = rq[r].buf
        /\ x2.flag = 2 * n + 2 /\ x2.puts = Append(rq[r].puts, 2 * n + 2)
        /\ y2.type = rq[q].type /\ y2.operation_number = rq[q].operation_number
        /\ y2.backup = rq[q].backup /\ SameFlags(rq[q], y2) /\ y2.buf = rq[r].buf
    BY <1>4, <1>5, <2>1, PushFields, SMTT(20)
  <2> QED
    BY <2>1, <2>2 DEF SameFlags
<1>7. Rec(req[r]) /\ Rec(req[q])
  BY <1>4, RecOf
<1>8. PICK sy, dy : sy = (q \in st) /\ dy = (q \in dn)
  OBVIOUS
<1>9. Status(q, st, dn, sy, dy) /\ Status(q, st2, dn2, sy, dy)
  BY <1>4, <1>8 DEF Status, SameStatus
<1>10. RecvInv(req[q], payload[c], sy, dy)
  BY <1>4, <1>9, RecvEnd
<1>11. SendInv(req[r], FALSE, TRUE)
  <2>1. SendInv(req[r], no, yes)
    BY <1>2, SendEnd
  <2> QED
    BY <1>1, <2>1
<1>12. q \in Ends(c, "R") /\ Ends(c, "R") = {q}
  BY <1>4, OneEnd DEF Ends
<1>13. PairInv(req[r], req[q], payload[c], FALSE, TRUE) /\ FlagInv(req[r], req[q])
  <2>1. PairInv(req[r], req[q], payload[c], no, yes) /\ FlagInv(req[r], req[q])
    BY <1>2, <1>12, SendEnd
  <2> QED
    BY <1>1, <2>1
<1>14. PICK b : b = req[q].buf /\ b \in Nat
  BY <1>7 DEF Rec
<1>15. PICK x, y, msgs : x = req[r] /\ y = req[q] /\ msgs = payload[c]
  OBVIOUS
<1>16. /\ SendInv(x2, FALSE, FALSE) /\ RecvInv(y2, msgs, sy, dy)
       /\ PairInv(x2, y2, msgs, FALSE, FALSE) /\ FlagInv(x2, y2)
  <2>1. Rec(x) /\ Rec(y) /\ SendInv(x, FALSE, TRUE) /\ RecvInv(y, msgs, sy, dy)
    BY <1>7, <1>10, <1>11, <1>15
  <2>2. PairInv(x, y, msgs, FALSE, TRUE) /\ FlagInv(x, y)
    BY <1>13, <1>15
  <2>3. /\ x.type = "rdma" /\ x2.type = "rdma" /\ n = x.operation_number + 1
        /\ x2.operation_number = n /\ x2.buf = n /\ y.buf = b
        /\ x.flag = 2 * n + 1 /\ x2.flag = 2 * n + 2 /\ x2.puts = Append(x.puts, 2 * n + 2)
        /\ x2.backup = x.backup
    BY <1>6, <1>14, <1>15
  <2>4. /\ y2.type = y.type /\ y2.operation_number = y.operation_number /\ y2.backup = y.backup
        /\ y2.buf = n /\ SameFlags(y, y2)
    BY <1>6, <1>15
  <2>5. SendInv(x2, FALSE, FALSE)
    BY <1>14, <2>1, <2>2, <2>3, <2>4, SendPushes
  <2>6. RecvInv(y2, msgs, sy, dy)
    <3>1. PICK m : m = n /\ m \in Nat
      OBVIOUS
    <3> QED
      BY <1>14, <2>1, <2>2, <2>3, <2>4, <3>1, SendPushes, ZenonT(60)
  <2>7. PairInv(x2, y2, msgs, FALSE, FALSE)
    BY <1>14, <2>1, <2>2, <2>3, <2>4, SendPushes, ZenonT(40)
  <2>8. FlagInv(x2, y2)
    BY <1>14, <2>1, <2>2, <2>3, <2>4, SendPushes, ZenonT(40)
  <2> QED
    BY <2>5, <2>6, <2>7, <2>8
<1>17. SendInv(new[r], no, no) /\ RecvInv(new[q], payload[c], sy, dy)
  BY <1>1, <1>5, <1>15, <1>16
<1>18. PairInv(new[r], new[q], payload[c], no, no) /\ FlagInv(new[r], new[q])
  BY <1>1, <1>5, <1>15, <1>16
<1>19. \A i \in 1 .. Len(payload[c]) : payload[c][i].from \in Ends(c, "S")
  BY RequestsTyped DEF Chans, ChannelInv
<1>20. \A z \in Requests \ {r, q} : new[z] = req[z] /\ SameStatus(z, st, st2, dn, dn2)
  BY <1>6
<1> QED
  BY <1>2, <1>4, <1>9, <1>17, <1>18, <1>19, <1>20, BothChanged

\* ... and any start with RDMA.
LEMMA StartRdmas ==
  ASSUME OneRequestPerSide, UsedInTurn, MpiInv, NEW p \in Process, StartRdma(p)
  PROVE  Outcome(p)
<1>1. Calling(p, "start") /\ Return(p) /\ UNCHANGED <<deployment, payload>>
  BY DEF StartRdma
<1>2. IInv /\ Table(req) /\ Chans(req, payload, Starting, Settled)
  BY Known
<1>3. PICK r \in Requests :
         /\ r = Call(p).on /\ OwnerOf(r) = p /\ ~Ended(p) /\ Call(p).do = "start"
         /\ r \notin Starting /\ r \in Settled /\ req[r].operation_number = Made(r, "start")
         /\ Table(Begun(r)) /\ \A z \in Requests \ {r} : Begun(r)[z] = req[z]
         /\ LET x == req[r] x2 == Begun(r)[r] IN
            /\ x2.type = x.type /\ x2.operation_number = x.operation_number + 1
            /\ x2.backup = x.backup /\ SameFlags(x, x2) /\ x2.remote = x.remote
            /\ x2.buf = IF SideOf(r) = "S" THEN x.operation_number + 1 ELSE x.buf
  BY <1>1, StartBegins
<1>4. Returns(p)
  BY <1>1, <1>3 DEF Return, Returns, Advances
<1>5. OthersKept(r) /\ r \notin Starting' /\ r \notin Settled'
  BY <1>3, <1>4, StartReturns
<1>6. PICK rq, n : rq = Begun(r) /\ n = req[r].operation_number + 1
  OBVIOUS
<1>7. req[r].type = "rdma" /\ n \in Nat
  BY <1>2, <1>3, <1>6, FieldsTyped DEF StartRdma
<1>8. req' = IF req[r].flag # 2 * n + 1 THEN Announce(rq, r, n)
             ELSE IF SideOf(r) = "S" THEN Push(rq, r, n)
             ELSE Fetch(rq, r, n)
  BY <1>3, <1>6 DEF StartRdma
<1>9. /\ Table(rq) /\ \A z \in Requests \ {r} : rq[z] = req[z]
      /\ rq[r].type = "rdma" /\ rq[r].operation_number = n /\ rq[r].backup = req[r].backup
      /\ SameFlags(req[r], rq[r]) /\ rq[r].remote = req[r].remote
      /\ rq[r].buf = IF SideOf(r) = "S" THEN n ELSE req[r].buf
  BY <1>3, <1>6, <1>7
<1>10. Status(r, Starting, Settled, FALSE, TRUE) /\ Status(r, Starting', Settled', FALSE, FALSE)
  BY <1>3, <1>5 DEF Status
<1>11. \A z \in Requests \ {r} : /\ rq[z] = req[z]
                                 /\ SameStatus(z, Starting, Starting', Settled, Settled')
  BY <1>5, <1>9 DEF OthersKept, SameStatus
<1>12. PICK q : q = req[r].remote /\ q \in Requests /\ q # r /\ OwnerOf(q) = OwnerOf(q)
  BY <1>2, <1>7, PeerEnd
<1>13. /\ Chans(req', payload, Starting', Settled')
       /\ req'[r].operation_number = n
       /\ \A z \in Requests \ {r} : Calm(req, req', z)
  <2>1. CASE req[r].flag # 2 * n + 1
    <3>1. req' = Announce(rq, r, n)
      BY <1>8, <2>1
    <3>2. Chans(req', payload, Starting', Settled')
      BY <1>2, <1>6, <1>7, <1>9, <1>10, <1>11, <3>1, StartAnnounces
    <3>3. \A z \in Requests \ {r} : req'[z] = rq[z]
      BY <1>9, <3>1, AnnounceFields
    <3>4. req'[r].operation_number = n
      BY <1>9, <3>1, AnnounceFields
    <3> QED
      BY <1>9, <3>2, <3>3, <3>4 DEF Calm
  <2>2. CASE req[r].flag = 2 * n + 1 /\ SideOf(r) = "S"
    <3>1. req' = Push(rq, r, n)
      BY <1>8, <2>2
    <3>2. rq[r].buf = n
      BY <1>9, <2>2
    <3>3. Chans(req', payload, Starting', Settled')
      BY <1>2, <1>6, <1>7, <1>9, <1>10, <1>11, <2>2, <3>1, <3>2, StartPushes
    <3>4. q = rq[r].remote /\ rq[q] = req[q]
      BY <1>9, <1>12
    <3>5. /\ \A z \in Requests \ {r, q} : req'[z] = rq[z]
          /\ req'[q].type = rq[q].type /\ req'[q].operation_number = rq[q].operation_number
          /\ req'[q].backup = rq[q].backup
          /\ req'[r].operation_number = rq[r].operation_number
      BY <1>9, <1>12, <3>1, <3>4, PushFields
    <3> QED
      BY <1>9, <3>3, <3>4, <3>5 DEF Calm
  <2>3. CASE req[r].flag = 2 * n + 1 /\ SideOf(r) # "S"
    <3>1. req' = Fetch(rq, r, n) /\ SideOf(r) = "R"
      BY <1>2, <1>8, <2>3, RequestsTyped DEF Side
    <3>2. PICK no, yes : no = FALSE /\ yes = TRUE
      OBVIOUS
    <3>3. Status(r, Starting, Settled, FALSE, yes) /\ Status(r, Starting', Settled', FALSE, no)
      BY <1>10, <3>2
    <3>4. req[r].operation_number = n \/ (yes /\ n = req[r].operation_number + 1)
      BY <1>6, <3>2
    <3>5. Chans(req', payload, Starting', Settled')
      BY <1>2, <1>7, <1>9, <1>11, <2>3, <3>1, <3>3, <3>4, FetchChans
    <3>6. rq[r].remote \in Requests
      BY <1>9, <1>12
    <3>7. /\ \A z \in Requests \ {r} : req'[z] = rq[z]
          /\ req'[r].operation_number = rq[r].operation_number
      BY <1>9, <3>1, <3>6, FetchFields
    <3> QED
      BY <1>9, <3>5, <3>7 DEF Calm
  <2> QED
    BY <2>1, <2>2, <2>3
<1>14. CalmElsewhere(p) /\ \A z \in Requests \ {r} : req'[z].operation_number = req[z].operation_number
  BY <1>3, <1>13 DEF CalmElsewhere, Calm
<1>15. req'[r].operation_number = Made(r, "start") + 1 /\ Chans(req', payload', Starting', Settled')
  BY <1>1, <1>3, <1>6, <1>13
<1> QED
  BY <1>3, <1>4, <1>14, <1>15, StartReturns

\* The creation of a request that takes part in the handshake.
LEMMA InitRequests ==
  ASSUME OneRequestPerSide, UsedInTurn, MpiInv, Table(req'), NEW p \in Process, InitRequest(p)
  PROVE  Outcome(p)
<1>1. /\ Calling(p, "init") /\ Return(p) /\ UNCHANGED <<deployment, payload>>
      /\ ~Ended(p) /\ Call(p).do = "init" /\ ~InCall(p)
  BY DEF InitRequest, Calling, InCall
<1>2. TypeInv /\ PlaceInv /\ CountInv /\ IInv /\ Table(req) /\ Chans(req, payload, Starting, Settled)
  BY Known
<1>3. Returns(p)
  BY <1>1 DEF Return, Returns, Advances
<1>4. PICK r : r = Call(p).on /\ r \in Requests /\ OwnerOf(r) = p
  BY <1>1, <1>2, CallOwned DEF Collective
<1>5. r \notin Starting /\ req[r].operation_number = 0
  <2>1. r \notin Starting
    BY <1>1, <1>4 DEF Starting
  <2>2. Made(r, "start") = 0
    BY <1>1, <1>2, <1>4, InTurn
  <2> QED
    BY <1>2, <1>4, <2>1, <2>2 DEF CountInv
<1>6. \A z \in Requests : (z \in Starting' <=> z \in Starting) /\ (z \in Settled' <=> z \in Settled)
  BY <1>1, <1>2, <1>3, StatusReturns DEF Returns
<1>7. PICK x2 : x2 = req'[r]
  OBVIOUS
<1>8. /\ \A z \in Requests \ {r} : req'[z] = req[z]
      /\ x2.type = "search" /\ x2.operation_number = 0 /\ x2.buf = 0 /\ x2.backup = "null"
      /\ x2.flag = 0 /\ x2.puts = <<>>
  <2>1. req' = [req EXCEPT ![r] = [Cleared("search") EXCEPT !.infoSend = "pending"]]
    BY <1>4 DEF InitRequest
  <2> QED
    BY <1>2, <1>4, <1>7, <2>1 DEF Table, Cleared
<1>9. Created(x2)
  BY <1>8 DEF Created
<1>10. PICK no : no = FALSE
  OBVIOUS
<1>11. PICK d : d \in BOOLEAN /\ (r \in Settled <=> d)
  <2>1. CASE r \in Settled
    <3>1. TRUE \in BOOLEAN /\ (r \in Settled <=> TRUE)
      BY <2>1
    <3> QED
      BY <3>1
  <2>2. CASE r \notin Settled
    <3>1. FALSE \in BOOLEAN /\ (r \in Settled <=> FALSE)
      BY <2>2
    <3> QED
      BY <3>1
  <2> QED
    BY <2>1, <2>2
<1>12. Status(r, Starting, Settled, no, d) /\ Status(r, Starting', Settled', no, d)
  <2>1. no \in BOOLEAN /\ d \in BOOLEAN
    BY <1>10, <1>11
  <2>2. (r \in Starting <=> no) /\ (r \in Starting' <=> no)
    BY <1>4, <1>5, <1>6, <1>10
  <2>3. (r \in Settled <=> d) /\ (r \in Settled' <=> d)
    BY <1>4, <1>6, <1>11
  <2> QED
    BY <2>1, <2>2, <2>3, StatusIs
<1>13. \A z \in Requests \ {r} : /\ req'[z] = req[z]
                                 /\ SameStatus(z, Starting, Starting', Settled, Settled')
  BY <1>6, <1>8 DEF SameStatus
<1>14. Rec(req[r]) /\ SideOf(r) \in {"S", "R"} /\ ChannelOf(r) \in Channels
  BY <1>2, <1>4, RecOf, RequestsTyped DEF Side
<1> DEFINE c == ChannelOf(r)
<1>15. Chans(req', payload, Starting', Settled')
  <2>1. CASE SideOf(r) = "S"
    <3>1. SendInv(req[r], no, d)
      BY <1>2, <1>4, <1>12, <2>1, SendEnd
    <3>2. SendInv(req'[r], no, d)
      <4>1. SendInv(x2, FALSE, d)
        BY <1>5, <1>9, <1>14, <3>1, SendCreated
      <4> QED
        BY <1>7, <1>10, <4>1
    <3>3. ASSUME NEW y \in Ends(c, "R")
          PROVE  PairInv(req'[r], req[y], payload[c], no, d) /\ FlagInv(req'[r], req[y])
      <4>1. PairInv(req[r], req[y], payload[c], no, d) /\ FlagInv(req[r], req[y])
        BY <1>2, <1>4, <1>12, <2>1, SendEnd
      <4>2. Rec(req[y])
        BY <1>2, RecOf DEF Ends
      <4>3. PairInv(x2, req[y], payload[c], FALSE, d)
        BY <1>5, <1>9, <1>14, <3>1, <4>1, <4>2, SendCreated
      <4>4. FlagInv(x2, req[y])
        BY <1>5, <1>9, <1>14, <3>1, <4>1, <4>2, SendCreated
      <4> QED
        BY <1>7, <1>10, <4>3, <4>4
    <3>4. \A y \in Ends(c, "R") : \A sy, dy :
            RecvInv(req[y], payload[c], sy, dy) =>
              /\ RecvInv(req[y], payload[c], sy, dy)
              /\ PairInv(req'[r], req[y], payload[c], no, d) /\ FlagInv(req'[r], req[y])
      BY <3>3
    <3>5. \A i \in 1 .. Len(payload[c]) : payload[c][i].from \in Ends(c, "S")
      BY <1>2, <1>14 DEF Chans, ChannelInv
    <3> QED
      BY <1>2, <1>4, <1>12, <1>13, <2>1, <3>2, <3>4, <3>5, SendChanged
  <2>2. CASE SideOf(r) = "R"
    <3>1. RecvInv(req[r], payload[c], no, d)
      BY <1>2, <1>4, <1>12, <2>2, RecvEnd
    <3>2. RecvInv(req'[r], payload[c], no, d)
      <4>1. RecvInv(x2, payload[c], FALSE, d)
        BY <1>5, <1>9, <1>14, <3>1, RecvCreated
      <4> QED
        BY <1>7, <1>10, <4>1
    <3>3. ASSUME NEW x \in Ends(c, "S"), NEW sx, NEW dx,
                 PairInv(req[x], req[r], payload[c], sx, dx), FlagInv(req[x], req[r])
          PROVE  PairInv(req[x], req'[r], payload[c], sx, dx) /\ FlagInv(req[x], req'[r])
      <4>1. Rec(req[x])
        BY <1>2, RecOf DEF Ends
      <4>2. PairInv(req[x], x2, payload[c], sx, dx)
        BY <1>5, <1>9, <1>14, <3>1, <3>3, <4>1, RecvCreated
      <4>3. FlagInv(req[x], x2)
        BY <1>5, <1>9, <1>14, <3>1, <3>3, <4>1, RecvCreated
      <4> QED
        BY <1>7, <4>2, <4>3
    <3>4. \A x \in Ends(c, "S") : \A sx, dx :
            /\ SendInv(req[x], sx, dx)
            /\ PairInv(req[x], req[r], payload[c], sx, dx) /\ FlagInv(req[x], req[r])
            => PairInv(req[x], req'[r], payload[c], sx, dx) /\ FlagInv(req[x], req'[r])
      BY <3>3
    <3>5. Ends(c, "S") = {} => req'[r].buf = 0 /\ req'[r].flag = 0
      BY <1>7, <1>8
    <3> QED
      BY <1>2, <1>4, <1>12, <1>13, <2>2, <3>2, <3>4, <3>5, RecvChanged
  <2> QED
    BY <1>14, <2>1, <2>2
<1>16. CalmElsewhere(p)
  BY <1>4, <1>8, OneCalm
<1>17. CountInv'
  <2>1. \A z \in Requests : req'[z].operation_number = req[z].operation_number
    BY <1>5, <1>7, <1>8
  <2>2. PICK K : K = {}
    OBVIOUS
  <2> QED
    BY <1>1, <1>2, <1>3, <1>6, <2>1, <2>2, CountStep
<1> QED
  BY <1>1, <1>3, <1>15, <1>16, <1>17 DEF Outcome

-----------------------------------------------------------------------------
(* Steps within a wait.                                                    *)

\* What is known of either end of a channel.
LEMMA EndOf ==
  ASSUME MpiInv, NEW r \in Requests
  PROVE  /\ req[r].type = "new" => req[r].operation_number = 0
         /\ req[r].type = "search" => req[r].operation_number <= 1
<1>1. IInv /\ Chans(req, payload, Starting, Settled)
  BY Known
<1>2. PICK sr, dr : Status(r, Starting, Settled, sr, dr)
  BY DEF Status
<1>3. SideOf(r) \in {"S", "R"}
  BY <1>1, RequestsTyped DEF Side
<1>4. EndInv(req[r], sr, dr)
  <2>1. CASE SideOf(r) = "S"
    BY <1>1, <1>2, <2>1, SendEnd DEF SendInv
  <2>2. CASE SideOf(r) = "R"
    BY <1>1, <1>2, <2>2, RecvEnd DEF RecvInv
  <2> QED
    BY <1>3, <2>1, <2>2
<1> QED
  BY <1>4 DEF EndInv

\* A step that goes on in a call and does not count,
LEMMA MoveOutcome ==
  ASSUME UsedInTurn, MpiInv, NEW p \in Process, NEW r \in Requests, r = Call(p).on, ~Ended(p),
         Call(p).do = "wait", UNCHANGED <<deployment, next>>,
         NEW fs, stack' = [stack EXCEPT ![p] = fs],
         NEW at, at # "post", Based(fs, r, at)
  PROVE  /\ OthersKept(r) /\ r \notin Starting /\ r \notin Starting'
         /\ r \in Settled' <=> at = "fetched"
         /\ /\ Fits(req', r, at) /\ CalmElsewhere(p) /\ Chans(req', payload', Starting', Settled')
            /\ \A z \in Requests : req'[z].operation_number = req[z].operation_number
            => Outcome(p)
<1>1. TypeInv /\ PlaceInv /\ CountInv
  BY Known
<1>2. r \notin Starting
  BY <1>1, StatusBefore
<1>3. OthersKept(r) /\ r \notin Starting' /\ (r \in Settled' <=> at = "fetched")
  BY <1>1, StatusMoves
<1>4. ASSUME Fits(req', r, at)
      PROVE  Moves(p)
  BY <1>4 DEF Moves
<1>5. ASSUME Moves(p), \A z \in Requests : req'[z].operation_number = req[z].operation_number
      PROVE  CountInv'
  <2>1. PICK K : K = {}
    OBVIOUS
  <2>2. \A z \in Requests : z \in Starting' <=> z \in Starting
    BY <1>2, <1>3 DEF OthersKept
  <2>3. \A z \in Requests \ K : /\ req'[z].operation_number = req[z].operation_number
                                /\ z \in Starting' <=> z \in Starting
    BY <1>5, <2>2
  <2>4. K \subseteq Requests /\ \A z \in K : Counted(z)'
    BY <2>1
  <2>5. ~ (Call(p).do = "start" /\ Returns(p))
    OBVIOUS
  <2> QED
    BY <1>1, <1>5, <2>3, <2>4, <2>5, CountStep
<1> QED
  BY <1>2, <1>3, <1>4, <1>5 DEF Outcome

\* ... in which the process goes on from one place to the next,
LEMMA GoOutcome ==
  ASSUME UsedInTurn, MpiInv, NEW p \in Process, NEW place, place \notin {"block", "post"},
         At(p, place), NEW r \in Requests, r = Call(p).on, UNCHANGED <<deployment, next>>,
         NEW at, at # "post", NEW rest, Go(p, Frame(r, at, rest))
  PROVE  /\ OthersKept(r) /\ r \notin Starting /\ r \notin Starting'
         /\ r \in Settled' <=> at = "fetched"
         /\ /\ Fits(req', r, at) /\ CalmElsewhere(p) /\ Chans(req', payload', Starting', Settled')
            /\ \A z \in Requests : req'[z].operation_number = req[z].operation_number
            => Outcome(p)
<1>1. /\ Call(p).do = "wait" /\ ~Ended(p)
      /\ \A f : Based(<<f>> \o Tail(stack[p]), f.req, f.at)
  BY WaitAt
<1>2. PICK fs : fs = <<Frame(r, at, rest)>> \o Tail(stack[p])
  OBVIOUS
<1>3. stack' = [stack EXCEPT ![p] = fs]
  BY <1>2 DEF Go
<1>4. Based(fs, r, at)
  BY <1>1, <1>2 DEF Frame
<1> QED
  BY <1>1, <1>3, <1>4, MoveOutcome

\* ... and all else stays.
LEMMA GoesOn ==
  ASSUME UsedInTurn, MpiInv, NEW p \in Process, NEW place, place \notin {"block", "post", "fetched"},
         At(p, place), NEW r \in Requests, r = Call(p).on, UNCHANGED <<deployment, next, req, payload>>,
         NEW at, at \notin {"post", "fetched"}, NEW rest, Go(p, Frame(r, at, rest)), Fits(req, r, at)
  PROVE  Outcome(p)
<1>1. /\ OthersKept(r) /\ r \notin Starting /\ r \notin Starting' /\ r \notin Settled'
      /\ /\ Fits(req', r, at) /\ CalmElsewhere(p) /\ Chans(req', payload', Starting', Settled')
         /\ \A z \in Requests : req'[z].operation_number = req[z].operation_number
         => Outcome(p)
  BY GoOutcome
<1>2. r \notin Settled
  BY WaitAt
<1>3. \A z \in Requests : /\ Same(req[z], req[z])
                          /\ SameStatus(z, Starting, Starting', Settled, Settled')
  BY <1>1, <1>2 DEF Same, SameCalls, SameFlags, SameStatus, OthersKept
<1>4. Chans(req, payload, Starting', Settled')
  BY <1>3, Known, NoneChanged
<1>5. CalmElsewhere(p)
  BY DEF CalmElsewhere, Calm
<1>6. Fits(req', r, at)
  BY DEF Fits
<1> QED
  BY <1>1, <1>4, <1>5, <1>6

LEMMA WaitBegins ==
  ASSUME UsedInTurn, MpiInv, NEW p \in Process, Wait(p)
  PROVE  Outcome(p)
<1>1. /\ ~Ended(p) /\ Call(p).do = "wait" /\ ~InCall(p) /\ stack[p] = <<>>
      /\ UNCHANGED <<deployment, next, req, payload>>
  BY DEF Wait, Calling, InCall
<1>2. TypeInv /\ PlaceInv /\ CountInv /\ IInv
  BY Known
<1>3. PICK r \in Requests : r = Call(p).on /\ OwnerOf(r) = p
  BY <1>1, <1>2, StatusBefore
<1>4. r \notin Starting /\ r \notin Settled
  BY <1>1, <1>2, <1>3, StatusBefore
<1>5. PICK at : at = CASE req[r].type = "rdma" -> "flush"
                       [] req[r].type \in {"fallback", "plain"} -> "mpi_wait"
                       [] OTHER -> IF SideOf(r) = "S" THEN "probe" ELSE "look"
  OBVIOUS
<1>6. PICK f : f = Frame(r, at, <<>>)
  OBVIOUS
<1>7. stack' = [stack EXCEPT ![p] = <<f>>]
  <2>1. stack' = [stack EXCEPT ![p] = <<f>> \o @]
    BY <1>3, <1>5, <1>6 DEF Wait, Enter
  <2> QED
    BY <1>1, <2>1
<1>8. Based(<<f>>, r, at)
  BY <1>6, BasedOne
<1>9. at \notin {"post", "fetched"}
  BY <1>5
<1>10. req[r].operation_number >= 1 /\ req[r].operation_number \in Nat
  <2>1. Made(r, "start") = Made(r, "wait") + 1 /\ Made(r, "wait") \in Nat
    BY <1>1, <1>2, <1>3, InTurn, MadeNat
  <2>2. req[r].operation_number = Made(r, "start")
    BY <1>2, <1>4, <2>1 DEF CountInv
  <2> QED
    BY <2>1, <2>2
<1>11. /\ req[r].type \in Types /\ req[r].type # "new"
       /\ req[r].type = "search" => req[r].operation_number = 1
  BY <1>2, <1>10, EndOf, Known, FieldsTyped
<1>12. SideOf(r) \in {"S", "R"}
  BY <1>2, RequestsTyped DEF Side
<1>13. Fits(req', r, at)
  BY <1>1, <1>5, <1>11, <1>12 DEF Fits, SendPlaces, RecvPlaces, Ordinary, Types
<1>14. /\ OthersKept(r) /\ r \notin Starting' /\ r \notin Settled'
       /\ /\ Fits(req', r, at) /\ CalmElsewhere(p) /\ Chans(req', payload', Starting', Settled')
          /\ \A z \in Requests : req'[z].operation_number = req[z].operation_number
          => Outcome(p)
  BY <1>1, <1>3, <1>7, <1>8, <1>9, MoveOutcome
<1>15. \A z \in Requests : /\ Same(req[z], req[z])
                           /\ SameStatus(z, Starting, Starting', Settled, Settled')
  BY <1>4, <1>14 DEF Same, SameCalls, SameFlags, SameStatus, OthersKept
<1>16. Chans(req, payload, Starting', Settled')
  BY <1>15, Known, NoneChanged
<1>17. CalmElsewhere(p)
  BY <1>1 DEF CalmElsewhere, Calm
<1> QED
  BY <1>1, <1>13, <1>14, <1>16, <1>17

LEMMA WaitGoesOn ==
  ASSUME UsedInTurn, MpiInv, NEW p \in Process,
         WaitRecvLook(p) \/ WaitFlush(p) \/ WaitFlagRound(p)
  PROVE  Outcome(p)
<1>1. UNCHANGED <<deployment, next, req, payload>>
  BY DEF WaitRecvLook, WaitFlush, WaitFlagRound
<1>2. CASE WaitRecvLook(p)
  <2>1. At(p, "look")
    BY <1>2 DEF WaitRecvLook
  <2>2. PICK r \in Requests : r = Call(p).on /\ r = Current(p) /\ Fits(req, r, "look")
    BY <2>1, WaitAt
  <2>3. \E at \in {"decide", "last", "again"} : \E rest : Go(p, Frame(r, at, rest))
    BY <1>2, <2>2 DEF WaitRecvLook, GoTo, ProgressOthersThen
  <2>4. PICK at \in {"decide", "last", "again"} : \E rest : Go(p, Frame(r, at, rest))
    BY <2>3
  <2>5. PICK rest : Go(p, Frame(r, at, rest))
    BY <2>4
  <2>6. Fits(req, r, at)
    BY <2>2 DEF Fits, SendPlaces, RecvPlaces
  <2> QED
    BY <1>1, <2>1, <2>2, <2>5, <2>6, GoesOn
<1>3. CASE WaitFlush(p)
  <2>1. At(p, "flush")
    BY <1>3 DEF WaitFlush
  <2>2. PICK r \in Requests : r = Call(p).on /\ r = Current(p) /\ Fits(req, r, "flush")
    BY <2>1, WaitAt
  <2>3. Go(p, Frame(r, "flag", <<>>))
    BY <1>3, <2>2 DEF WaitFlush, GoTo
  <2>4. Fits(req, r, "flag")
    BY <2>2 DEF Fits, SendPlaces, RecvPlaces
  <2> QED
    BY <1>1, <2>1, <2>2, <2>3, <2>4, GoesOn
<1>4. CASE WaitFlagRound(p)
  <2>1. At(p, "flag")
    BY <1>4 DEF WaitFlagRound
  <2>2. PICK r \in Requests : r = Call(p).on /\ r = Current(p) /\ Fits(req, r, "flag")
    BY <2>1, WaitAt
  <2>3. PICK rest : Go(p, Frame(r, "flag", rest))
    BY <1>4, <2>2 DEF WaitFlagRound, ProgressOthersThen
  <2> QED
    BY <1>1, <2>1, <2>2, <2>3, GoesOn
<1> QED
  BY <1>2, <1>3, <1>4

\* Only the request of the wait changes, a sender,
LEMMA SendMoves ==
  ASSUME OneRequestPerSide, MpiInv, NEW r \in Requests, SideOf(r) = "S",
         r \notin Starting, r \notin Settled, OthersKept(r), r \notin Starting', r \notin Settled',
         \A z \in Requests \ {r} : req'[z] = req[z],
         SendInv(req[r], FALSE, FALSE) => SendInv(req'[r], FALSE, FALSE),
         \A y \in Ends(ChannelOf(r), "R") :
           /\ SendInv(req[r], FALSE, FALSE)
           /\ PairInv(req[r], req[y], payload[ChannelOf(r)], FALSE, FALSE) /\ FlagInv(req[r], req[y])
           => PairInv(req'[r], req[y], payload[ChannelOf(r)], FALSE, FALSE) /\ FlagInv(req'[r], req[y])
  PROVE  Chans(req', payload, Starting', Settled')
<1> DEFINE c == ChannelOf(r)
<1>1. PICK no : no = FALSE
  OBVIOUS
<1>2. IInv /\ Chans(req, payload, Starting, Settled)
  BY Known
<1>3. Status(r, Starting, Settled, no, no) /\ Status(r, Starting', Settled', no, no)
  BY <1>1, StatusIs
<1>4. SendInv(req[r], no, no)
  BY <1>2, <1>3, SendEnd
<1>5. \A y \in Ends(c, "R") : PairInv(req[r], req[y], payload[c], no, no) /\ FlagInv(req[r], req[y])
  BY <1>2, <1>3, SendEnd
<1>6. SendInv(req[r], FALSE, FALSE)
  BY <1>1, <1>4
<1>7. SendInv(req'[r], no, no)
  BY <1>1, <1>6
<1>8. ASSUME NEW y \in Ends(c, "R")
      PROVE  PairInv(req'[r], req[y], payload[c], no, no) /\ FlagInv(req'[r], req[y])
  <2>1. PairInv(req[r], req[y], payload[c], FALSE, FALSE) /\ FlagInv(req[r], req[y])
    BY <1>1, <1>5
  <2>2. PairInv(req'[r], req[y], payload[c], FALSE, FALSE) /\ FlagInv(req'[r], req[y])
    BY <1>6, <2>1
  <2> QED
    BY <1>1, <2>2
<1>9. \A z \in Requests \ {r} : /\ req'[z] = req[z]
                                /\ SameStatus(z, Starting, Starting', Settled, Settled')
  BY DEF OthersKept, SameStatus
<1>10. \A i \in 1 .. Len(payload[c]) : payload[c][i].from \in Ends(c, "S")
  BY <1>2, RequestsTyped DEF Chans, ChannelInv
<1>11. \A y \in Ends(c, "R") : \A sy, dy :
         RecvInv(req[y], payload[c], sy, dy) =>
           /\ RecvInv(req[y], payload[c], sy, dy)
           /\ PairInv(req'[r], req[y], payload[c], no, no) /\ FlagInv(req'[r], req[y])
  BY <1>8
<1>12. Status(r, Starting', Settled', no, no)
  BY <1>3
<1> QED
  BY <1>2, <1>7, <1>9, <1>10, <1>11, <1>12, SendChanged

\* ... or a receiver.
LEMMA RecvMoves ==
  ASSUME OneRequestPerSide, MpiInv, NEW r \in Requests, SideOf(r) = "R",
         r \notin Starting, r \notin Settled, OthersKept(r), r \notin Starting', r \notin Settled',
         \A z \in Requests \ {r} : req'[z] = req[z],
         req'[r].buf = req[r].buf, req'[r].flag = req[r].flag,
         RecvInv(req[r], payload[ChannelOf(r)], FALSE, FALSE) =>
           RecvInv(req'[r], payload[ChannelOf(r)], FALSE, FALSE),
         \A x \in Ends(ChannelOf(r), "S") : \A sx, dx :
           /\ RecvInv(req[r], payload[ChannelOf(r)], FALSE, FALSE)
           /\ PairInv(req[x], req[r], payload[ChannelOf(r)], sx, dx) /\ FlagInv(req[x], req[r])
           => PairInv(req[x], req'[r], payload[ChannelOf(r)], sx, dx) /\ FlagInv(req[x], req'[r])
  PROVE  Chans(req', payload, Starting', Settled')
<1> DEFINE c == ChannelOf(r)
<1>1. PICK no : no = FALSE
  OBVIOUS
<1>2. IInv /\ Chans(req, payload, Starting, Settled)
  BY Known
<1>3. Status(r, Starting, Settled, no, no) /\ Status(r, Starting', Settled', no, no)
  BY <1>1, StatusIs
<1>4. RecvInv(req[r], payload[c], no, no)
  BY <1>2, <1>3, RecvEnd
<1>5. RecvInv(req[r], payload[c], FALSE, FALSE)
  BY <1>1, <1>4
<1>6. RecvInv(req'[r], payload[c], no, no)
  BY <1>1, <1>5
<1>7. Ends(c, "S") = {} => req'[r].buf = 0 /\ req'[r].flag = 0
  BY <1>2, <1>3, RecvEnd
<1>8. \A z \in Requests \ {r} : /\ req'[z] = req[z]
                                /\ SameStatus(z, Starting, Starting', Settled, Settled')
  BY DEF OthersKept, SameStatus
<1>9. \A x \in Ends(c, "S") : \A sx, dx :
         /\ SendInv(req[x], sx, dx)
         /\ PairInv(req[x], req[r], payload[c], sx, dx) /\ FlagInv(req[x], req[r])
         => PairInv(req[x], req'[r], payload[c], sx, dx) /\ FlagInv(req[x], req'[r])
  BY <1>5
<1>10. Status(r, Starting', Settled', no, no)
  BY <1>3
<1> QED
  BY <1>2, <1>6, <1>7, <1>8, <1>9, <1>10, RecvChanged

LEMMA WaitSendTests ==
  ASSUME OneRequestPerSide, UsedInTurn, MpiInv, Table(req'), NEW p \in Process, WaitSendTest(p)
  PROVE  Outcome(p)
<1>1. At(p, "test") /\ UNCHANGED <<deployment, next, payload>>
  BY DEF WaitSendTest
<1>2. PICK r \in Requests :
        /\ r = Call(p).on /\ r = Current(p) /\ OwnerOf(r) = p
        /\ Fits(req, r, "test") /\ r \notin Settled
  BY <1>1, WaitAt
<1>3. IInv /\ Table(req)
  BY Known
<1>4. PICK x : x = req[r] /\ x \in MPIOPT_Request
  BY <1>3, FieldsTyped
<1>5. SideOf(r) = "S" /\ x.type \in {"search", "rdma"} /\ x.operation_number = 1
  BY <1>2, <1>4 DEF Fits, SendPlaces, RecvPlaces
<1>6. PICK t, b : /\ t = IF x.remote # Null THEN "rdma" ELSE x.type
                  /\ b = IF x.backup # "pending" THEN "null" ELSE x.backup
  OBVIOUS
<1>7. req' = [req EXCEPT ![r].type = t, ![r].backup = b]
  <2>1. req' = [req EXCEPT ![r].type = IF req[r].remote # Null THEN "rdma" ELSE @,
                           ![r].backup = IF req[r].backup # "pending" THEN "null" ELSE @]
    BY <1>2 DEF WaitSendTest
  <2> QED
    BY <1>3, <1>4, <1>6, <2>1 DEF Table, MPIOPT_Request
<1>8. PICK x2 : x2 = req'[r]
  OBVIOUS
<1>9. \A z \in Requests \ {r} : req'[z] = req[z]
  BY <1>3, <1>7 DEF Table
<1>10. x2 = [[x EXCEPT !.type = t] EXCEPT !.backup = b]
  BY <1>3, <1>4, <1>7, <1>8 DEF Table
<1>11. /\ x2.type = t /\ x2.backup = b /\ x2.operation_number = x.operation_number
       /\ x2.buf = x.buf /\ SameFlags(x, x2)
  BY <1>4, <1>10 DEF MPIOPT_Request, SameFlags
<1>12. /\ x2.type \in {x.type, "rdma"}
       /\ x2.backup = "pending" <=> x.backup = "pending"
       /\ x2.type # "fallback" /\ x2.type \in {"search", "rdma"} /\ x2.operation_number = 1
  BY <1>5, <1>6, <1>11
<1>13. PICK at : at = IF x.backup # "pending" THEN "sent" ELSE "probe"
  OBVIOUS
<1>14. PICK rest : Go(p, Frame(r, at, rest))
  BY <1>2, <1>4, <1>13 DEF WaitSendTest, ProgressOthersThen
<1>15. /\ OthersKept(r) /\ r \notin Starting /\ r \notin Starting' /\ r \notin Settled'
       /\ /\ Fits(req', r, at) /\ CalmElsewhere(p) /\ Chans(req', payload', Starting', Settled')
          /\ \A z \in Requests : req'[z].operation_number = req[z].operation_number
          => Outcome(p)
  BY <1>1, <1>2, <1>13, <1>14, GoOutcome
<1>16. Fits(req', r, at)
  BY <1>5, <1>8, <1>12, <1>13 DEF Fits, SendPlaces, RecvPlaces
<1>17. Rec(x) /\ Rec(x2)
  BY <1>3, <1>4, <1>8, RecOf
<1>18. SendInv(req[r], FALSE, FALSE) => SendInv(req'[r], FALSE, FALSE)
  <2>1. PICK no : no = FALSE
    OBVIOUS
  <2>2. no => x.backup # "pending" /\ x2.type \in {"rdma", "fallback"}
    BY <2>1
  <2>3. ASSUME SendInv(x, FALSE, FALSE) PROVE SendInv(x2, FALSE, no)
    BY <1>5, <1>11, <1>12, <1>17, <2>2, <2>3, SendDecides
  <2> QED
    BY <1>4, <1>8, <2>1, <2>3
<1>19. ASSUME NEW y \in Ends(ChannelOf(r), "R"), SendInv(req[r], FALSE, FALSE),
              PairInv(req[r], req[y], payload[ChannelOf(r)], FALSE, FALSE), FlagInv(req[r], req[y])
       PROVE  PairInv(req'[r], req[y], payload[ChannelOf(r)], FALSE, FALSE) /\ FlagInv(req'[r], req[y])
  <2>1. PICK no : no = FALSE
    OBVIOUS
  <2>2. no => x.backup # "pending" /\ x2.type \in {"rdma", "fallback"}
    BY <2>1
  <2>3. Rec(req[y]) /\ SendInv(x, FALSE, FALSE)
    BY <1>3, <1>4, <1>19, RecOf DEF Ends
  <2>4. PairInv(x, req[y], payload[ChannelOf(r)], FALSE, FALSE) /\ FlagInv(x, req[y])
    BY <1>4, <1>19
  <2>5. PairInv(x2, req[y], payload[ChannelOf(r)], FALSE, no)
    BY <1>5, <1>11, <1>12, <1>17, <2>2, <2>3, <2>4, SendDecides
  <2>6. FlagInv(x2, req[y])
    BY <1>5, <1>11, <1>12, <1>17, <2>2, <2>3, <2>4, SendDecides
  <2> QED
    BY <1>8, <2>1, <2>5, <2>6
<1>20. Chans(req', payload', Starting', Settled')
  BY <1>1, <1>2, <1>5, <1>9, <1>15, <1>18, <1>19, SendMoves
<1>21. CalmElsewhere(p)
  BY <1>2, <1>9, OneCalm
<1>22. \A z \in Requests : req'[z].operation_number = req[z].operation_number
  BY <1>4, <1>8, <1>9, <1>11
<1> QED
  BY <1>15, <1>16, <1>20, <1>21, <1>22

LEMMA WaitRecvDecides ==
  ASSUME OneRequestPerSide, UsedInTurn, MpiInv, Table(req'), NEW p \in Process, WaitRecvDecide(p)
  PROVE  Outcome(p)
<1>1. At(p, "decide") /\ UNCHANGED <<deployment, next>>
  BY DEF WaitRecvDecide
<1>2. PICK r \in Requests :
        /\ r = Call(p).on /\ r = Current(p) /\ OwnerOf(r) = p
        /\ Fits(req, r, "decide") /\ r \notin Settled
  BY <1>1, WaitAt
<1>3. IInv /\ Table(req) /\ payload \in [Channels -> Messages] /\ Chans(req, payload, Starting, Settled)
  BY Known
<1>4. PICK y : y = req[r] /\ y \in MPIOPT_Request
  BY <1>3, FieldsTyped
<1>5. SideOf(r) = "R" /\ y.type = "search" /\ y.operation_number = 1
  BY <1>2, <1>4 DEF Fits, SendPlaces, RecvPlaces
<1>6. PICK t : t = IF req[r].remote = Null THEN "fallback" ELSE "rdma"
  OBVIOUS
<1>7. PICK rq : rq = SetType(req, r, t)
  OBVIOUS
<1>8. Table(rq)
  BY <1>3, <1>6, <1>7, SetTyped DEF Alike, Types
<1>9. PICK y2 : y2 = rq[r]
  OBVIOUS
<1>10. /\ \A z \in Requests \ {r} : rq[z] = req[z]
       /\ y2.type = t /\ y2.backup = y.backup /\ y2.operation_number = y.operation_number
       /\ y2.buf = y.buf /\ SameFlags(y, y2)
  BY <1>3, <1>4, <1>7, <1>9 DEF Table, SetType, MPIOPT_Request, SameFlags
<1>11. IF req[r].backup = "null" THEN PostRecv(rq, r) ELSE req' = rq /\ UNCHANGED payload
  BY <1>2, <1>6, <1>7 DEF WaitRecvDecide, SetType
<1>12. Go(p, Frame(r, "receive", <<>>))
  BY <1>2 DEF WaitRecvDecide, GoTo
<1>13. /\ OthersKept(r) /\ r \notin Starting /\ r \notin Starting' /\ r \notin Settled'
       /\ /\ Fits(req', r, "receive") /\ CalmElsewhere(p) /\ Chans(req', payload', Starting', Settled')
          /\ \A z \in Requests : req'[z].operation_number = req[z].operation_number
          => Outcome(p)
  <2>1. PICK at : at = "receive" /\ at # "post" /\ at # "fetched"
    OBVIOUS
  <2>2. Go(p, Frame(r, at, <<>>))
    BY <1>12, <2>1
  <2>3. /\ OthersKept(r) /\ r \notin Starting /\ r \notin Starting'
        /\ r \in Settled' <=> at = "fetched"
        /\ /\ Fits(req', r, at) /\ CalmElsewhere(p) /\ Chans(req', payload', Starting', Settled')
           /\ \A z \in Requests : req'[z].operation_number = req[z].operation_number
           => Outcome(p)
    BY <1>1, <1>2, <2>1, <2>2, GoOutcome
  <2> QED
    BY <2>1, <2>3
<1>14. PICK no : no = FALSE
  OBVIOUS
<1>15. Status(r, Starting, Settled, no, no) /\ Status(r, Starting', Settled', no, no)
  BY <1>2, <1>13, <1>14, StatusIs
<1>16. RecvInv(y, payload[ChannelOf(r)], no, no)
  BY <1>3, <1>4, <1>5, <1>15, RecvEnd
<1>17. Rec(y) /\ Rec(y2)
  BY <1>3, <1>4, <1>8, <1>9, RecOf
<1>18. t \in {"rdma", "fallback"}
  BY <1>6
<1>19. /\ Chans(req', payload', Starting', Settled')
       /\ \A z \in Requests \ {r} : Calm(rq, req', z)
       /\ req'[r].operation_number = y2.operation_number /\ req'[r].type = y2.type
  <2>1. CASE req[r].backup = "null"
    <3>1. PostRecv(rq, r)
      BY <1>11, <2>1
    <3>2. y.operation_number = y.buf + 1
      BY <1>4, <1>5, <1>16, <1>17, <2>1 DEF RecvInv, Awaiting, Messaging, Rec
    <3>3. Takes(y, y2)
      BY <1>5, <1>10, <1>17, <1>18, <3>2 DEF Takes, Messaging, Rec
    <3>4. Takes(req[r], rq[r]) /\ rq[r].buf = req[r].buf
      BY <1>4, <1>9, <1>10, <3>3
    <3>5. req[r].type = "rdma" => rq[r].operation_number = req[r].operation_number
      BY <1>4, <1>5
    <3>6. no => rq[r].type = "search"
      BY <1>14
    <3>7. \A z \in Requests \ {r} : /\ rq[z] = req[z]
                                    /\ SameStatus(z, Starting, Starting', Settled, Settled')
      BY <1>10, <1>13 DEF OthersKept, SameStatus
    <3>8. Chans(req', payload', Starting', Settled')
      BY <1>3, <1>5, <1>8, <1>14, <1>15, <3>1, <3>4, <3>5, <3>6, <3>7, PostRecvChans
    <3> QED
      BY <1>3, <1>5, <1>8, <1>9, <3>1, <3>8, PostRecvCalm
  <2>2. CASE req[r].backup # "null"
    <3>1. req' = rq /\ payload' = payload
      BY <1>11, <2>2
    <3>2. PICK msgs : msgs = payload[ChannelOf(r)]
      OBVIOUS
    <3>3. RecvInv(y, msgs, FALSE, FALSE) => RecvInv(y2, msgs, FALSE, FALSE)
      BY <1>4, <1>5, <1>10, <1>17, <1>18, <2>2, RecvDecides
    <3>4. ASSUME NEW x \in Ends(ChannelOf(r), "S"), NEW sx, NEW dx,
                 RecvInv(y, msgs, FALSE, FALSE), PairInv(req[x], y, msgs, sx, dx), FlagInv(req[x], y)
          PROVE  PairInv(req[x], y2, msgs, sx, dx) /\ FlagInv(req[x], y2)
      <4>1. Rec(req[x])
        BY <1>3, RecOf DEF Ends
      <4>2. PairInv(req[x], y2, msgs, sx, dx)
        BY <1>4, <1>5, <1>10, <1>17, <1>18, <2>2, <3>4, <4>1, RecvDecides
      <4>3. FlagInv(req[x], y2)
        BY <1>4, <1>5, <1>10, <1>17, <1>18, <2>2, <3>4, <4>1, RecvDecides
      <4> QED
        BY <4>2, <4>3
    <3>5. /\ RecvInv(req[r], payload[ChannelOf(r)], FALSE, FALSE) =>
               RecvInv(req'[r], payload[ChannelOf(r)], FALSE, FALSE)
          /\ \A x \in Ends(ChannelOf(r), "S") : \A sx, dx :
               /\ RecvInv(req[r], payload[ChannelOf(r)], FALSE, FALSE)
               /\ PairInv(req[x], req[r], payload[ChannelOf(r)], sx, dx) /\ FlagInv(req[x], req[r])
               => PairInv(req[x], req'[r], payload[ChannelOf(r)], sx, dx) /\ FlagInv(req[x], req'[r])
      BY <1>4, <1>9, <3>1, <3>2, <3>3, <3>4
    <3>6. /\ \A z \in Requests \ {r} : req'[z] = req[z]
          /\ req'[r].buf = req[r].buf /\ req'[r].flag = req[r].flag
      BY <1>4, <1>9, <1>10, <3>1 DEF SameFlags
    <3>7. Chans(req', payload, Starting', Settled')
      BY <1>2, <1>5, <1>13, <3>5, <3>6, RecvMoves
    <3> QED
      BY <1>9, <3>1, <3>7 DEF Calm
  <2> QED
    BY <2>1, <2>2
<1>20. Fits(req', r, "receive")
  BY <1>5, <1>10, <1>18, <1>19 DEF Fits, SendPlaces, RecvPlaces
<1>21. CalmElsewhere(p) /\ \A z \in Requests : req'[z].operation_number = req[z].operation_number
  BY <1>2, <1>4, <1>10, <1>19 DEF CalmElsewhere, Calm
<1> QED
  BY <1>13, <1>19, <1>20, <1>21

LEMMA WaitRecvTests ==
  ASSUME OneRequestPerSide, UsedInTurn, MpiInv, Table(req'), NEW p \in Process, WaitRecvTest(p)
  PROVE  Outcome(p)
<1>1. At(p, "receive") /\ UNCHANGED <<deployment, next, payload>>
  BY DEF WaitRecvTest
<1>2. PICK r \in Requests :
        /\ r = Call(p).on /\ r = Current(p) /\ OwnerOf(r) = p
        /\ Fits(req, r, "receive") /\ r \notin Settled
  BY <1>1, WaitAt
<1>3. IInv /\ Table(req)
  BY Known
<1>4. PICK y : y = req[r] /\ y \in MPIOPT_Request
  BY <1>3, FieldsTyped
<1>5. SideOf(r) = "R" /\ y.type \in {"rdma", "fallback"} /\ y.operation_number = 1
  BY <1>2, <1>4 DEF Fits, SendPlaces, RecvPlaces
<1>6. PICK b : b = IF y.backup # "pending" THEN "null" ELSE y.backup
  OBVIOUS
<1>7. req' = [req EXCEPT ![r].backup = b]
  <2>1. req' = [req EXCEPT ![r].backup = IF req[r].backup # "pending" THEN "null" ELSE @]
    BY <1>2 DEF WaitRecvTest
  <2> QED
    BY <1>3, <1>4, <1>6, <2>1 DEF Table, MPIOPT_Request
<1>8. PICK y2 : y2 = req'[r]
  OBVIOUS
<1>9. /\ \A z \in Requests \ {r} : req'[z] = req[z]
      /\ y2.type = y.type /\ y2.backup = b /\ y2.operation_number = y.operation_number
      /\ y2.buf = y.buf /\ SameFlags(y, y2)
  BY <1>3, <1>4, <1>7, <1>8 DEF Table, MPIOPT_Request, SameFlags
<1>10. y2.backup = "pending" <=> y.backup = "pending"
  BY <1>6, <1>9
<1>11. PICK at : at = IF y.backup # "pending" THEN "received" ELSE "receive"
  OBVIOUS
<1>12. PICK rest : Go(p, Frame(r, at, rest))
  BY <1>2, <1>4, <1>11 DEF WaitRecvTest, ProgressOthersThen
<1>13. /\ OthersKept(r) /\ r \notin Starting /\ r \notin Starting' /\ r \notin Settled'
       /\ /\ Fits(req', r, at) /\ CalmElsewhere(p) /\ Chans(req', payload', Starting', Settled')
          /\ \A z \in Requests : req'[z].operation_number = req[z].operation_number
          => Outcome(p)
  BY <1>1, <1>2, <1>11, <1>12, GoOutcome
<1>14. Fits(req', r, at)
  BY <1>5, <1>6, <1>8, <1>9, <1>11 DEF Fits, SendPlaces, RecvPlaces
<1>15. Rec(y) /\ Rec(y2)
  BY <1>3, <1>4, <1>8, RecOf
<1>16. PICK no, msgs : no = FALSE /\ msgs = payload[ChannelOf(r)]
  OBVIOUS
<1>17. /\ no => no \/ (Messaging(y) /\ y.backup # "pending")
       /\ y.type \in {"rdma", "fallback", "plain"}
  BY <1>5, <1>16
<1>18. RecvInv(y, msgs, no, no) => RecvInv(y2, msgs, no, no)
  BY <1>9, <1>10, <1>15, <1>17, RecvCompletes
<1>19. ASSUME NEW x \in Ends(ChannelOf(r), "S"), NEW sx, NEW dx,
              RecvInv(y, msgs, no, no), PairInv(req[x], y, msgs, sx, dx), FlagInv(req[x], y)
       PROVE  PairInv(req[x], y2, msgs, sx, dx) /\ FlagInv(req[x], y2)
  <2>1. Rec(req[x])
    BY <1>3, RecOf DEF Ends
  <2>2. PairInv(req[x], y2, msgs, sx, dx)
    BY <1>9, <1>10, <1>15, <1>17, <1>19, <2>1, RecvCompletes
  <2>3. FlagInv(req[x], y2)
    BY <1>9, <1>10, <1>15, <1>17, <1>19, <2>1, RecvCompletes
  <2> QED
    BY <2>2, <2>3
<1>20. /\ RecvInv(req[r], payload[ChannelOf(r)], FALSE, FALSE) =>
            RecvInv(req'[r], payload[ChannelOf(r)], FALSE, FALSE)
       /\ \A x \in Ends(ChannelOf(r), "S") : \A sx, dx :
            /\ RecvInv(req[r], payload[ChannelOf(r)], FALSE, FALSE)
            /\ PairInv(req[x], req[r], payload[ChannelOf(r)], sx, dx) /\ FlagInv(req[x], req[r])
            => PairInv(req[x], req'[r], payload[ChannelOf(r)], sx, dx) /\ FlagInv(req[x], req'[r])
  BY <1>4, <1>8, <1>16, <1>18, <1>19
<1>21. req'[r].buf = req[r].buf /\ req'[r].flag = req[r].flag
  BY <1>4, <1>8, <1>9 DEF SameFlags
<1>22. Chans(req', payload', Starting', Settled')
  BY <1>1, <1>2, <1>5, <1>9, <1>13, <1>20, <1>21, RecvMoves
<1>23. CalmElsewhere(p)
  BY <1>2, <1>9, OneCalm
<1>24. \A z \in Requests : req'[z].operation_number = req[z].operation_number
  BY <1>4, <1>8, <1>9
<1> QED
  BY <1>13, <1>14, <1>22, <1>23, <1>24

LEMMA WaitCrosstalks ==
  ASSUME OneRequestPerSide, UsedInTurn, MpiInv, NEW p \in Process, WaitCrosstalk(p)
  PROVE  Outcome(p)
<1>1. At(p, "flag") /\ UNCHANGED <<deployment, next, payload>>
  BY DEF WaitCrosstalk
<1>2. PICK r \in Requests :
        /\ r = Call(p).on /\ r = Current(p) /\ OwnerOf(r) = p
        /\ Fits(req, r, "flag") /\ r \notin Settled
  BY <1>1, WaitAt
<1>3. IInv /\ Table(req) /\ Chans(req, payload, Starting, Settled)
  BY Known
<1>4. PICK n : n = req[r].operation_number /\ n \in Nat
  BY <1>3, FieldsTyped
<1>5. SideOf(r) = "R" /\ req[r].type = "rdma" /\ req[r].flag = 2 * n + 1 /\ req' = Fetch(req, r, n)
  BY <1>2, <1>4 DEF Fits, SendPlaces, RecvPlaces, WaitCrosstalk, ReadyFlag
<1>6. Go(p, Frame(r, "fetched", <<>>))
  BY <1>2 DEF WaitCrosstalk, GoTo
<1>7. /\ OthersKept(r) /\ r \notin Starting /\ r \notin Starting' /\ r \in Settled'
      /\ /\ Fits(req', r, "fetched") /\ CalmElsewhere(p) /\ Chans(req', payload', Starting', Settled')
         /\ \A z \in Requests : req'[z].operation_number = req[z].operation_number
         => Outcome(p)
  BY <1>1, <1>2, <1>6, GoOutcome
<1>8. req[r].remote \in Requests
  BY <1>3, <1>5, PeerEnd
<1>9. /\ \A z \in Requests \ {r} : req'[z] = req[z]
      /\ req'[r].type = "rdma" /\ req'[r].operation_number = n
  BY <1>3, <1>4, <1>5, <1>8, FetchFields
<1>10. PICK no, yes : no = FALSE /\ yes = TRUE
  OBVIOUS
<1>11. Status(r, Starting, Settled, FALSE, no) /\ Status(r, Starting', Settled', FALSE, yes)
  <2>1. Status(r, Starting, Settled, no, no) /\ Status(r, Starting', Settled', no, yes)
    BY <1>2, <1>7, <1>10, StatusIs
  <2> QED
    BY <1>10, <2>1
<1>12. \A z \in Requests \ {r} : /\ req[z] = req[z]
                                 /\ SameStatus(z, Starting, Starting', Settled, Settled')
  BY <1>7 DEF OthersKept, SameStatus
<1>13. SameFlags(req[r], req[r])
  BY DEF SameFlags
<1>14. Chans(req', payload, Starting', Settled')
  BY <1>3, <1>4, <1>5, <1>11, <1>12, <1>13, FetchChans
<1>15. Fits(req', r, "fetched")
  BY <1>5, <1>9 DEF Fits, SendPlaces, RecvPlaces
<1>16. CalmElsewhere(p)
  BY <1>2, <1>9, OneCalm
<1> QED
  BY <1>1, <1>4, <1>7, <1>9, <1>14, <1>15, <1>16

\* Looking for the peer in a wait.
LEMMA WaitSearches ==
  ASSUME OneRequestPerSide, UsedInTurn, MpiInv, Table(req'), NEW p \in Process,
         NEW place, place \notin {"block", "post", "fetched"}, At(p, place),
         UNCHANGED <<deployment, next>>, NEW r \in Requests, r = Call(p).on,
         NEW at, at \notin {"post", "fetched", "block"},
         SearchPeer(req, p, r, <<Frame(r, at, <<>>)>>), Fits(req, r, at)
  PROVE  Outcome(p)
<1>1. r \notin Settled /\ ~Ended(p) /\ Call(p).do = "wait" /\ OwnerOf(r) = p
  BY WaitAt
<1>2. IInv /\ Table(req) /\ payload \in [Channels -> Messages] /\ Chans(req, payload, Starting, Settled)
  BY Known
<1>3. PICK callers : callers = <<Frame(r, at, <<>>)>>
  OBVIOUS
<1>4. PICK T : T = {Frame(r, at, <<>>), Frame(r, "block", <<>>)}
  OBVIOUS
<1>5. callers \in Seq(T) /\ Frame(r, "block", <<>>) \in T /\ SearchPeer(req, p, r, callers)
  BY <1>3, <1>4
<1>6. Based(callers, r, at)
  BY <1>3, BasedOne
<1>7. PICK fs : stack' = [stack EXCEPT ![p] = fs] /\ Based(fs, r, at)
  BY <1>5, <1>6, SearchPeerStack
<1>8. /\ OthersKept(r) /\ r \notin Starting /\ r \notin Starting' /\ r \notin Settled'
      /\ /\ Fits(req', r, at) /\ CalmElsewhere(p) /\ Chans(req', payload', Starting', Settled')
         /\ \A z \in Requests : req'[z].operation_number = req[z].operation_number
         => Outcome(p)
  BY <1>1, <1>7, MoveOutcome
<1>9. \A z \in Requests : /\ Same(req[z], req[z])
                          /\ SameStatus(z, Starting, Starting', Settled, Settled')
  BY <1>1, <1>8 DEF Same, SameCalls, SameFlags, SameStatus, OthersKept
<1>10. Chans(req, payload, Starting', Settled')
  BY <1>2, <1>9, NoneChanged
<1>11. Chans(req', payload', Starting', Settled')
  BY <1>2, <1>5, <1>10, SearchPeerChans
<1>12. \A z \in Requests : Calm(req, req', z)
  BY <1>2, <1>5, SearchPeerCalm
<1>13. Fits(req', r, at)
  BY <1>12, FitsCalm
<1>14. CalmElsewhere(p) /\ \A z \in Requests : req'[z].operation_number = req[z].operation_number
  BY <1>12 DEF CalmElsewhere, Calm
<1> QED
  BY <1>8, <1>11, <1>13, <1>14

LEMMA WaitProbes ==
  ASSUME OneRequestPerSide, UsedInTurn, MpiInv, Table(req'), NEW p \in Process,
         WaitSendProbe(p) \/ WaitRecvProbe(p)
  PROVE  Outcome(p)
<1>1. UNCHANGED <<deployment, next>>
  BY DEF WaitSendProbe, WaitRecvProbe
<1>2. CASE WaitSendProbe(p)
  <2>1. At(p, "probe")
    BY <1>2 DEF WaitSendProbe
  <2>2. PICK r \in Requests : r = Call(p).on /\ r = Current(p) /\ Fits(req, r, "probe")
    BY <2>1, WaitAt
  <2>3. SearchPeer(req, p, r, <<Frame(r, "test", <<>>)>>)
    BY <1>2, <2>2 DEF WaitSendProbe
  <2>4. Fits(req, r, "test")
    BY <2>2 DEF Fits, SendPlaces, RecvPlaces
  <2> QED
    BY <1>1, <2>1, <2>2, <2>3, <2>4, WaitSearches
<1>3. CASE WaitRecvProbe(p)
  <2>1. PICK place \in {"again", "last"} : At(p, place)
    BY <1>3 DEF WaitRecvProbe
  <2>2. PICK r \in Requests : r = Call(p).on /\ r = Current(p) /\ Fits(req, r, place)
    BY <2>1, WaitAt
  <2>3. PICK at \in {"decide", "look"} : SearchPeer(req, p, r, <<Frame(r, at, <<>>)>>)
    BY <1>3, <2>2 DEF WaitRecvProbe
  <2>4. Fits(req, r, at)
    BY <2>1, <2>2, <2>3 DEF Fits, SendPlaces, RecvPlaces
  <2> QED
    BY <1>1, <2>1, <2>2, <2>3, <2>4, WaitSearches
<1> QED
  BY <1>2, <1>3

-----------------------------------------------------------------------------
(* The first start. *)

LEMMA FirstBegins ==
  ASSUME OneRequestPerSide, IInv, Table(req), payload \in [Channels -> Messages],
         NEW st, NEW dn, NEW st2, NEW dn2, Chans(req, payload, st, dn),
         NEW r \in Requests, req[r].type = "search",
         NEW rq, Table(rq),
         \A z \in Requests \ {r} : rq[z] = req[z] /\ SameStatus(z, st, st2, dn, dn2),
         rq[r].type = "search" /\ rq[r].backup = req[r].backup, SameFlags(req[r], rq[r]),
         rq[r].operation_number = req[r].operation_number + 1,
         rq[r].buf = IF SideOf(r) = "S" THEN rq[r].operation_number ELSE req[r].buf,
         Status(r, st, dn, FALSE, TRUE), Status(r, st2, dn2, TRUE, FALSE)
  PROVE  Chans(rq, payload, st2, dn2)
<1> DEFINE c == ChannelOf(r)
<1>1. PICK no, yes : no = FALSE /\ yes = TRUE
  OBVIOUS
<1>2. Status(r, st, dn, no, yes) /\ Status(r, st2, dn2, yes, no)
  BY <1>1
<1>3. PICK x, x2, msgs : x = req[r] /\ x2 = rq[r] /\ msgs = payload[c]
  OBVIOUS
<1>4. /\ Rec(x) /\ x.type = "search" /\ x2.type = "search" /\ x2.backup = x.backup
      /\ x2.operation_number = x.operation_number + 1 /\ SameFlags(x, x2)
  BY <1>3, RecOf
<1>5. SideOf(r) \in {"S", "R"} /\ c \in Channels
  BY RequestsTyped DEF Side
<1>6. CASE SideOf(r) = "S"
  <2>1. SendInv(x, FALSE, TRUE)
    <3>1. SendInv(x, no, yes)
      BY <1>2, <1>3, <1>6, SendEnd
    <3> QED
      BY <1>1, <3>1
  <2>2. x2.buf = x2.operation_number
    BY <1>3, <1>6
  <2>3. SendInv(x2, TRUE, FALSE)
    <3>1. PICK m : m = <<>> /\ Len(m) \in Nat
      OBVIOUS
    <3> QED
      BY <1>4, <2>1, <2>2, <3>1, SendFirst
  <2>4. ASSUME NEW y \in Ends(c, "R"), NEW sy, NEW dy, RecvInv(req[y], msgs, sy, dy)
        PROVE  PairInv(x2, req[y], msgs, yes, no) /\ FlagInv(x2, req[y])
    <3>1. Rec(req[y])
      BY RecOf DEF Ends
    <3>2. PairInv(x, req[y], msgs, no, yes) /\ FlagInv(x, req[y])
      BY <1>2, <1>3, <1>6, SendEnd
    <3>3. PairInv(x, req[y], msgs, FALSE, TRUE)
      BY <1>1, <3>2
    <3>4. Len(msgs) \in Nat
      BY <1>3, <1>5 DEF Messages
    <3>5. PairInv(x2, req[y], msgs, TRUE, FALSE)
      BY <1>4, <2>1, <2>2, <3>1, <3>3, <3>4, SendFirst
    <3>6. FlagInv(x2, req[y])
      BY <1>4, <2>1, <2>2, <3>1, <3>2, <3>4, SendFirst
    <3> QED
      BY <1>1, <3>5, <3>6
  <2>5. \A y \in Ends(c, "R") : \A sy, dy :
          RecvInv(req[y], payload[c], sy, dy) =>
            /\ RecvInv(req[y], payload[c], sy, dy)
            /\ PairInv(rq[r], req[y], payload[c], yes, no) /\ FlagInv(rq[r], req[y])
    BY <1>3, <2>4
  <2>6. SendInv(rq[r], yes, no)
    BY <1>1, <1>3, <2>3
  <2>7. \A i \in 1 .. Len(payload[c]) : payload[c][i].from \in Ends(c, "S")
    BY <1>5 DEF Chans, ChannelInv
  <2>8. Status(r, st2, dn2, yes, no)
    BY <1>2
  <2> QED
    BY <1>6, <2>5, <2>6, <2>7, <2>8, SendChanged
<1>7. CASE SideOf(r) = "R"
  <2>1. RecvInv(x, msgs, FALSE, TRUE)
    <3>1. RecvInv(x, msgs, no, yes)
      BY <1>2, <1>3, <1>7, RecvEnd
    <3> QED
      BY <1>1, <3>1
  <2>2. x2.buf = x.buf
    BY <1>3, <1>7
  <2>3. RecvInv(x2, msgs, TRUE, FALSE)
    BY <1>4, <2>1, <2>2, RecvFirst
  <2>4. ASSUME NEW z \in Ends(c, "S"), NEW sx, NEW dx,
               PairInv(req[z], x, msgs, sx, dx), FlagInv(req[z], x)
        PROVE  PairInv(req[z], x2, msgs, sx, dx) /\ FlagInv(req[z], x2)
    <3>1. Rec(req[z])
      BY RecOf DEF Ends
    <3>2. PairInv(req[z], x2, msgs, sx, dx)
      BY <1>4, <2>1, <2>2, <2>4, <3>1, RecvFirst
    <3>3. FlagInv(req[z], x2)
      BY <1>4, <2>1, <2>2, <2>4, <3>1, RecvFirst
    <3> QED
      BY <3>2, <3>3
  <2>5. RecvInv(rq[r], payload[c], yes, no)
    BY <1>1, <1>3, <2>3
  <2>6. Ends(c, "S") = {} => rq[r].buf = 0 /\ rq[r].flag = 0
    <3>1. Ends(c, "S") = {} => x.buf = 0 /\ x.flag = 0
      BY <1>2, <1>3, <1>7, RecvEnd
    <3> QED
      BY <1>3, <1>4, <2>2, <3>1 DEF SameFlags
  <2>7. \A z \in Ends(c, "S") : \A sx, dx :
          /\ SendInv(req[z], sx, dx) /\ PairInv(req[z], req[r], payload[c], sx, dx) /\ FlagInv(req[z], req[r])
          => PairInv(req[z], rq[r], payload[c], sx, dx) /\ FlagInv(req[z], rq[r])
    BY <1>3, <2>4
  <2>8. Status(r, st2, dn2, yes, no)
    BY <1>2
  <2> QED
    BY <1>7, <2>5, <2>6, <2>7, <2>8, RecvChanged
<1> QED
  BY <1>5, <1>6, <1>7

LEMMA StartSearches ==
  ASSUME OneRequestPerSide, UsedInTurn, MpiInv, Table(req'), NEW p \in Process, StartSearching(p)
  PROVE  Outcome(p)
<1>1. Calling(p, "start") /\ UNCHANGED <<deployment, next>>
  BY DEF StartSearching
<1>2. /\ TypeInv /\ PlaceInv /\ CountInv /\ IInv /\ Table(req) /\ payload \in [Channels -> Messages]
      /\ Chans(req, payload, Starting, Settled)
  BY Known
<1>3. PICK r \in Requests :
         /\ r = Call(p).on /\ OwnerOf(r) = p /\ ~Ended(p) /\ Call(p).do = "start"
         /\ r \notin Starting /\ r \in Settled /\ req[r].operation_number = Made(r, "start")
         /\ Table(Begun(r)) /\ \A z \in Requests \ {r} : Begun(r)[z] = req[z]
         /\ LET x == req[r] x2 == Begun(r)[r] IN
            /\ x2.type = x.type /\ x2.operation_number = x.operation_number + 1
            /\ x2.backup = x.backup /\ SameFlags(x, x2) /\ x2.remote = x.remote
            /\ x2.buf = IF SideOf(r) = "S" THEN x.operation_number + 1 ELSE x.buf
  BY <1>1, StartBegins
<1>4. PICK rq : rq = Begun(r)
  OBVIOUS
<1>5. /\ Table(rq) /\ \A z \in Requests \ {r} : rq[z] = req[z]
      /\ rq[r].type = req[r].type /\ rq[r].operation_number = req[r].operation_number + 1
      /\ rq[r].backup = req[r].backup /\ SameFlags(req[r], rq[r])
      /\ rq[r].buf = IF SideOf(r) = "S" THEN rq[r].operation_number ELSE req[r].buf
  BY <1>3, <1>4
<1>6. PICK callers : callers = <<Frame(r, "post", <<>>)>>
  OBVIOUS
<1>7. req[r].type = "search" /\ SearchPeer(rq, p, r, callers)
  BY <1>3, <1>4, <1>6 DEF StartSearching
<1>8. PICK T : T = {Frame(r, "post", <<>>), Frame(r, "block", <<>>)}
  OBVIOUS
<1>9. callers \in Seq(T) /\ Frame(r, "block", <<>>) \in T
  BY <1>6, <1>8
<1>10. PICK at : at = "post"
  OBVIOUS
<1>11. Based(callers, r, at)
  BY <1>6, <1>10, BasedOne
<1>12. PICK fs : stack' = [stack EXCEPT ![p] = fs] /\ Based(fs, r, at)
  BY <1>7, <1>9, <1>11, SearchPeerStack
<1>13. OthersKept(r) /\ r \in Starting' /\ r \notin Settled'
  <2>1. at = "post" <=> Call(p).do = "start"
    BY <1>3, <1>10
  <2>2. at # "fetched"
    BY <1>10
  <2>3. Based(fs, Call(p).on, at) /\ Call(p).do \in {"start", "wait"} /\ ~Ended(p)
    BY <1>3, <1>12
  <2>4. stack' = [stack EXCEPT ![p] = fs]
    BY <1>12
  <2>5. /\ OthersKept(Call(p).on)
        /\ Call(p).on \in Starting' <=> Call(p).do = "start"
        /\ Call(p).on \in Settled' <=> at = "fetched"
    BY <1>1, <1>2, <2>1, <2>3, <2>4, StatusMoves
  <2> QED
    BY <1>3, <2>2, <2>5
<1>14. Status(r, Starting, Settled, FALSE, TRUE) /\ Status(r, Starting', Settled', TRUE, FALSE)
  BY <1>3, <1>13 DEF Status
<1>15. \A z \in Requests \ {r} : /\ rq[z] = req[z]
                                 /\ SameStatus(z, Starting, Starting', Settled, Settled')
  BY <1>5, <1>13 DEF OthersKept, SameStatus
<1>16. Chans(rq, payload, Starting', Settled')
  BY <1>2, <1>5, <1>7, <1>14, <1>15, FirstBegins
<1>17. Chans(req', payload', Starting', Settled')
  BY <1>2, <1>5, <1>7, <1>16, SearchPeerChans
<1>18. \A z \in Requests : Calm(rq, req', z)
  BY <1>2, <1>5, <1>7, SearchPeerCalm
<1>19. CalmElsewhere(p) /\ \A z \in Requests \ {r} : req'[z].operation_number = req[z].operation_number
  BY <1>3, <1>5, <1>18 DEF CalmElsewhere, Calm
<1>20. req[r].operation_number = 0
  <2>1. PICK no, yes : no = FALSE /\ yes = TRUE
    OBVIOUS
  <2>2. Status(r, Starting, Settled, no, yes)
    BY <1>14, <2>1
  <2>3. SideOf(r) \in {"S", "R"}
    BY <1>2, RequestsTyped DEF Side
  <2>4. EndInv(req[r], no, yes)
    <3>1. CASE SideOf(r) = "S"
      BY <1>2, <2>2, <3>1, SendEnd DEF SendInv
    <3>2. CASE SideOf(r) = "R"
      BY <1>2, <2>2, <3>2, RecvEnd DEF RecvInv
    <3> QED
      BY <2>3, <3>1, <3>2
  <2> QED
    BY <1>7, <2>1, <2>4 DEF EndInv
<1>21. Fits(req', r, "post") /\ req'[r].operation_number = 1
  <2>1. rq[r].type = "search" /\ rq[r].operation_number = 1
    BY <1>5, <1>7, <1>20
  <2>2. Fits(rq, r, "post")
    BY <2>1 DEF Fits, SendPlaces, RecvPlaces
  <2> QED
    BY <1>18, <2>1, <2>2, FitsCalm DEF Calm
<1>22. Moves(p)
  BY <1>1, <1>3, <1>10, <1>12, <1>21 DEF Moves
<1>23. CountInv'
  <2>1. PICK K : K = {r}
    OBVIOUS
  <2>2. Made(r, "start")' = 0
    BY <1>1, <1>3, <1>20, MadeSame
  <2>3. Counted(r)'
    BY <1>13, <1>21, <2>2 DEF Counted
  <2>4. \A z \in Requests \ K : /\ req'[z].operation_number = req[z].operation_number
                                /\ z \in Starting' <=> z \in Starting
    BY <1>13, <1>19, <2>1 DEF OthersKept
  <2>5. K \subseteq Requests /\ Call(p).on \in K /\ \A z \in K : Counted(z)'
    BY <1>3, <2>1, <2>3 DEF Counted
  <2> QED
    BY <1>2, <1>22, <2>4, <2>5, CountStep
<1> QED
  BY <1>17, <1>19, <1>22, <1>23 DEF Outcome

-----------------------------------------------------------------------------
(* Steps of the progress engine. *)

LEMMA StaysOutcome ==
  ASSUME UsedInTurn, MpiInv, Table(req'), NEW p \in Process, InCall(p),
         UNCHANGED <<deployment, next>>, NEW fs, stack' = [stack EXCEPT ![p] = fs],
         Based(fs, Call(p).on, Bottom(p).at),
         \A z \in Requests : Calm(req, req', z),
         Chans(req', payload', Starting, Settled)
  PROVE  Outcome(p)
<1>1. TypeInv /\ PlaceInv /\ CountInv
  BY Known
<1>2. /\ ~Ended(p) /\ Call(p).do \in {"start", "wait"} /\ Call(p).on \in Requests
      /\ Bottom(p).at = "post" <=> Call(p).do = "start"
      /\ Fits(req, Call(p).on, Bottom(p).at)
  BY <1>1, BaseOf
<1>3. \A z \in Requests : (z \in Starting' <=> z \in Starting) /\ (z \in Settled' <=> z \in Settled)
  BY <1>1, StatusStays
<1>4. PICK r, at : r = Call(p).on /\ at = Bottom(p).at
  OBVIOUS
<1>5. Fits(req', r, at)
  BY <1>2, <1>4, FitsCalm
<1>6. Call(p).do = IF at = "post" THEN "start" ELSE "wait"
  BY <1>2, <1>4
<1>7. Moves(p)
  BY <1>2, <1>4, <1>5, <1>6 DEF Moves
<1>8. CalmElsewhere(p)
  BY DEF CalmElsewhere
<1>9. CountInv'
  <2>1. PICK K : K = {}
    OBVIOUS
  <2>2. \A z \in Requests \ K : /\ req'[z].operation_number = req[z].operation_number
                                /\ z \in Starting' <=> z \in Starting
    BY <1>3 DEF Calm
  <2>3. K \subseteq Requests /\ \A z \in K : Counted(z)'
    BY <2>1
  <2>4. ~ Returns(p)
    <3>1. next[p] \in Nat
      BY <1>1 DEF TypeInv, IInv
    <3> QED
      BY <1>1, <3>1 DEF Returns, Advances, TypeInv, IInv
  <2> QED
    BY <1>1, <1>7, <2>2, <2>3, <2>4, CountStep
<1>10. \A z \in Requests : /\ Same(req'[z], req'[z])
                           /\ SameStatus(z, Starting, Starting', Settled, Settled')
  BY <1>3 DEF Same, SameCalls, SameFlags, SameStatus
<1>11. Chans(req', payload', Starting', Settled')
  BY <1>10, NoneChanged
<1> QED
  BY <1>7, <1>8, <1>9, <1>11 DEF Outcome

\* The stack of a process that is in a call.
LEMMA InCallBased ==
  ASSUME MpiInv, NEW p \in Process, stack[p] # <<>>
  PROVE  /\ InCall(p) /\ stack[p] \in Seq(Frames(req, p))
         /\ Based(stack[p], Call(p).on, Bottom(p).at) /\ Bottom(p).at # "block"
  BY Known, BaseOf DEF InCall

LEMMA Blocks ==
  ASSUME OneRequestPerSide, UsedInTurn, MpiInv, Table(req'), NEW p \in Process,
         BlockRound(p) \/ BlockEnd(p)
  PROVE  Outcome(p)
<1>1. UNCHANGED <<deployment, next>> /\ stack[p] # <<>> /\ stack[p][1].at = "block"
  BY DEF BlockRound, BlockEnd, At
<1>2. /\ InCall(p) /\ stack[p] \in Seq(Frames(req, p))
      /\ Based(stack[p], Call(p).on, Bottom(p).at) /\ Bottom(p).at # "block"
  BY <1>1, InCallBased
<1>3. /\ TypeInv /\ IInv /\ Table(req) /\ payload \in [Channels -> Messages]
      /\ Chans(req, payload, Starting, Settled)
  BY Known
<1>4. CASE BlockRound(p)
  <2>1. PICK g : g = Frame(Current(p), "block", Others(p, Current(p)))
    OBVIOUS
  <2>2. stack' = [stack EXCEPT ![p] = <<g>> \o Tail(stack[p])]
    BY <1>4, <2>1 DEF BlockRound, ProgressOthersThen, Go
  <2>3. g.req = stack[p][1].req /\ g.at = stack[p][1].at
    BY <1>1, <2>1 DEF Frame, Current
  <2>4. PICK fs : fs = <<g>> \o Tail(stack[p])
    OBVIOUS
  <2>5. PICK T : T = Frames(req, p) \union {g}
    OBVIOUS
  <2>6. stack[p] \in Seq(T) /\ g \in T
    BY <1>2, <2>5
  <2>7. Based(fs, Call(p).on, Bottom(p).at)
    BY <1>1, <1>2, <2>3, <2>4, <2>6, BasedTop
  <2>8. \A z \in Requests : Calm(req, req', z)
    BY <1>4 DEF BlockRound, Calm
  <2>9. Chans(req', payload', Starting, Settled)
    BY <1>3, <1>4 DEF BlockRound
  <2> QED
    BY <1>1, <1>2, <2>2, <2>4, <2>7, <2>8, <2>9, StaysOutcome
<1>5. CASE BlockEnd(p)
  <2>1. stack' = [stack EXCEPT ![p] = Tail(stack[p])]
    BY <1>5 DEF BlockEnd
  <2>2. PICK fs : fs = Tail(stack[p])
    OBVIOUS
  <2>3. PICK at : at = Bottom(p).at
    OBVIOUS
  <2>4. Based(fs, Call(p).on, Bottom(p).at)
    BY <1>1, <1>2, <2>2, <2>3, BasedPop
  <2>5. Current(p) \in Requests
    BY <1>1, <1>3, TopTyped
  <2>6. PICK r : r = Current(p) /\ r \in Requests
    BY <2>5
  <2>7. (\A z \in Requests : Calm(req, req', z)) /\ Chans(req', payload', Starting, Settled)
    <3>1. CASE PostsReceive(req, r)
      <4>1. PostRecv(req, r)
        BY <1>5, <2>6, <3>1 DEF BlockEnd
      <4>2. Chans(req', payload', Starting, Settled)
        BY <1>3, <2>6, <3>1, <4>1, PostsReceiveChans
      <4>3. SideOf(r) = "R" /\ req[r].type = "search"
        BY <3>1 DEF PostsReceive
      <4>4. \A z \in Requests : Calm(req, req', z)
        BY <1>3, <2>6, <4>1, <4>3, PostRecvCalm
      <4> QED
        BY <4>2, <4>4
    <3>2. CASE ~PostsReceive(req, r)
      <4>1. req' = req /\ payload' = payload
        BY <1>5, <2>6, <3>2 DEF BlockEnd
      <4> QED
        BY <1>3, <4>1 DEF Calm
    <3> QED
      BY <3>1, <3>2
  <2> QED
    BY <1>1, <1>2, <2>1, <2>2, <2>4, <2>7, StaysOutcome
<1> QED
  BY <1>4, <1>5

\* The message of a request of type fallback has been received.
LEMMA ProgressFallback ==
  ASSUME OneRequestPerSide, MpiInv, Table(req'), NEW r \in Requests,
         req[r].type = "fallback", req[r].backup = "done",
         req' = [req EXCEPT ![r].backup = "null"]
  PROVE  Chans(req', payload, Starting, Settled)
<1> DEFINE c == ChannelOf(r)
<1>1. IInv /\ Table(req) /\ Chans(req, payload, Starting, Settled)
  BY Known
<1>2. PICK x, x2, msgs : x = req[r] /\ x2 = req'[r] /\ msgs = payload[c]
  OBVIOUS
<1>3. x \in MPIOPT_Request
  BY <1>1, <1>2, FieldsTyped
<1>4. /\ \A z \in Requests \ {r} : req'[z] = req[z]
      /\ x2.type = x.type /\ x2.operation_number = x.operation_number /\ x2.buf = x.buf
      /\ x2.backup = "null" /\ SameFlags(x, x2)
  BY <1>1, <1>2, <1>3 DEF Table, MPIOPT_Request, SameFlags
<1>5. /\ Rec(x) /\ Rec(x2) /\ x.type \in Ordinary /\ x.type \in {"rdma", "fallback", "plain"}
      /\ x2.backup = "pending" <=> x.backup = "pending"
  BY <1>1, <1>2, <1>4, RecOf DEF Ordinary
<1>6. PICK sr, dr : Status(r, Starting, Settled, sr, dr)
  BY DEF Status
<1>7. SideOf(r) \in {"S", "R"} /\ c \in Channels
  BY <1>1, RequestsTyped DEF Side
<1>8. \A z \in Requests \ {r} : /\ req'[z] = req[z]
                                /\ SameStatus(z, Starting, Starting, Settled, Settled)
  BY <1>4 DEF SameStatus
<1>9. CASE SideOf(r) = "S"
  <2>1. SendInv(x, sr, dr)
    BY <1>1, <1>2, <1>6, <1>9, SendEnd
  <2>2. SendInv(x2, sr, dr)
    BY <1>4, <1>5, <2>1, SendCompletes
  <2>3. ASSUME NEW y \in Ends(c, "R"), NEW sy, NEW dy, RecvInv(req[y], msgs, sy, dy)
        PROVE  PairInv(x2, req[y], msgs, sr, dr) /\ FlagInv(x2, req[y])
    <3>1. Rec(req[y])
      BY <1>1, RecOf DEF Ends
    <3>2. PairInv(x, req[y], msgs, sr, dr) /\ FlagInv(x, req[y])
      BY <1>1, <1>2, <1>6, <1>9, SendEnd
    <3>3. PairInv(x2, req[y], msgs, sr, dr)
      BY <1>4, <1>5, <2>1, <3>1, <3>2, SendCompletes
    <3>4. FlagInv(x2, req[y])
      BY <1>4, <1>5, <2>1, <3>1, <3>2, SendCompletes
    <3> QED
      BY <3>3, <3>4
  <2>4. \A y \in Ends(c, "R") : \A sy, dy :
          RecvInv(req[y], payload[c], sy, dy) =>
            /\ RecvInv(req[y], payload[c], sy, dy)
            /\ PairInv(req'[r], req[y], payload[c], sr, dr) /\ FlagInv(req'[r], req[y])
    BY <1>2, <2>3
  <2>5. SendInv(req'[r], sr, dr)
    BY <1>2, <2>2
  <2>6. \A i \in 1 .. Len(payload[c]) : payload[c][i].from \in Ends(c, "S")
    BY <1>1, <1>7 DEF Chans, ChannelInv
  <2> QED
    BY <1>1, <1>6, <1>8, <1>9, <2>4, <2>5, <2>6, SendChanged, ZenonT(60)
<1>10. CASE SideOf(r) = "R"
  <2>1. RecvInv(x, msgs, sr, dr)
    BY <1>1, <1>2, <1>6, <1>10, RecvEnd
  <2>2. RecvInv(x2, msgs, sr, dr)
    BY <1>4, <1>5, <2>1, RecvCompletes
  <2>3. ASSUME NEW z \in Ends(c, "S"), NEW sx, NEW dx,
               PairInv(req[z], x, msgs, sx, dx), FlagInv(req[z], x)
        PROVE  PairInv(req[z], x2, msgs, sx, dx) /\ FlagInv(req[z], x2)
    <3>1. Rec(req[z])
      BY <1>1, RecOf DEF Ends
    <3>2. PairInv(req[z], x2, msgs, sx, dx)
      BY <1>4, <1>5, <2>1, <2>3, <3>1, RecvCompletes
    <3>3. FlagInv(req[z], x2)
      BY <1>4, <1>5, <2>1, <2>3, <3>1, RecvCompletes
    <3> QED
      BY <3>2, <3>3
  <2>4. RecvInv(req'[r], payload[c], sr, dr)
    BY <1>2, <2>2
  <2>5. Ends(c, "S") = {} => req'[r].buf = 0 /\ req'[r].flag = 0
    <3>1. Ends(c, "S") = {} => x.buf = 0 /\ x.flag = 0
      BY <1>1, <1>2, <1>6, <1>10, RecvEnd
    <3> QED
      BY <1>2, <1>4, <3>1 DEF SameFlags
  <2>6. \A z \in Ends(c, "S") : \A sx, dx :
          /\ SendInv(req[z], sx, dx) /\ PairInv(req[z], req[r], payload[c], sx, dx) /\ FlagInv(req[z], req[r])
          => PairInv(req[z], req'[r], payload[c], sx, dx) /\ FlagInv(req[z], req'[r])
    BY <1>2, <2>3
  <2> QED
    BY <1>1, <1>6, <1>8, <1>10, <2>4, <2>5, <2>6, RecvChanged, ZenonT(60)
<1> QED
  BY <1>7, <1>9, <1>10

LEMMA ProgressFetches ==
  ASSUME OneRequestPerSide, MpiInv, NEW r \in Requests, SideOf(r) = "R", req[r].type = "rdma",
         NEW n \in Nat, n = req[r].operation_number, req[r].flag = 2 * n + 1,
         req' = Fetch(req, r, n)
  PROVE  Chans(req', payload, Starting, Settled) /\ \A z \in Requests : Calm(req, req', z)
<1>1. IInv /\ Table(req) /\ Chans(req, payload, Starting, Settled)
  BY Known
<1>2. PICK sr, dr : Status(r, Starting, Settled, sr, dr)
  BY DEF Status
<1>3. RecvInv(req[r], payload[ChannelOf(r)], sr, dr)
  BY <1>1, <1>2, RecvEnd
<1>4. r \notin Starting
  BY <1>2, <1>3 DEF RecvInv, EndInv, Status
<1>5. Status(r, Starting, Settled, FALSE, dr)
  BY <1>2, <1>4 DEF Status
<1>6. \A z \in Requests \ {r} : /\ req[z] = req[z]
                                /\ SameStatus(z, Starting, Starting, Settled, Settled)
  BY DEF SameStatus
<1>7. SameFlags(req[r], req[r])
  BY DEF SameFlags
<1>8. Chans(req', payload, Starting, Settled)
  BY <1>1, <1>5, <1>6, <1>7, FetchChans
<1>9. req[r].remote \in Requests
  BY <1>1, PeerEnd
<1>10. \A z \in Requests : Calm(req, req', z)
  BY <1>1, <1>9, FetchFields DEF Calm
<1> QED
  BY <1>8, <1>10

LEMMA Progresses ==
  ASSUME OneRequestPerSide, UsedInTurn, MpiInv, Table(req'), NEW p \in Process, ProgressNext(p)
  PROVE  Outcome(p)
<1>1. UNCHANGED <<deployment, next>> /\ stack[p] # <<>> /\ stack[p][1].rest # <<>>
  BY DEF ProgressNext
<1>2. /\ InCall(p) /\ stack[p] \in Seq(Frames(req, p))
      /\ Based(stack[p], Call(p).on, Bottom(p).at) /\ Bottom(p).at # "block"
  BY <1>1, InCallBased
<1>3. /\ TypeInv /\ IInv /\ Table(req) /\ payload \in [Channels -> Messages]
      /\ Chans(req, payload, Starting, Settled)
  BY Known
<1>4. PICK f : f = stack[p][1] /\ f \in Frames(req, p)
  BY <1>1, <1>3, TopTyped
<1>5. /\ f.rest \in Seq(Owned(p)) /\ f.rest # <<>> /\ f.req \in Owned(p) /\ f.at \in Places
      /\ f.at \in {"flush", "flag", "fetched"} => req[f.req].remote # Null
  BY <1>1, <1>4 DEF Frames
<1>6. PICK r, rest : r = Head(f.rest) /\ rest = Tail(f.rest) /\ r \in Owned(p) /\ rest \in Seq(Owned(p))
  <2>1. PICK T, s : T = Owned(p) /\ s = f.rest
    OBVIOUS
  <2>2. s \in Seq(T) /\ s # <<>>
    BY <1>5, <2>1
  <2>3. Head(s) \in T /\ Tail(s) \in Seq(T)
    BY <2>2, HeadTailProperties
  <2> QED
    BY <2>1, <2>3
<1>7. r \in Requests
  BY <1>3, <1>6, OwnedTyped
<1>8. PICK g : g = Frame(f.req, f.at, rest)
  OBVIOUS
<1>9. g \in Frames(req, p) /\ g.req = stack[p][1].req /\ g.at = stack[p][1].at
  <2>1. g \in Frames(req, p)
    BY <1>5, <1>6, <1>8, FrameTyped
  <2> QED
    BY <1>4, <1>8, <2>1 DEF Frame
<1>10. PICK fs : fs = <<g>> \o Tail(stack[p])
  OBVIOUS
<1>11. Based(fs, Call(p).on, Bottom(p).at) /\ fs \in Seq(Frames(req, p))
  <2>1. Based(fs, Call(p).on, Bottom(p).at)
    BY <1>1, <1>2, <1>9, <1>10, BasedTop
  <2>2. fs \in Seq(Frames(req, p))
    BY <1>1, <1>2, <1>9, <1>10, EntersTyped
  <2> QED
    BY <2>1, <2>2
<1>12. \/ req[r].type = "search" /\ SearchPeer(req, p, r, fs)
       \/ /\ req[r].type = "rdma" /\ SideOf(r) = "R" /\ req[r].flag = ReadyFlag(r)
          /\ req' = Fetch(req, r, req[r].operation_number)
          /\ Go(p, g) /\ UNCHANGED payload
       \/ /\ req[r].type = "fallback" /\ req[r].backup = "done"
          /\ req' = [req EXCEPT ![r].backup = "null"]
          /\ Go(p, g) /\ UNCHANGED payload
       \/ Go(p, g) /\ UNCHANGED <<req, payload>>
  BY <1>4, <1>6, <1>8, <1>10 DEF ProgressNext
<1>13. CASE req[r].type = "search" /\ SearchPeer(req, p, r, fs)
  <2>1. Frame(r, "block", <<>>) \in Frames(req, p)
    <3>1. PICK at : at = "block" /\ at \in Places \ {"flush", "flag", "fetched"}
      BY DEF Places
    <3> QED
      BY <1>6, <3>1, PlainFrame
  <2>2. PICK q, at : q = Call(p).on /\ at = Bottom(p).at
    OBVIOUS
  <2>3. PICK fs2 : stack' = [stack EXCEPT ![p] = fs2] /\ Based(fs2, q, at)
    BY <1>11, <1>13, <2>1, <2>2, SearchPeerStack
  <2>4. Chans(req', payload', Starting, Settled)
    BY <1>3, <1>7, <1>13, SearchPeerChans
  <2>5. \A z \in Requests : Calm(req, req', z)
    BY <1>3, <1>7, <1>13, SearchPeerCalm
  <2>6. Based(fs2, Call(p).on, Bottom(p).at)
    BY <2>2, <2>3
  <2> QED
    BY <1>1, <1>2, <2>3, <2>4, <2>5, <2>6, StaysOutcome
<1>14. ASSUME Go(p, g), \A z \in Requests : Calm(req, req', z), Chans(req', payload', Starting, Settled)
       PROVE  Outcome(p)
  <2>1. stack' = [stack EXCEPT ![p] = fs]
    BY <1>10, <1>14 DEF Go
  <2> QED
    BY <1>1, <1>2, <1>11, <1>14, <2>1, StaysOutcome
<1>15. CASE /\ req[r].type = "rdma" /\ SideOf(r) = "R" /\ req[r].flag = ReadyFlag(r)
            /\ req' = Fetch(req, r, req[r].operation_number)
            /\ Go(p, g) /\ UNCHANGED payload
  <2>1. PICK n : n = req[r].operation_number /\ n \in Nat
    BY <1>3, <1>7, FieldsTyped
  <2>2. req[r].flag = 2 * n + 1 /\ req' = Fetch(req, r, n)
    BY <1>15, <2>1 DEF ReadyFlag
  <2>3. Chans(req', payload, Starting, Settled) /\ \A z \in Requests : Calm(req, req', z)
    BY <1>7, <1>15, <2>1, <2>2, ProgressFetches
  <2> QED
    BY <1>14, <1>15, <2>3
<1>16. CASE /\ req[r].type = "fallback" /\ req[r].backup = "done"
            /\ req' = [req EXCEPT ![r].backup = "null"]
            /\ Go(p, g) /\ UNCHANGED payload
  <2>1. Chans(req', payload, Starting, Settled)
    BY <1>7, <1>16, ProgressFallback
  <2>2. \A z \in Requests : Calm(req, req', z)
    BY <1>3, <1>7, <1>16 DEF Calm, Table, MPIOPT_Request
  <2> QED
    BY <1>14, <1>16, <2>1, <2>2
<1>17. CASE Go(p, g) /\ UNCHANGED <<req, payload>>
  <2>1. \A z \in Requests : Calm(req, req', z)
    BY <1>17 DEF Calm
  <2>2. Chans(req', payload', Starting, Settled)
    BY <1>3, <1>17
  <2> QED
    BY <1>14, <1>17, <2>1, <2>2
<1> QED
  BY <1>12, <1>13, <1>15, <1>16, <1>17

-----------------------------------------------------------------------------
(* The network. *)

\* What a put writes.
PutOf(rq, r, new) ==
  LET q == rq[r].remote IN
  /\ \A z \in Requests : SameCalls(rq[z], new[z])
  /\ \A z \in Requests \ {r, q} : new[z] = rq[z]
  /\ new[r].puts = Tail(rq[r].puts)
  /\ q # r => new[r].flag = rq[r].flag
  /\ q \in Requests \ {r} => new[q].flag = Head(rq[r].puts) /\ new[q].puts = rq[q].puts

LEMMA PutFields ==
  ASSUME Table(req), NEW r \in Requests, PutFlag(r)
  PROVE  PutOf(req, r, req')
<1>1. PICK q, e, s : q = req[r].remote /\ e = Head(req[r].puts) /\ s = Tail(req[r].puts)
  OBVIOUS
<1>2. req' = SetPuts(SetFlag(req, q, e), r, s)
  BY <1>1 DEF PutFlag, SetPuts, SetFlag, Table, MPIOPT_Request
<1>3. PICK a : a = SetFlag(req, q, e)
  OBVIOUS
<1>4. req \in [Requests -> MPIOPT_Request]
  BY DEF Table
<1>5. /\ DOMAIN a = Requests /\ \A z \in Requests \ {q} : a[z] = req[z]
      /\ q \in Requests => a[q] = [req[q] EXCEPT !.flag = e]
  BY <1>3, <1>4 DEF SetFlag
<1>6. /\ \A z \in Requests \ {r} : req'[z] = a[z]
      /\ req'[r] = [a[r] EXCEPT !.puts = s]
  BY <1>2, <1>3, <1>5 DEF SetPuts
<1>7. \A z \in Requests \ {r, q} : req'[z] = req[z]
  BY <1>5, <1>6
<1>8. PICK x : x = req[r] /\ x \in MPIOPT_Request
  BY <1>4
<1>9. CASE q = r
  <2>1. req'[r] = [[x EXCEPT !.flag = e] EXCEPT !.puts = s]
    BY <1>5, <1>6, <1>8, <1>9
  <2>2. SameCalls(x, req'[r]) /\ req'[r].puts = s
    BY <1>8, <2>1 DEF SameCalls, MPIOPT_Request
  <2>3. \A z \in Requests : SameCalls(req[z], req'[z])
    BY <1>7, <1>8, <1>9, <2>2 DEF SameCalls
  <2> QED
    BY <1>1, <1>7, <1>9, <2>2, <2>3 DEF PutOf
<1>10. CASE q # r
  <2>1. req'[r] = [x EXCEPT !.puts = s]
    BY <1>5, <1>6, <1>8, <1>10
  <2>2. SameCalls(x, req'[r]) /\ req'[r].puts = s /\ req'[r].flag = x.flag
    BY <1>8, <2>1 DEF SameCalls, MPIOPT_Request
  <2>3. ASSUME q \in Requests
        PROVE  SameCalls(req[q], req'[q]) /\ req'[q].flag = e /\ req'[q].puts = req[q].puts
    <3>1. PICK y : y = req[q] /\ y \in MPIOPT_Request
      BY <1>4, <2>3
    <3>2. req'[q] = [y EXCEPT !.flag = e]
      BY <1>5, <1>6, <1>10, <2>3, <3>1
    <3> QED
      BY <3>1, <3>2 DEF SameCalls, MPIOPT_Request
  <2>4. \A z \in Requests : SameCalls(req[z], req'[z])
    BY <1>7, <1>8, <2>2, <2>3 DEF SameCalls
  <2> QED
    BY <1>1, <1>7, <1>8, <1>10, <2>2, <2>3, <2>4 DEF PutOf
<1> QED
  BY <1>9, <1>10

\* The invariants of one end are not about flags.
LEMMA CallsOnly ==
  ASSUME NEW x, NEW x2, NEW msgs, NEW s, NEW d, SameCalls(x, x2)
  PROVE  /\ SendInv(x, s, d) => SendInv(x2, s, d)
         /\ RecvInv(x, msgs, s, d) => RecvInv(x2, msgs, s, d)
<1>1. SendInv(x, s, d) => SendInv(x2, s, d)
  BY DEF SendInv, EndInv, SameCalls
<1>2. RecvInv(x, msgs, s, d) => RecvInv(x2, msgs, s, d)
  BY DEF RecvInv, EndInv, SameCalls, Messaging, Awaiting
<1> QED
  BY <1>1, <1>2

LEMMA PairCalls ==
  ASSUME NEW x, NEW x2, NEW y, NEW y2, NEW msgs, NEW s, NEW d, SameCalls(x, x2), SameCalls(y, y2),
         PairInv(x, y, msgs, s, d)
  PROVE  PairInv(x2, y2, msgs, s, d)
  BY DEF PairInv, SameCalls, Messaging, Sent

\* The network carries out a put: no flag says more than is true.
LEMMA PutChans ==
  ASSUME OneRequestPerSide, MpiInv, Table(req'), NEW r \in Requests, PutFlag(r)
  PROVE  Chans(req', payload, Starting, Settled)
<1> DEFINE c == ChannelOf(r)
<1>1. IInv /\ Table(req) /\ Chans(req, payload, Starting, Settled)
  BY Known
<1>2. PutOf(req, r, req') /\ req[r].puts # <<>>
  BY <1>1, PutFields DEF PutFlag
<1>3. SideOf(r) \in {"S", "R"} /\ c \in Channels
  BY <1>1, RequestsTyped DEF Side
<1>4. \A i \in 1 .. Len(payload[c]) : payload[c][i].from \in Ends(c, "S")
  BY <1>1, <1>3 DEF Chans, ChannelInv
<1>5. PICK q : q = req[r].remote
  OBVIOUS
<1>6. q \in Requests \union {Null}
  BY <1>1, <1>5, FieldsTyped
<1>0. Null \notin Requests
  BY <1>1, NullAssumption DEF IInv, Requests
<1>7. q # Null => q \in Requests /\ ChannelOf(q) = c /\ SideOf(q) # SideOf(r) /\ SideOf(q) \in {"S", "R"}
  BY <1>1, <1>5, RequestsTyped DEF IInv, Sound, Paired, Side
<1>8. PICK sr, dr : Status(r, Starting, Settled, sr, dr)
  BY DEF Status
<1>9. /\ \A z \in Requests : SameCalls(req[z], req'[z])
      /\ \A z \in Requests \ {r, q} : req'[z] = req[z]
      /\ req'[r].puts = Tail(req[r].puts)
      /\ q # r => req'[r].flag = req[r].flag
      /\ q \in Requests \ {r} => req'[q].flag = Head(req[r].puts) /\ req'[q].puts = req[q].puts
  BY <1>2, <1>5 DEF PutOf
<1>10. CASE q # Null
  <2>1. q # r /\ q \in Requests /\ ChannelOf(q) = c /\ SideOf(q) # SideOf(r) /\ SideOf(q) \in {"S", "R"}
    BY <1>7, <1>10
  <2>2. PICK sq, dq : Status(q, Starting, Settled, sq, dq)
    BY DEF Status
  <2>3. Rec(req[r]) /\ Rec(req[q])
    BY <1>1, <2>1, RecOf
  <2>4. SameCalls(req[r], req'[r]) /\ SameCalls(req[q], req'[q])
    BY <1>9, <2>1
  <2>5. \A z \in Requests \ {r, q} : req'[z] = req[z] /\ SameStatus(z, Starting, Starting, Settled, Settled)
    BY <1>9 DEF SameStatus
  <2>6. CASE SideOf(r) = "S"
    <3>1. SideOf(q) = "R" /\ q \in Ends(ChannelOf(r), "R")
      BY <1>10, <2>1, <2>6 DEF Ends
    <3>2. /\ SendInv(req[r], sr, dr) /\ PairInv(req[r], req[q], payload[c], sr, dr)
          /\ FlagInv(req[r], req[q])
      BY <1>1, <1>8, <2>6, <3>1, SendEnd
    <3>3. RecvInv(req[q], payload[c], sq, dq)
      BY <1>1, <1>10, <2>1, <2>2, <3>1, RecvEnd
    <3>4. SendInv(req'[r], sr, dr) /\ RecvInv(req'[q], payload[c], sq, dq)
      BY <2>4, <3>2, <3>3, CallsOnly
    <3>5. PairInv(req'[r], req'[q], payload[c], sr, dr)
      BY <2>4, <3>2, PairCalls
    <3>6. FlagInv(req'[r], req'[q])
      BY <1>2, <1>9, <1>10, <2>1, <2>3, <2>4, <3>2, SendPutArrives
    <3> QED
      BY <1>1, <1>4, <1>8, <1>10, <2>1, <2>2, <2>5, <2>6, <3>1, <3>4, <3>5, <3>6, BothChanged
  <2>7. CASE SideOf(r) = "R"
    <3>1. SideOf(q) = "S" /\ r \in Ends(ChannelOf(q), "R")
      BY <1>10, <2>1, <2>7 DEF Ends
    <3>2. /\ SendInv(req[q], sq, dq) /\ PairInv(req[q], req[r], payload[c], sq, dq)
          /\ FlagInv(req[q], req[r])
      BY <1>1, <1>10, <2>1, <2>2, <3>1, SendEnd
    <3>3. RecvInv(req[r], payload[c], sr, dr)
      BY <1>1, <1>8, <2>7, RecvEnd
    <3>4. SendInv(req'[q], sq, dq) /\ RecvInv(req'[r], payload[c], sr, dr)
      BY <2>4, <3>2, <3>3, CallsOnly
    <3>5. PairInv(req'[q], req'[r], payload[c], sq, dq)
      BY <2>4, <3>2, PairCalls
    <3>6. FlagInv(req'[q], req'[r])
      BY <1>2, <1>9, <1>10, <2>1, <2>3, <2>4, <3>2, RecvPutArrives
    <3> QED
      BY <1>1, <1>4, <1>8, <1>10, <2>1, <2>2, <2>5, <2>7, <3>1, <3>4, <3>5, <3>6, BothChanged
  <2> QED
    BY <1>3, <2>6, <2>7
<1>11. CASE q = Null
  <2>1. SameCalls(req[r], req'[r]) /\ req'[r].flag = req[r].flag
    BY <1>0, <1>9, <1>11
  <2>2. req[r].type # "rdma"
    BY <1>1, <1>5, <1>11 DEF Table
  <2>3. \A z \in Requests \ {r} : req'[z] = req[z] /\ SameStatus(z, Starting, Starting, Settled, Settled)
    BY <1>0, <1>9, <1>11 DEF SameStatus
  <2>4. CASE SideOf(r) = "S"
    <3>1. SendInv(req[r], sr, dr)
      BY <1>1, <1>8, <2>4, SendEnd
    <3>2. SendInv(req'[r], sr, dr)
      BY <2>1, <3>1, CallsOnly
    <3>3. Ends(c, "R") = {}
      <4>1. \A y \in Ends(c, "R") : FlagInv(req[r], req[y])
        BY <1>1, <1>8, <2>4, SendEnd
      <4> QED
        BY <1>2, <2>2, <4>1 DEF FlagInv
    <3>4. \A y \in Ends(c, "R") : \A sy, dy :
            RecvInv(req[y], payload[c], sy, dy) =>
              /\ RecvInv(req[y], payload[c], sy, dy)
              /\ PairInv(req'[r], req[y], payload[c], sr, dr) /\ FlagInv(req'[r], req[y])
      BY <3>3
    <3> QED
      BY <1>1, <1>4, <1>8, <2>3, <2>4, <3>2, <3>4, SendChanged
  <2>5. CASE SideOf(r) = "R"
    <3>1. RecvInv(req[r], payload[c], sr, dr)
      BY <1>1, <1>8, <2>5, RecvEnd
    <3>2. RecvInv(req'[r], payload[c], sr, dr)
      BY <2>1, <3>1, CallsOnly
    <3>3. Ends(c, "S") = {}
      <4>1. ASSUME NEW x \in Ends(c, "S") PROVE FALSE
        <5>1. x \in Requests /\ SideOf(x) = "S" /\ r \in Ends(ChannelOf(x), "R")
          BY <2>5, <4>1 DEF Ends
        <5>2. PICK sx, dx : Status(x, Starting, Settled, sx, dx)
          BY DEF Status
        <5>3. FlagInv(req[x], req[r])
          BY <1>1, <5>1, <5>2, SendEnd
        <5> QED
          BY <1>2, <2>2, <5>3 DEF FlagInv
      <4> QED
        BY <4>1
    <3>4. \A x \in Ends(c, "S") : \A sx, dx :
            /\ SendInv(req[x], sx, dx) /\ PairInv(req[x], req[r], payload[c], sx, dx) /\ FlagInv(req[x], req[r])
            => PairInv(req[x], req'[r], payload[c], sx, dx) /\ FlagInv(req[x], req'[r])
      BY <3>3
    <3>5. Ends(c, "S") = {} => req'[r].buf = 0 /\ req'[r].flag = 0
      BY <1>1, <1>8, <2>1, <2>5, RecvEnd DEF SameCalls
    <3> QED
      BY <1>1, <1>8, <2>3, <2>5, <3>2, <3>4, <3>5, RecvChanged
  <2> QED
    BY <1>3, <2>4, <2>5
<1> QED
  BY <1>6, <1>10, <1>11

-----------------------------------------------------------------------------
(* The invariant. *)

\* A step between the calls of the processes.
LEMMA QuietInv ==
  ASSUME MpiInv, TypeInv', UNCHANGED <<deployment, next, stack>>,
         \A z \in Requests : Calm(req, req', z),
         Chans(req', payload', Starting, Settled)
  PROVE  MpiInv'
<1>1. TypeInv /\ PlaceInv /\ CountInv /\ IInv
  BY Known
<1>2. Requests' = Requests /\ \A r, do : Made(r, do)' = Made(r, do)
  BY MadeSame DEF Requests
<1>3. \A r : OwnerOf(r)' = OwnerOf(r)
  BY DEF OwnerOf, ChannelOf, SideOf
<1>4. Starting' = Starting /\ Settled' = Settled
  <2>1. Starting' = Starting
    BY <1>2, <1>3 DEF Starting, InCall, Bottom
  <2>2. Idle' = Idle
    BY <1>2, <2>1 DEF Idle
  <2>3. Fetched' = Fetched
    BY <1>2, <1>3 DEF Fetched, InCall, Bottom
  <2> QED
    BY <2>1, <2>2, <2>3 DEF Settled
<1>5. CountInv'
  BY <1>1, <1>2, <1>4 DEF CountInv, Calm
<1>6. (\A c \in Channels : ChannelInv(c, req, payload, Starting, Settled))'
  BY <1>4, ChansPrimed
<1>7. PlaceInv'
  <2> SUFFICES ASSUME NEW p \in Process
               PROVE  /\ next'[p] <= Len(Program(p)') + 1
                      /\ InCall(p)' =>
                           /\ ~Ended(p)'
                           /\ \A i \in 1 .. Len(stack'[p]) - 1 : stack'[p][i].at = "block"
                           /\ Bottom(p)'.req = Call(p)'.on
                           /\ Call(p)'.do = IF Bottom(p)'.at = "post" THEN "start" ELSE "wait"
                           /\ Fits(req, Bottom(p).req, Bottom(p).at)'
    BY DEF PlaceInv
  <2>1. /\ Program(p)' = Program(p) /\ (InCall(p)' <=> InCall(p)) /\ (Ended(p)' <=> Ended(p))
        /\ Bottom(p)' = Bottom(p) /\ Call(p)' = Call(p)
    BY DEF Program, InCall, Ended, Bottom, Call
  <2>2. ASSUME InCall(p) PROVE Fits(req, Bottom(p).req, Bottom(p).at)'
    <3>1. PICK r, at : r = Bottom(p).req /\ at = Bottom(p).at
      OBVIOUS
    <3>2. r \in Requests /\ Fits(req, r, at)
      BY <1>1, <2>2, <3>1, BaseOf
    <3>3. Fits(req, r, at)'
      BY <3>2, FitsCalm, FitsPrimed
    <3>4. r = Bottom(p)'.req /\ at = Bottom(p)'.at
      BY <2>1, <3>1
    <3> QED
      BY <3>3, <3>4 DEF Fits, SideOf
  <2> QED
    BY <1>1, <2>1, <2>2 DEF PlaceInv
<1> QED
  BY <1>5, <1>6, <1>7 DEF MpiInv

\* Every step of a process, whatever the action.
LEMMA StepOutcome ==
  ASSUME OneRequestPerSide, UsedInTurn, MpiInv, NEW p \in Process, Step(p)
  PROVE  Outcome(p)
<1>1. Table(req')
  BY Known, StepTyped DEF Typed
<1>2. CASE \/ InitRequest(p) \/ StartRdma(p) \/ StartOrdinary(p) \/ StartSearching(p) \/ PostFirst(p)
  BY <1>1, <1>2, InitRequests, StartRdmas, StartOrdinaries, StartSearches, PostFirsts
<1>3. CASE \/ Wait(p) \/ WaitSendProbe(p) \/ WaitSendTest(p) \/ WaitSendEnd(p)
  BY <1>1, <1>3, WaitBegins, WaitProbes, WaitSendTests, WaitSendEnds
<1>4. CASE \/ WaitRecvLook(p) \/ WaitRecvProbe(p) \/ WaitRecvDecide(p)
           \/ WaitRecvTest(p) \/ WaitRecvEnd(p)
  BY <1>1, <1>4, WaitGoesOn, WaitProbes, WaitRecvDecides, WaitRecvTests, WaitRecvEnds
<1>5. CASE \/ WaitFlush(p) \/ WaitFlagRound(p) \/ WaitFlagEnd(p)
           \/ WaitCrosstalk(p) \/ WaitFetched(p) \/ WaitOrdinary(p)
  BY <1>1, <1>5, WaitGoesOn, WaitFlagEnds, WaitCrosstalks, WaitFetches, WaitOrdinaryEnds
<1>6. CASE \/ BlockRound(p) \/ BlockEnd(p) \/ ProgressNext(p)
           \/ FreeRequest(p) \/ Finalize(p) \/ Barrier(p)
  BY <1>1, <1>6, Blocks, Progresses, OtherReturns
<1> QED
  BY <1>2, <1>3, <1>4, <1>5, <1>6 DEF Step

LEMMA NextMpiInv ==
  ASSUME OneRequestPerSide, UsedInTurn, MpiInv, [Next]_vars
  PROVE  MpiInv'
<1>1. TypeInv' /\ TypeInv /\ IInv /\ Table(req) /\ Chans(req, payload, Starting, Settled)
  BY Known, NextTypeInv
<1>2. ASSUME NEW p \in Process, Step(p) PROVE MpiInv'
  BY <1>1, <1>2, StepOutcome, OutcomeInv
<1>3. ASSUME NEW r \in Requests, PutFlag(r) PROVE MpiInv'
  <2>1. UNCHANGED <<deployment, next, stack>> /\ payload' = payload
    BY <1>3 DEF PutFlag
  <2>2. Table(req')
    BY <1>1, <1>3, PutFlagTyped, AlikeKeeps
  <2>3. \A z \in Requests : Calm(req, req', z)
    BY <1>1, <1>3, PutFields DEF PutOf, SameCalls, Calm
  <2>4. Chans(req', payload', Starting, Settled)
    BY <1>3, <2>1, <2>2, PutChans
  <2> QED
    BY <1>1, <2>1, <2>3, <2>4, QuietInv
<1>4. CASE AllEnded \/ UNCHANGED vars
  <2>1. UNCHANGED <<deployment, next, stack, req, payload>>
    BY <1>4 DEF AllEnded, vars
  <2>2. \A z \in Requests : Calm(req, req', z)
    BY <2>1 DEF Calm
  <2>3. Chans(req', payload', Starting, Settled)
    BY <1>1, <2>1
  <2> QED
    BY <1>1, <2>1, <2>2, <2>3, QuietInv
<1> QED
  BY <1>2, <1>3, <1>4 DEF Next

\* In the beginning there are neither calls nor messages.
LEMMA InitMpiInv == Init => MpiInv
<1> SUFFICES ASSUME Init PROVE MpiInv
  OBVIOUS
<1>1. TypeInv /\ IInv
  BY InitTypeInv DEF TypeInv
<1>2. \A p \in Process : next[p] = 1 /\ ~InCall(p)
  BY DEF Init, InCall
<1>3. ASSUME NEW r \in Requests
      PROVE  /\ Made(r, "start") = 0 /\ Made(r, "wait") = 0 /\ r \notin Starting
             /\ req[r].type \in {"new", "plain"} /\ req[r].operation_number = 0
             /\ req[r].backup = "null" /\ req[r].buf = 0 /\ req[r].flag = 0
             /\ req[r].puts = <<>>
  <2>1. OwnerOf(r) \in Process
    BY <1>1, OwnerTyped
  <2>2. \A do : Made(r, do) = 0
    <3>1. \A do : Times(deployment, r, do, 1) = Cardinality({})
      <4> SUFFICES ASSUME NEW do PROVE Times(deployment, r, do, 1) = Cardinality({})
        OBVIOUS
      <4>1. 1 .. 1 - 1 = {}
        OBVIOUS
      <4> QED
        BY <4>1 DEF Times
    <3> QED
      BY <1>2, <2>1, <3>1, FS_EmptySet DEF Made
  <2>3. PICK t : t \in {"new", "plain"} /\ req[r] = Cleared(t)
    BY DEF Init
  <2> QED
    BY <1>2, <2>1, <2>2, <2>3 DEF Starting, Cleared
<1>4. PlaceInv
  BY <1>2 DEF PlaceInv, Init
<1>5. CountInv
  BY <1>3 DEF CountInv
<1>6. ASSUME NEW c \in Channels PROVE ChannelInv(c, req, payload, Starting, Settled)
  <2>1. payload[c] = <<>> /\ Len(payload[c]) = 0
    BY DEF Init
  <2>2. \A s : \A r \in Ends(c, s) : r \in Requests
    BY DEF Ends
  <2>3. ASSUME NEW r \in Requests
        PROVE  EndInv(req[r], r \in Starting, r \in Settled)
    BY <1>3 DEF EndInv
  <2>4. \A r \in Ends(c, "S") : SendInv(req[r], r \in Starting, r \in Settled)
    BY <1>3, <2>2, <2>3 DEF SendInv
  <2>5. \A r \in Ends(c, "R") : RecvInv(req[r], payload[c], r \in Starting, r \in Settled)
    BY <1>3, <2>1, <2>2, <2>3 DEF RecvInv, Awaiting, Messaging
  <2>6. ASSUME NEW x \in Ends(c, "S"), NEW y \in Ends(c, "R")
        PROVE  PairInv(req[x], req[y], payload[c], x \in Starting, x \in Settled)
    BY <1>3, <2>1, <2>2 DEF PairInv, Sent, Messaging
  <2>7. ASSUME NEW x \in Ends(c, "S"), NEW y \in Ends(c, "R")
        PROVE  FlagInv(req[x], req[y])
    BY <1>3, <2>2 DEF FlagInv, ToldByRecv, ToldBySend
  <2> QED
    BY <1>3, <2>1, <2>2, <2>4, <2>5, <2>6, <2>7 DEF ChannelInv
<1> QED
  BY <1>1, <1>4, <1>5, <1>6 DEF MpiInv

\* So the invariant holds.
LEMMA AlwaysMpiInv == OneRequestPerSide /\ UsedInTurn => (Spec => []MpiInv)
<1> SUFFICES ASSUME OneRequestPerSide, UsedInTurn PROVE Spec => []MpiInv
  OBVIOUS
<1>1. MpiInv /\ [Next]_vars => MpiInv'
  BY NextMpiInv
<1> QED
  BY <1>1, InitMpiInv, PTL DEF Spec

-----------------------------------------------------------------------------
(* What the application sees. *)

\* A step makes at most one call return.
LEMMA CallReturns ==
  ASSUME OneRequestPerSide, UsedInTurn, MpiInv, [Next]_vars
  PROVE  /\ deployment' = deployment
         /\ next' = next \/ \E p \in Process : Step(p) /\ Outcome(p) /\ Returns(p)
<1>1. ASSUME NEW p \in Process, Step(p)
      PROVE  deployment' = deployment /\ (next' = next \/ (Step(p) /\ Outcome(p) /\ Returns(p)))
  BY <1>1, StepOutcome DEF Outcome, Moves, Returns, Advances
<1>2. CASE (\E r \in Requests : PutFlag(r)) \/ AllEnded \/ UNCHANGED vars
  BY <1>2 DEF PutFlag, AllEnded, vars
<1> QED
  BY <1>1, <1>2 DEF Next

\* A receive returns with the message of its operation, which the peer has sent.
LEMMA ReceiveReturns ==
  ASSUME OneRequestPerSide, UsedInTurn, MpiInv, NEW p \in Process, Outcome(p), Returns(p),
         Call(p).do = "wait", NEW r, r = Call(p).on, SideOf(r) = "R"
  PROVE  /\ req'[r].buf = Started(ChannelOf(r), "R")
         /\ Started(ChannelOf(r), "S") >= Started(ChannelOf(r), "R")
<1> DEFINE c == ChannelOf(r)
<1>1. TypeInv /\ PlaceInv /\ CountInv /\ IInv /\ Advances(p) /\ ~Ended(p)
  BY Known DEF Returns, Advances
<1>2. r \in Requests
  BY <1>1, StatusBefore
<1>3. r \notin Starting' /\ r \in Settled'
  BY <1>2, WaitStatus
<1>4. Chans(req', payload', Starting', Settled') /\ CountInv' /\ Requests' = Requests
  BY <1>1 DEF Outcome, Advances, Requests
<1>5. \A z \in Requests : /\ Made(z, "start")' = Made(z, "start") /\ Made(z, "start") \in Nat
                          /\ Started(ChannelOf(z), SideOf(z)) = Made(z, "start")
  BY <1>1, MadeStep, MadeNat, StartedMade DEF Calls, Collective
<1>6. req'[r].operation_number = Made(r, "start")
  BY <1>2, <1>3, <1>4, <1>5 DEF CountInv
<1>7. PICK no, yes : no = FALSE /\ yes = TRUE
  OBVIOUS
<1>8. Status(r, Starting', Settled', no, yes)
  BY <1>3, <1>7, StatusIs
<1>9. /\ RecvInv(req'[r], payload'[c], no, yes)
      /\ Ends(c, "S") = {} => req'[r].buf = 0
  BY <1>1, <1>2, <1>4, <1>8, RecvEnd
<1>10. req'[r].buf = Made(r, "start")
  BY <1>6, <1>7, <1>9 DEF RecvInv
<1>11. Made(r, "start") # 0
  <2>1. Made(r, "start") = Made(r, "wait") + 1 /\ Made(r, "wait") \in Nat
    BY <1>1, <1>2, InTurn, MadeNat
  <2> QED
    BY <2>1
<1>12. PICK x \in Ends(c, "S") : TRUE
  BY <1>9, <1>10, <1>11
<1>13. x \in Requests /\ SideOf(x) = "S" /\ ChannelOf(x) = c /\ r \in Ends(ChannelOf(x), "R")
  BY <1>2, <1>12 DEF Ends
<1>14. PICK sx, dx : Status(x, Starting', Settled', sx, dx)
  BY DEF Status
<1>15. PairInv(req'[x], req'[r], payload'[ChannelOf(x)], sx, dx)
  BY <1>1, <1>4, <1>13, <1>14, SendEnd
<1>16. req'[r].buf <= req'[x].operation_number /\ (sx => req'[r].buf = 0)
  BY <1>15 DEF PairInv
<1>17. x \notin Starting'
  BY <1>10, <1>11, <1>14, <1>16 DEF Status
<1>18. req'[x].operation_number = Made(x, "start")
  BY <1>4, <1>5, <1>13, <1>17 DEF CountInv
<1> QED
  BY <1>2, <1>5, <1>10, <1>13, <1>16, <1>18

(***************************************************************************)
(* Whatever the requests, the processes and the order of their calls, if   *)
(* the application starts and waits for a request in turn and has one      *)
(* request for each side of a channel: the wait of a receive returns with  *)
(* the message of its operation, by whatever protocol it came.             *)
(***************************************************************************)
THEOREM ReceivesItsMessageHolds ==
  OneRequestPerSide /\ UsedInTurn => (Spec => ReceivesItsMessage)
<1> SUFFICES ASSUME OneRequestPerSide, UsedInTurn PROVE Spec => ReceivesItsMessage
  OBVIOUS
<1>1. ASSUME MpiInv, [Next]_vars
      PROVE  [\A p \in Process :
                next'[p] # next[p] /\ Call(p).do = "wait" /\ SideOf(Call(p).on) = "R" =>
                  req'[Call(p).on].buf = Started(ChannelOf(Call(p).on), "R")]_vars
  <2> SUFFICES ASSUME NEW p \in Process, next'[p] # next[p], Call(p).do = "wait",
                      SideOf(Call(p).on) = "R"
               PROVE  req'[Call(p).on].buf = Started(ChannelOf(Call(p).on), "R")
    OBVIOUS
  <2>1. PICK q \in Process : Outcome(q) /\ Returns(q)
    BY <1>1, CallReturns
  <2>2. q = p
    BY <1>1, <2>1, Known DEF Returns, Advances, IInv
  <2> QED
    BY <1>1, <2>1, <2>2, ReceiveReturns
<1> QED
  BY <1>1, AlwaysMpiInv, PTL DEF Spec, ReceivesItsMessage

\* The calls as MPI sees them.
LEMMA MpiSees ==
  ASSUME NEW p \in Process
  PROVE  /\ Mpi!Call(p) = Call(p) /\ (Mpi!Ended(p) <=> Ended(p)) /\ Mpi!Collective = Collective
         /\ Mpi!AllHere(p) <=> AllHere(p)
         /\ \A r : Mpi!ChannelOf(r) = ChannelOf(r) /\ Mpi!SideOf(r) = SideOf(r)
         /\ \A c, s : Mpi!Started(c, s) = Started(c, s)
<1>1. /\ Mpi!Call(p) = Call(p) /\ (Mpi!Ended(p) <=> Ended(p)) /\ Mpi!Collective = Collective
      /\ \A r : Mpi!ChannelOf(r) = ChannelOf(r) /\ Mpi!SideOf(r) = SideOf(r)
  BY DEF Mpi!Call, Call, Mpi!Program, Program, Mpi!Ended, Ended, Mpi!Collective, Collective,
         Mpi!ChannelOf, ChannelOf, Mpi!SideOf, SideOf
<1>2. \A T : Mpi!Cardinality(T) = Cardinality(T)
  BY Zenon DEF Mpi!Cardinality, Cardinality
<1>3. \A q, do : Mpi!Entered(q, do) = Entered(q, do)
  BY <1>2, Zenon DEF Mpi!Entered, Entered, Mpi!Program, Program
<1>4. Mpi!AllHere(p) <=> AllHere(p)
  BY <1>1, <1>3 DEF Mpi!AllHere, AllHere, Mpi!Program, Program
<1>5. \A c, s : Mpi!Started(c, s) = Started(c, s)
  BY <1>2, Zenon DEF Mpi!Started, Started, Mpi!Program, Program, Mpi!ChannelOf, ChannelOf, Mpi!SideOf,
         SideOf, Mpi!Owner, Owner
<1> QED
  BY <1>1, <1>4, <1>5

\* A call returns only when MPI allows it to.
LEMMA ReturnAllowed ==
  ASSUME OneRequestPerSide, UsedInTurn, MpiInv, NEW p \in Process, Step(p), Outcome(p), Returns(p)
  PROVE  Mpi!Return(p)
<1>1. ~Ended(p) /\ next' = [next EXCEPT ![p] = @ + 1] /\ deployment' = deployment
  BY DEF Returns, Advances
<1>2. Call(p).do = "wait" /\ SideOf(Call(p).on) = "R" => Mpi!Matched(p)
  BY ReceiveReturns, MpiSees DEF Mpi!Matched
<1>3. Call(p).do \in Collective => AllHere(p)
  <2> SUFFICES ASSUME Call(p).do \in Collective PROVE AllHere(p)
    OBVIOUS
  <2>1. IInv /\ stack[p] = <<>>
    <3>1. stack[p] # <<>> => Call(p).do \in {"start", "wait"}
      BY Known, BaseOf DEF InCall
    <3> QED
      BY <3>1, Known DEF Collective
  <2> QED
    BY <2>1 DEF Step, Finalize, Barrier, Calling, Collective, InitRequest, StartRdma,
      StartOrdinary, StartSearching, PostFirst, Wait, WaitSendProbe, WaitSendTest, WaitSendEnd,
      WaitRecvLook, WaitRecvProbe, WaitRecvDecide, WaitRecvTest, WaitRecvEnd, WaitFlush,
      WaitFlagRound, WaitFlagEnd, WaitCrosstalk, WaitFetched, WaitOrdinary, BlockRound,
      BlockEnd, ProgressNext, FreeRequest, At
<1> QED
  BY <1>1, <1>2, <1>3, MpiSees DEF Mpi!Return, Mpi!MayReturn

(***************************************************************************)
(* The safety of MPI, for the same applications: the steps of RdvProcess   *)
(* are those of MpiProgram, in which a receive does not complete before    *)
(* its send is started and a collective call not before all are in it.     *)
(***************************************************************************)
THEOREM ImplementsMpiSafety ==
  OneRequestPerSide /\ UsedInTurn => (Spec => Mpi!Spec)
<1> SUFFICES ASSUME OneRequestPerSide, UsedInTurn PROVE Spec => Mpi!Spec
  OBVIOUS
<1>1. Init => Mpi!Init
  BY DEF Init, Mpi!Init
<1>2. ASSUME MpiInv, [Next]_vars PROVE [Mpi!Next]_Mpi!vars
  <2>1. CASE next' = next
    BY <1>2, <2>1, CallReturns DEF Mpi!vars
  <2>2. CASE \E p \in Process : Step(p) /\ Outcome(p) /\ Returns(p)
    BY <1>2, <2>2, ReturnAllowed DEF Mpi!Next
  <2> QED
    BY <1>2, <2>1, <2>2, CallReturns
<1> QED
  BY <1>1, <1>2, AlwaysMpiInv, PTL DEF Spec, Mpi!Spec
=============================================================================
