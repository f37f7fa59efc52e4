----------------------------- MODULE MpiProgram ------------------------------
(***************************************************************************)
(* What MPI promises an application of persistent operations: every call   *)
(* but a wait and a collective one is local and returns, a wait returns    *)
(* once the other side has started the matching operation, and the wait of *)
(* a receive never returns before the matching send has been started.      *)
(***************************************************************************)
EXTENDS MpiCalls

vars == <<deployment, next>>

\* The operation that p waits for has been started by the peer.
Matched(p) ==
  LET c == ChannelOf(Call(p).on) IN
  IF SideOf(Call(p).on) = "S" THEN Started(c, "R") >= Started(c, "S")
                              ELSE Started(c, "S") >= Started(c, "R")

MayReturn(p) ==
  /\ Call(p).do = "wait" /\ SideOf(Call(p).on) = "R" => Matched(p)
  /\ Call(p).do \in Collective => AllHere(p)

\* A send may be buffered; a process may rely on its end once it is matched.
MustReturn(p) == Call(p).do = "wait" => Matched(p)

Return(p) ==
  /\ ~Ended(p) /\ MayReturn(p)
  /\ next' = [next EXCEPT ![p] = @ + 1]
  /\ UNCHANGED deployment

Init == deployment \in Deployments /\ next = [p \in Process |-> 1]

Next == \E p \in Process : Return(p)

Spec == Init /\ [][Next]_vars

Fairness == \A p \in Process : WF_vars(Return(p) /\ MustReturn(p))

FairSpec == Spec /\ Fairness
=============================================================================
