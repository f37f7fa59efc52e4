-------------------------- MODULE StandardChannel ---------------------------
(***************************************************************************)
(* PersistentChannel for messages that may be kept on the way, as MPI      *)
(* allows for a send in standard mode: message n is moved once and in      *)
(* order, while operation n of the receiver is active and not before that  *)
(* of the sender has started, but the sender need not wait for it.         *)
(***************************************************************************)
EXTENDS PersistentChannel

DeliverKept ==
  /\ active["R"] /\ started["R"] = delivered + 1
  /\ started["S"] >= started["R"]
  /\ delivered' = delivered + 1
  /\ UNCHANGED <<started, active>>

CompleteAnyTime(s) ==
  /\ active[s]
  /\ s = "R" => delivered = started[s]
  /\ active' = [active EXCEPT ![s] = FALSE]
  /\ UNCHANGED <<started, delivered>>

StandardNext == DeliverKept \/ \E s \in Side : ChanStart(s) \/ CompleteAnyTime(s)

StandardSpec == ChanInit /\ [][StandardNext]_chanVars
=============================================================================
