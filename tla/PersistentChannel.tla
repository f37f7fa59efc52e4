-------------------------- MODULE PersistentChannel --------------------------
(***************************************************************************)
(* What a matched pair of persistent MPI requests promises its two users,  *)
(* whatever protocol moves the bytes: operation n of the sender is matched *)
(* with operation n of the receiver, message n is moved once, while both   *)
(* operations are active, and neither operation completes before that.     *)
(*                                                                         *)
(* Operation 1 travels over ordinary MPI and has completed on both sides   *)
(* when this specification starts.                                         *)
(***************************************************************************)
EXTENDS Naturals

Side == {"S", "R"}      \* the sender and the receiver

VARIABLES
  started,    \* started[s]: number of operations side s has started
  active,     \* active[s]: its latest operation has not completed yet
  delivered   \* number of the message that is in the receive buffer

chanVars == <<started, active, delivered>>

ChanTypeOK ==
  /\ started \in [Side -> Nat]
  /\ active \in [Side -> BOOLEAN]
  /\ delivered \in Nat

ChanInit ==
  /\ started = [s \in Side |-> 1]
  /\ active = [s \in Side |-> FALSE]
  /\ delivered = 1

ChanStart(s) ==
  /\ ~active[s]
  /\ started' = [started EXCEPT ![s] = @ + 1]
  /\ active' = [active EXCEPT ![s] = TRUE]
  /\ UNCHANGED delivered

\* The message moves while both of its operations are active.
Deliver ==
  /\ \A s \in Side : active[s] /\ started[s] = delivered + 1
  /\ delivered' = delivered + 1
  /\ UNCHANGED <<started, active>>

ChanComplete(s) ==
  /\ active[s]
  /\ delivered = started[s]
  /\ active' = [active EXCEPT ![s] = FALSE]
  /\ UNCHANGED <<started, delivered>>

ChanNext == Deliver \/ \E s \in Side : ChanStart(s) \/ ChanComplete(s)

ChanSpec == ChanInit /\ [][ChanNext]_chanVars

\* A message whose two operations are active moves, and then both complete.
ChanFairness == WF_chanVars(Deliver) /\ \A s \in Side : WF_chanVars(ChanComplete(s))

ChanFairSpec == ChanSpec /\ ChanFairness
=============================================================================
