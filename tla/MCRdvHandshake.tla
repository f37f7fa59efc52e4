--------------------------- MODULE MCRdvHandshake ---------------------------
(***************************************************************************)
(* The deployments for which RdvHandshake is checked.                      *)
(***************************************************************************)
EXTENDS RdvHandshake

Both == {"S", "R"}

\* Two persistent requests that are created before either is started, by
\* processes that wait for other requests, too; the messages of different
\* communicators arrive in any order.
InitsFirst ==
  [persistent |-> Both, setup |-> "initsFirst", ordered |-> FALSE, others |-> TRUE]

\* Two persistent requests, the sender starts when the receiver has looked.
RecvFirst ==
  [persistent |-> Both, setup |-> "recvFirst", ordered |-> TRUE, others |-> FALSE]

\* A persistent send to MPI_Recv.
PlainReceiver ==
  [persistent |-> {"S"}, setup |-> "none", ordered |-> FALSE, others |-> TRUE]

\* MPI_Send to a persistent receive that has looked for it in time.
PlainSender ==
  [persistent |-> {"R"}, setup |-> "recvFirst", ordered |-> FALSE, others |-> TRUE]

WorkingDeployments == {InitsFirst, RecvFirst, PlainReceiver, PlainSender}

\* Two persistent requests whose processes do not wait for one another.
LateStart ==
  {[persistent |-> Both, setup |-> "none", ordered |-> TRUE, others |-> FALSE]}

\* MPI_Send to a persistent receive that need not have looked for it in time.
EarlyPayload ==
  {[persistent |-> {"R"}, setup |-> "none", ordered |-> TRUE, others |-> FALSE]}

\* RecvFirst, when the messages of different communicators overtake each other.
Overtaking ==
  {[persistent |-> Both, setup |-> "recvFirst", ordered |-> FALSE, others |-> FALSE]}
=============================================================================
