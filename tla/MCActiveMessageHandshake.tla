---------------------- MODULE MCActiveMessageHandshake -----------------------
(***************************************************************************)
(* The deployments for which ActiveMessageHandshake is checked.            *)
(***************************************************************************)
EXTENDS ActiveMessageHandshake

\* The id may come late or be overtaken by the payload, or neither.
AllDeployments == Deployment

\* Messages arrive in order, but nobody waits for the id.
LateId == {[idFirst |-> FALSE, ordered |-> TRUE]}

\* The sender waits for the id, but the payload may overtake the completion of the
\* receiver's MPI_Issend.
Overtaken == {[idFirst |-> TRUE, ordered |-> FALSE]}
=============================================================================
