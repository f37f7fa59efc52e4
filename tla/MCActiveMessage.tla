--------------------------- MODULE MCActiveMessage ---------------------------
(***************************************************************************)
(* The builds and uses for which ActiveMessage is checked.                 *)
(***************************************************************************)
EXTENDS ActiveMessage

Build(mode, waitEarly, others) ==
  [mode |-> mode, waitEarly |-> waitEarly, others |-> others]

AllBuilds == [mode : {"eager", "rendezvous"}, waitEarly : BOOLEAN, others : BOOLEAN]

EarlyWait == {Build("rendezvous", TRUE, FALSE)}

NestedProgress == {Build("eager", TRUE, TRUE)}
=============================================================================
