------------------------------ MODULE MpiCalls -------------------------------
(***************************************************************************)
(* An application as MPI sees it: processes that make one call after the   *)
(* other on requests, the requests being the two sides of channels.        *)
(***************************************************************************)
EXTENDS Naturals, Sequences, FiniteSets

CONSTANTS
  Process,      \* the MPI processes
  Deployments   \* the applications: requests and a program for each process,
                \* an empty one if the process is not part of it

\* A channel stands for what identifies a message: sender, receiver and tag.
Channel == [from : Process, to : Process, tag : Nat]

Side == {"S", "R"}

\* The process that side s of channel c belongs to.
Owner(c, s) == IF s = "S" THEN c.from ELSE c.to

Collective == {"barrier", "finalize"}
Calls == {"init", "start", "wait", "free"} \union Collective

\* A request is memory of its process: no other one calls anything on it.
ASSUME DeploymentsAssumption ==
  \A d \in Deployments :
    /\ \A r \in DOMAIN d.requests :
         d.requests[r] \in [side : Side, channel : Channel, persistent : BOOLEAN]
    /\ DOMAIN d.program = Process
    /\ \A p \in Process : \A i \in 1 .. Len(d.program[p]) :
         LET c == d.program[p][i] IN
         /\ c.do \in Calls
         /\ c.do \notin Collective =>
              /\ c.on \in DOMAIN d.requests
              /\ Owner(d.requests[c.on].channel, d.requests[c.on].side) = p

\* A program is a sequence of calls.
ASSUME ProgramsAssumption ==
  \A d \in Deployments : \A p \in Process :
    Len(d.program[p]) \in Nat /\ DOMAIN d.program[p] = 1 .. Len(d.program[p])

VARIABLES
  deployment,  \* the application at hand, fixed
  next         \* next[p]: position of the call that p is in or will make next

Program(p) == deployment.program[p]
Ended(p)   == next[p] > Len(Program(p))
Call(p)    == Program(p)[next[p]]

SideOf(r)    == deployment.requests[r].side
ChannelOf(r) == deployment.requests[r].channel

\* Number of operations of a side of channel c that have been started.
Started(c, s) ==
  LET p == Owner(c, s) IN
  Cardinality({i \in 1 .. next[p] - 1 :
                 LET call == Program(p)[i] IN
                 /\ call.do = "start"
                 /\ SideOf(call.on) = s /\ ChannelOf(call.on) = c})

\* Number of times p has entered a collective call, and the guard of its end.
Entered(p, do) == Cardinality({i \in DOMAIN Program(p) :
                                 i <= next[p] /\ Program(p)[i].do = do})
AllHere(p) ==
  \A q \in Process :
    Program(q) # <<>> => Entered(q, Call(p).do) >= Entered(p, Call(p).do)
=============================================================================
