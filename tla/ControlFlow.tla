---------------------------- MODULE ControlFlow -----------------------------
(***************************************************************************)
(* What the compiler pass sees of a program: functions of basic blocks, a  *)
(* block a sequence of instructions that ends in a terminator.  And what   *)
(* the program can do, as a reference for the pass: which calls can be     *)
(* executed after a request was created and before it is freed.            *)
(*                                                                         *)
(* A program p has                                                         *)
(*   p.body[b]   the instructions of block b                               *)
(*   p.fn[b]     the function block b belongs to                           *)
(*   p.entry[f]  the first block of f, for every f that is defined         *)
(*   p.locals    the request variables that are local to a function        *)
(*   p.library   the functions known not to communicate: intrinsics, those *)
(*               of the standard libraries and those that do not return    *)
(* A position <<b, i>> is instruction i of block b.  An instruction is a   *)
(* record whose "kind" decides on its other fields, see Instruction.       *)
(***************************************************************************)
EXTENDS Naturals, Sequences, FiniteSets

\* A request variable, the buffer and the message (communicator, peer and tag)
\* of a call are names; "?" is a message that is not known statically.
InitKinds == {"sendInit", "recvInit"}

\* "issend" stands for MPI_Issend, MPI_Ibsend and MPI_Irsend.
SendKinds == {"send", "issend", "sendrecv", "sendInit"}
RecvKinds == {"recv", "sendrecv", "recvInit"}

\* What is done with a request.
UseKinds == {"start", "wait", "free", "test"}

Terminators == {"br", "switch", "ret", "unreachable"}

Kinds == SendKinds \union RecvKinds \union UseKinds \union Terminators
           \union {"mpiInit",     \* MPI_Init, MPI_Init_thread
                   "finalize",    \* MPI_Finalize
                   "otherMpi",    \* a collective, a query, ...
                   "call"}        \* of i.callee, which is no MPI function

Positions(p) == UNION {{<<b, i>> : i \in 1 .. Len(p.body[b])} : b \in DOMAIN p.body}

At(p, q) == p.body[q[1]][q[2]]

After(q) == <<q[1], q[2] + 1>>

Blocks(p, f) == {b \in DOMAIN p.body : p.fn[b] = f}

Calls(p, f) == {q \in Positions(p) : At(p, q).kind = "call" /\ At(p, q).callee = f}

\* Where the function of position q returns to.
ReturnSites(p, q) == {After(c) : c \in Calls(p, p.fn[q[1]])}

\* The blocks a terminator may continue with.
Successors(i) == IF i.kind \in {"br", "switch"} THEN {i.to[k] : k \in DOMAIN i.to} ELSE {}

Conditional(i) == i.kind = "br" /\ Len(i.to) = 2

Predecessors(p, b) ==
  {e \in Positions(p) \X {1, 2} :
     LET i == At(p, e[1]) IN
     i.kind \in {"br", "switch"} /\ e[2] \in DOMAIN i.to /\ i.to[e[2]] = b}

\* A program as the compiler hands it to a pass: finite, every block ends in its
\* only terminator, which leads to blocks; "none" is no condition.
WellFormed(p) ==
  /\ IsFiniteSet(Positions(p))
  /\ \A b \in DOMAIN p.body : Len(p.body[b]) \in Nat \ {0} /\ p.fn[b] \in DOMAIN p.entry
  /\ \A q \in Positions(p) :
       LET i == At(p, q) IN
       /\ i.kind \in Terminators <=> q[2] = Len(p.body[q[1]])
       /\ i.kind \in {"br", "switch"} => i.to \in Seq(DOMAIN p.body)
       /\ Conditional(i) => i.cond # "none"

-----------------------------------------------------------------------------
(* The reference. *)

\* The set from and all that follows it, where succ[x] is the set of what follows x.
Closure(succ, from) ==
  LET Extended(xs) == xs \union UNION {succ[x] : x \in xs}
      Fix[xs \in SUBSET DOMAIN succ] ==
        IF Extended(xs) = xs THEN xs ELSE Fix[Extended(xs)]
  IN  Fix[from]

\* Functions that f calls, f included, at any depth.
CalledFrom(p, f) ==
  LET Callees(g) == {At(p, q).callee : q \in {q \in Positions(p) :
                       At(p, q).kind = "call" /\ p.fn[q[1]] = g}}
      Names == {f} \union UNION {Callees(g) : g \in DOMAIN p.entry}
  IN  Closure([g \in Names |-> Callees(g)], {f})

\* Calling f may communicate: it reaches a send or a receive, or a function that
\* is neither defined here nor one of a library.
Communicates(p, f) ==
  \E g \in CalledFrom(p, f) :
    \/ g \notin DOMAIN p.entry \union p.library
    \/ \E b \in Blocks(p, g) : \E k \in DOMAIN p.body[b] :
         p.body[b][k].kind \in SendKinds \union RecvKinds

\* The instruction at q may use messages that the request created at i matches.
MayMatch(p, i, q) ==
  LET init == At(p, i) other == At(p, q) IN
  \/ other.kind = "call" /\ Communicates(p, other.callee)
  \/ /\ other.kind \in IF init.kind = "sendInit" THEN SendKinds ELSE RecvKinds
     /\ \/ other.msg = init.msg
        \/ "?" \in {other.msg, init.msg}

\* Nothing after q concerns the request created at i.  What is freed through
\* a variable that is not local is not known: such a request ends with MPI.
EndsScope(p, i, q) ==
  \/ At(p, q).kind = "finalize"
  \/ /\ At(p, q).kind = "free" /\ At(p, q).req = At(p, i).req
     /\ At(p, i).req \in p.locals

\* One step of the program.  A branch on cond goes the way it went before.
StepsTo(p, q, cond, way) ==
  LET i == At(p, q) IN
  IF i.kind \notin Terminators THEN {After(q)}
  ELSE IF i.kind = "ret" THEN ReturnSites(p, q)
  ELSE {<<b, 1>> : b \in IF Conditional(i) /\ i.cond = cond THEN {i.to[way]}
                         ELSE Successors(i)}

\* What the program can reach from the positions in from without leaving the
\* scope of the request created at i, when its branches on cond go one way.
Reachable(p, i, from, cond, way) ==
  Closure([q \in Positions(p) |->
             IF EndsScope(p, i, q) THEN {} ELSE StepsTo(p, q, cond, way)], from)
=============================================================================
