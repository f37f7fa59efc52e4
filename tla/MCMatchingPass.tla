--------------------------- MODULE MCMatchingPass ---------------------------
(* The programs the pass is checked on. *)
EXTENDS MatchingPass

SendInit(r)  == [kind |-> "sendInit", req |-> r, buf |-> "?", msg |-> "m"]
RecvInit(r)  == [kind |-> "recvInit", req |-> r, buf |-> "?", msg |-> "m"]
Use(k, r)    == [kind |-> k, req |-> r]
Call(f)      == [kind |-> "call", callee |-> f]
Only(k)      == [kind |-> k]
Message(k, m) == [kind |-> k, buf |-> "?", msg |-> m]
Goto(b)      == [kind |-> "br", to |-> <<b>>]
If(c, b, d)  == [kind |-> "br", to |-> <<b, d>>, cond |-> c]

\* A program of one function, main.
Main(body) ==
  [body |-> body, fn |-> [b \in DOMAIN body |-> "main"], entry |-> [main |-> 1],
   locals |-> {"r", "s", "t"}, library |-> {"abort"}]

\* Every program of three blocks that creates a request in the first one.  The
\* others hold nothing, a free or a call of an unknown function.
Contents == {<<>>, <<Use("free", "r")>>, <<Call("unknown")>>}
Ends == {[kind |-> "switch", to |-> <<b>>] : b \in 1 .. 3}
          \union {[kind |-> "switch", to |-> t] : t \in {<<1, 2>>, <<1, 3>>, <<2, 3>>}}
          \union {Only("ret")}

SmallPrograms ==
  {Main(<<Append(<<SendInit("r")>>, e1), Append(c2, e2), Append(c3, e3)>>) :
     e1 \in Ends, c2 \in Contents, c3 \in Contents, e2 \in Ends, e3 \in Ends}

\* A send and a receive, each created within a branch on c and ended within
\* another one.
Guarded(ending) ==
  Main(<< <<Only("mpiInit"), If("c", 2, 3)>>,
          <<SendInit("s"), Goto(4)>>,
          <<RecvInit("r"), Goto(4)>>,
          <<Only("otherMpi"), If("c", 5, 6)>>,
          <<Use("start", "s"), Use("wait", "s"), Use("free", "s"), Goto(7)>>,
          <<Use("start", "r"), Use("wait", "r")>> \o ending \o <<Goto(7)>>,
          <<Only("finalize"), Only("ret")>> >>)

\* A loop in which both requests are used, and one variable for two receives.
SharedVariable ==
  Main(<< <<If("c", 2, 3)>>,
          <<RecvInit("r"), Goto(4)>>,
          <<RecvInit("r"), Goto(4)>>,
          <<SendInit("s"), Goto(5)>>,
          <<Use("start", "r"), Use("start", "s"), If("d", 6, 7)>>,
          <<Use("wait", "s"), Goto(7)>>,
          <<Use("wait", "r"), If("e", 5, 8)>>,
          <<Use("free", "s"), Use("free", "r"), Only("finalize"), Only("ret")>> >>)

\* The requests are global, created in a helper that is called from two places
\* and used in another one.  quiet does nothing, noisy communicates.
Helpers(callee) ==
  [body |-> << <<Only("mpiInit"), Call("quiet"), If("c", 2, 3)>>,
               <<Call("create"), Goto(4)>>,
               <<Call("create"), Call("exchange"), Goto(4)>>,
               <<Call("exchange"), Call("quiet"), Goto(5)>>,
               <<Use("free", "s"), Use("free", "r"), Call(callee), Only("finalize"), Only("ret")>>,
               <<SendInit("s"), RecvInit("r"), Only("ret")>>,
               <<Use("start", "s"), Use("start", "r"), Use("wait", "s"), If("d", 8, 9)>>,
               <<Only("otherMpi"), Goto(9)>>,
               <<Use("wait", "r"), Only("ret")>>,
               <<Only("ret")>>,
               <<Message("send", "m"), Only("ret")>> >>,
   fn |-> <<"main", "main", "main", "main", "main", "create", "exchange", "exchange",
            "exchange", "quiet", "noisy">>,
   entry |-> [main |-> 1, create |-> 6, exchange |-> 7, quiet |-> 10, noisy |-> 11],
   locals |-> {}, library |-> {}]

\* Another call beside the requests.
Beside(other) ==
  Main(<< <<[SendInit("s") EXCEPT !.buf = "a"], RecvInit("r"), Use("start", "s"), Goto(2)>>,
          <<other, If("c", 2, 3)>>,
          <<Use("wait", "s"), Use("free", "s"), If("c", 4, 5)>>,
          <<Use("free", "r"), Only("finalize"), Only("ret")>>,
          <<Only("unreachable")>> >>)

\* Calls of the same messages, of others, or of messages that are not known; the
\* pass looks at the buffer where it does not know the operands.
Others ==
  {Message(k, m) : k \in {"send", "recv", "sendrecv"}, m \in {"m", "n", "?"}}
    \union {[Message("issend", m) EXCEPT !.buf = b] : m \in {"m", "n"}, b \in {"a", "b", "?"}}

\* A request that is created again in a loop, and one that is never freed: the
\* program ends in a function that does not return.
InLoop ==
  Main(<< <<SendInit("s"), Goto(2)>>,
          <<RecvInit("r"), Use("start", "r"), Use("wait", "r"), If("c", 2, 3)>>,
          <<Use("start", "s"), Use("wait", "s"), Call("abort"), Only("unreachable")>> >>)

\* Two sends from the buffers a and b, one after the other started.
TwoSends(a, b) ==
  Main(<< <<[SendInit("s") EXCEPT !.buf = a], Goto(2)>>,
          <<[SendInit("t") EXCEPT !.buf = b], RecvInit("r"), Use("start", "r"), If("c", 3, 4)>>,
          <<Use("start", "s"), Use("wait", "s"), Goto(5)>>,
          <<Use("start", "t"), Use("wait", "t"), Goto(5)>>,
          <<Use("wait", "r"), Use("free", "s"), Use("free", "t"), Use("free", "r"),
            Only("finalize"), Only("ret")>> >>)

WrittenPrograms ==
  {SharedVariable, InLoop, TwoSends("a", "a"), TwoSends("a", "b")}
    \union {Guarded(e) : e \in {<<Use("free", "r")>>,
                                <<Use("free", "r"), Call("unknown")>>,
                                <<Call("unknown"), Use("free", "r")>>}}
    \union {Helpers(f) : f \in {"quiet", "noisy", "unknown"}}
    \union {Beside(other) : other \in Others}

AllPrograms == SmallPrograms \union WrittenPrograms

\* A request that is freed in one branch and still used in the other, beside a
\* call that communicates.
Branching ==
  Main(<< <<SendInit("s"), If("c", 2, 3)>>,
          <<Use("free", "s"), Only("finalize"), Only("ret")>>,
          <<Call("unknown"), Use("start", "s"), Use("wait", "s"), Goto(2)>> >>)

BranchingProgram == {Branching}

\* A send of the same messages beside the request.
BesideProgram == {Beside(Message("send", "m"))}

BothBuilds == {"Debug", "Release"}

ReleaseBuild == {"Release"}
=============================================================================
