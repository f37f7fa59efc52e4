---------------------------- MODULE MCRdvProcess -----------------------------
(***************************************************************************)
(* The applications for which RdvProcess is checked.  Requests are named   *)
(* after their channel and their process.                                  *)
(***************************************************************************)
EXTENDS RdvProcess, Clients

PlainSender(c)   == [Sender(c) EXCEPT !.persistent = FALSE]
PlainReceiver(c) == [Receiver(c) EXCEPT !.persistent = FALSE]

\* Requests are created, then the processes meet, then they communicate.
Using(rs, body) == Each("init", rs) \o Meet \o body \o Each("free", rs) \o Finalized

\* All orders of starting and waiting for two requests.
Orders(a, b) ==
  {s \in [1 .. 4 -> Range(Each("start", <<a, b>>) \o Each("wait", <<a, b>>))] :
     \A r \in {a, b} : \E i, j \in 1 .. 4 :
        i < j /\ <<s[i]>> = Do("start", r) /\ <<s[j]>> = Do("wait", r)}

\* The tags matter for messages of the same direction only.
Opposite == From("Q", "P", 1)
Parallel == From("P", "Q", 2)

OnP(c) == IF c.from = "P" THEN Sender(c) ELSE Receiver(c)
OnQ(c) == IF c.from = "Q" THEN Sender(c) ELSE Receiver(c)

\* P and Q use channel a from P to Q and channel b, twice, in every order, also
\* in those that MPI does not complete.  (P starts a before b: the channels
\* may be renamed.)
TwoChannels ==
  {LET a == From("P", "Q", 1) IN
   Application([aP |-> OnP(a), aQ |-> OnQ(a), bP |-> OnP(b), bQ |-> OnQ(b)],
               Using(<<"aP", "bP">>, x \o x), Using(<<"aQ", "bQ">>, y \o y), <<>>) :
     b \in {Parallel, Opposite},
     x \in {o \in Orders("aP", "bP") : o[1].on = "aP"}, y \in Orders("aQ", "bQ")}

\* Three processes in a ring: all of them send first, or one receives first.
Ring ==
  LET a == From("P", "Q", 1) b == From("Q", "T", 1) c == From("T", "P", 1)
      Body(x, y) == Each("start", <<x, y>>) \o Each("wait", <<x, y>>)
  IN {Application([aP |-> Sender(a), aQ |-> Receiver(a), bQ |-> Sender(b),
                   bT |-> Receiver(b), cT |-> Sender(c), cP |-> Receiver(c)],
        Using(<<"aP", "cP">>, Body("aP", "cP")),
        Using(<<"bQ", "aQ">>, Body("bQ", "aQ")),
        Using(<<"cT", "bT">>, body)) :
          body \in {Body("cT", "bT"), Body("bT", "cT")}}

\* The receiver of a uses MPI itself.  P waits for that channel last.
FallbackSend(x, y, b) ==
  LET a == From("P", "Q", 1) IN
  Application([aP |-> Sender(a), aQ |-> PlainReceiver(a), bP |-> OnP(b), bQ |-> OnQ(b)],
              Using(<<"aP", "bP">>, x \o x), Using(<<"bQ">>, y \o y), <<>>)

FallbackSends ==
  {FallbackSend(Each("start", <<"aP", "bP">>) \o Each("wait", <<"bP", "aP">>), y, b) :
     b \in {Parallel, Opposite}, y \in Orders("aQ", "bQ")}

\* The sender of a uses MPI itself, and starts when Q has looked for it.
FallbackReceives ==
  {LET a == From("P", "Q", 1)
       P == Each("start", <<"aP", "bP">>) \o Each("wait", <<"bP", "aP">>)
       Q1 == Do("wait", "aQ") \o Do("start", "bQ") \o Do("wait", "bQ")
       Q2 == Each("start", <<"aQ", "bQ">>) \o Each("wait", <<"bQ", "aQ">>)
   IN Application([aP |-> PlainSender(a), aQ |-> Receiver(a), bP |-> OnP(b), bQ |-> OnQ(b)],
                  Using(<<"bP">>, Meet \o P \o P),
                  Using(<<"aQ", "bQ">>, Do("start", "aQ") \o Meet \o Q1 \o Q2), <<>>) :
     b \in {Parallel, Opposite}}

\* A pair of requests is freed and another one takes its place.
Generations ==
  LET a == From("P", "Q", 1)
      Use(r) == Do("start", r) \o Do("wait", r)
      Both(r1, r2) == Do("init", r1) \o Meet \o Use(r1) \o Do("free", r1) \o
                      Using(<<r2>>, Use(r2) \o Use(r2))
  IN {Application([a1P |-> Sender(a), a2P |-> Sender(a),
                   a1Q |-> Receiver(a), a2Q |-> Receiver(a)],
                  Both("a1P", "a2P"), Both("a1Q", "a2Q"), <<>>)}

WorkingApplications ==
  TwoChannels \union Ring \union FallbackSends \union FallbackReceives \union Generations
  \union {SelfImplementedComm(3)}

\* The theorems about RdvProcess are about these applications, except for the
\* ones that have two generations of requests.
Proved == INSTANCE RdvProcessCallsProofs WITH Deployments <- WorkingApplications \ Generations

ASSUME HypothesesAssumption ==
  /\ Proved!OneRequestPerSide /\ Proved!UsedInTurn /\ Proved!UsedOnce
  /\ Proved!CreatedInTime /\ Proved!EachStarted
  /\ \A d \in WorkingApplications \ (Generations \union {SelfImplementedComm(3)}) :
       Proved!CreatedFirst(d)

\* The clients that use a channel in each direction, with no barrier after the
\* creation of their requests.
BothDirections == {PersistentComm(2), PersistentPt2pt(1)}

\* P waits for a, which has fallen back, while Q waits for P to fetch b first.
FallbackFirst ==
  {FallbackSend(Each("start", <<"aP", "bP">>) \o Each("wait", <<"aP", "bP">>),
                Do("start", "bQ") \o Do("wait", "bQ") \o Do("start", "aQ") \o Do("wait", "aQ"),
                Opposite)}

\* The receiver of a uses MPI itself at first, a persistent request later.
LaterPersistent ==
  LET a == From("P", "Q", 1)
      Use(r) == Do("start", r) \o Do("wait", r)
  IN {Application([a1P |-> Sender(a), a2P |-> Sender(a),
                   a1Q |-> PlainReceiver(a), a2Q |-> Receiver(a)],
                  Do("init", "a1P") \o Use("a1P") \o Do("free", "a1P") \o
                    Using(<<"a2P">>, Use("a2P")),
                  Use("a1Q") \o Using(<<"a2Q">>, Use("a2Q")), <<>>)}

\* Each process creates its second request while its first is in use.
CreatedLate ==
  {LET a == From("P", "Q", 1)
       Use(r) == Do("start", r) \o Do("wait", r)
       Both(r1, r2) == Do("init", r1) \o Meet \o Use(r1)
                       \o Do("start", r1) \o Do("init", r2) \o Do("wait", r1)
                       \o Use(r1) \o Use(r2) \o Each("free", <<r1, r2>>) \o Finalized
   IN Application([aP |-> OnP(a), aQ |-> OnQ(a), bP |-> OnP(b), bQ |-> OnQ(b)],
                  Both("aP", "bP"), Both("aQ", "bQ"), <<>>) : b \in {Parallel, Opposite}}
=============================================================================
