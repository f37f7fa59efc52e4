------------------------------- MODULE Clients -------------------------------
(***************************************************************************)
(* The repository's own clients of the library, as applications of         *)
(* MpiCalls: what they call, in which order, on which requests.  Of the    *)
(* iterations of a loop there are as many as the argument `iterations`.    *)
(*                                                                         *)
(* "P" is the process of rank 0 (of an even group), "Q" that of rank 1.    *)
(* Requests are named after their channel and their process.               *)
(***************************************************************************)
EXTENDS Naturals, Sequences, SequencesExt

From(p, q, t) == [from |-> p, to |-> q, tag |-> t]

Sender(c)   == [side |-> "S", channel |-> c, persistent |-> TRUE]
Receiver(c) == [side |-> "R", channel |-> c, persistent |-> TRUE]

\* One call; the same call on several requests; the collective calls.
Do(call, r)    == <<[do |-> call, on |-> r]>>
Each(call, rs) == [i \in DOMAIN rs |-> [do |-> call, on |-> rs[i]]]
Meet           == <<[do |-> "barrier"]>>
Finalized      == <<[do |-> "finalize"]>>

Repeat(calls, times) == FlattenSeq([i \in 1 .. times |-> calls])

Application(requests, P, Q, T) ==
  [requests |-> requests, program |-> [P |-> P, Q |-> Q, T |-> T]]

-----------------------------------------------------------------------------

Tag == 42

\* Both ranks send to and receive from each other.
PersistentComm(iterations) ==
  LET a == From("P", "Q", Tag) b == From("Q", "P", Tag)
      Rank(s, r) ==
        Each("init", <<s, r>>)
        \o Repeat(Each("start", <<r, s>>) \o Each("wait", <<s, r>>), iterations)
        \o Each("free", <<r, s>>) \o Meet \o Finalized
  IN Application([aP |-> Sender(a), aQ |-> Receiver(a), bQ |-> Sender(b), bP |-> Receiver(b)],
                 Rank("aP", "bP"), Rank("bQ", "aQ"), <<>>)

\* Rank 1 sends to rank 0.
SelfImplementedComm(iterations) ==
  LET c == From("Q", "P", Tag)
      Rank(r) == Do("init", r) \o Repeat(Do("start", r) \o Do("wait", r), iterations)
                 \o Do("free", r) \o Finalized
  IN Application([cQ |-> Sender(c), cP |-> Receiver(c)], Rank("cP"), Rank("cQ"), <<>>)

\* The benchmark creates its requests anew for each message length; processes
\* of an odd group start the send first.
PersistentPt2pt(iterations) ==
  LET a == From("P", "Q", 1) b == From("Q", "P", 1)
      Length(first, second, s, r) ==
        Each("init", <<s, r>>)
        \o Repeat(Each("start", <<first, second>>) \o Each("wait", <<s, r>>), iterations)
        \o Each("free", <<s, r>>) \o Meet
  IN Application([a1P |-> Sender(a), a1Q |-> Receiver(a), b1Q |-> Sender(b), b1P |-> Receiver(b),
                  a2P |-> Sender(a), a2Q |-> Receiver(a), b2Q |-> Sender(b), b2P |-> Receiver(b)],
                 Length("b1P", "a1P", "a1P", "b1P") \o Length("b2P", "a2P", "a2P", "b2P")
                   \o Finalized,
                 Length("b1Q", "a1Q", "b1Q", "a1Q") \o Length("b2Q", "a2Q", "b2Q", "a2Q")
                   \o Finalized,
                 <<>>)
=============================================================================
