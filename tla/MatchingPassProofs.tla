------------------------- MODULE MatchingPassProofs -------------------------
(***************************************************************************)
(* What the compiler pass promises of every set of programs.  Its walk     *)
(* ends only when everything reachable has been checked, provided that no  *)
(* block a function returns into is also entered at its head: the walk     *)
(* marks a whole block when it checks a part of it.  What it rewrites      *)
(* stays a request of the library, provided that no request variable is    *)
(* used by two init calls and the calls on it have a counterpart there.    *)
(***************************************************************************)
EXTENDS MatchingPass, FiniteSetTheorems, WellFoundedInduction, TLAPS

-----------------------------------------------------------------------------
(* What the reference of ControlFlow computes: the least set that holds    *)
(* where the program starts and is closed under its steps.                 *)

Extended(succ, xs) == xs \union UNION {succ[x] : x \in xs}

Closed(succ, xs) == \A x \in xs : succ[x] \subseteq xs

\* The smallest closed set around xs.
Least(succ, xs) ==
  {y \in DOMAIN succ : \A ys \in SUBSET DOMAIN succ :
     xs \subseteq ys /\ Closed(succ, ys) => y \in ys}

\* What the recursive function in Closure is to satisfy.
IsFix(succ, fix) ==
  fix = [xs \in SUBSET DOMAIN succ |->
           IF Extended(succ, xs) = xs THEN xs ELSE fix[Extended(succ, xs)]]

LEMMA ClosureIsFix ==
  ASSUME NEW succ, NEW from
  PROVE  Closure(succ, from) = (CHOOSE fix : IsFix(succ, fix))[from]
  BY DEF Closure, IsFix, Extended

LEMMA ExtendedFacts ==
  ASSUME NEW S, NEW succ \in [S -> SUBSET S], NEW xs \in SUBSET S
  PROVE  /\ Extended(succ, xs) \in SUBSET S
         /\ xs \subseteq Extended(succ, xs)
         /\ Extended(succ, xs) = xs <=> Closed(succ, xs)
  BY DEF Extended, Closed

LEMMA LeastFacts ==
  ASSUME NEW S, NEW succ \in [S -> SUBSET S], NEW xs \in SUBSET S
  PROVE  /\ Least(succ, xs) \in SUBSET S
         /\ xs \subseteq Least(succ, xs)
         /\ Closed(succ, Least(succ, xs))
         /\ \A ys \in SUBSET S : xs \subseteq ys /\ Closed(succ, ys) => Least(succ, xs) \subseteq ys
         /\ Closed(succ, xs) => Least(succ, xs) = xs
         /\ Least(succ, Extended(succ, xs)) = Least(succ, xs)
<1>1. DOMAIN succ = S
  OBVIOUS
<1>2. \A ys \in SUBSET S : xs \subseteq ys /\ Closed(succ, ys) => Least(succ, xs) \subseteq ys
  BY <1>1 DEF Least
<1>3. Least(succ, xs) \in SUBSET S /\ xs \subseteq Least(succ, xs)
  BY <1>1 DEF Least
<1>4. Closed(succ, Least(succ, xs))
  <2> SUFFICES ASSUME NEW x \in Least(succ, xs), NEW y \in succ[x],
                      NEW ys \in SUBSET S, xs \subseteq ys, Closed(succ, ys)
               PROVE  y \in ys
    BY <1>1, <1>3 DEF Closed, Least
  <2>1. x \in ys
    BY <1>2
  <2> QED
    BY <2>1 DEF Closed
<1>5. Closed(succ, xs) => Least(succ, xs) = xs
  BY <1>2, <1>3
<1>6. \A ys \in SUBSET S : Closed(succ, ys) =>
        (xs \subseteq ys <=> Extended(succ, xs) \subseteq ys)
  BY DEF Closed, Extended
<1>7. Least(succ, Extended(succ, xs)) = Least(succ, xs)
  BY <1>1, <1>6 DEF Least
<1> QED
  BY <1>2, <1>3, <1>4, <1>5, <1>7

LEMMA LeastIsFix ==
  ASSUME NEW S, NEW succ \in [S -> SUBSET S]
  PROVE  IsFix(succ, [xs \in SUBSET S |-> Least(succ, xs)])
<1> DEFINE least == [xs \in SUBSET S |-> Least(succ, xs)]
<1>1. ASSUME NEW xs \in SUBSET S
      PROVE  least[xs] = IF Extended(succ, xs) = xs THEN xs ELSE least[Extended(succ, xs)]
  <2>1. least[xs] = Least(succ, xs)
    OBVIOUS
  <2>2. least[Extended(succ, xs)] = Least(succ, Extended(succ, xs))
    BY ExtendedFacts
  <2> HIDE DEF least
  <2> QED
    BY <2>1, <2>2, ExtendedFacts, LeastFacts
<1>2. DOMAIN succ = S
  OBVIOUS
<1>3. least = [xs \in SUBSET S |-> least[xs]]
  OBVIOUS
<1> HIDE DEF least
<1>4. least = [xs \in SUBSET S |-> IF Extended(succ, xs) = xs THEN xs
                                  ELSE least[Extended(succ, xs)]]
  BY <1>1, <1>3
<1> QED
  BY <1>2, <1>4 DEF IsFix, least

\* A finite set has no room for a set that grows for ever: the recursion is the
\* only function with its equation.
LEMMA FixIsLeast ==
  ASSUME NEW S, IsFiniteSet(S), NEW succ \in [S -> SUBSET S], NEW fix, IsFix(succ, fix),
         NEW from \in SUBSET S
  PROVE  fix[from] = Least(succ, from)
<1>1. \A xs \in SUBSET S : fix[xs] = IF Extended(succ, xs) = xs THEN xs ELSE fix[Extended(succ, xs)]
  <2>1. DOMAIN succ = S
    OBVIOUS
  <2>2. fix = [xs \in SUBSET S |-> IF Extended(succ, xs) = xs THEN xs ELSE fix[Extended(succ, xs)]]
    BY <2>1 DEF IsFix
  <2> QED
    BY <2>2
<1> DEFINE Wrong == {xs \in SUBSET S : fix[xs] # Least(succ, xs)}
           Rest == {S \ xs : xs \in Wrong}
<1>2. SUFFICES ASSUME Wrong # {} PROVE FALSE
  OBVIOUS
<1>3. Rest # {} /\ Rest \subseteq FiniteSubsetsOf(S)
  <2>1. FiniteSubsetsOf(S) = SUBSET S
    BY FS_FiniteSubsetsOfFinite
  <2> HIDE DEF Wrong
  <2>2. Rest # {} /\ \A r \in Rest : r \in SUBSET S
    BY <1>2
  <2> QED
    BY <2>1, <2>2
<1>4. PICK rest \in Rest : \A r \in Rest : <<r, rest>> \notin StrictSubsetOrdering(S)
  <2> HIDE DEF Rest
  <2> QED
    BY <1>3, FS_StrictSubsetOrderingWellFounded, WFMin
<1>5. PICK xs \in Wrong : rest = S \ xs
  BY <1>4
<1> DEFINE more == Extended(succ, xs)
<1>6. more # xs
  BY <1>1, <1>5, ExtendedFacts, LeastFacts
<1>7. fix[more] = fix[xs] /\ more \in SUBSET S /\ xs \subseteq more
  BY <1>1, <1>5, <1>6, ExtendedFacts
<1>8. Least(succ, more) = Least(succ, xs)
  BY <1>5, LeastFacts
<1>9. more \in Wrong
  BY <1>5, <1>7, <1>8
<1>10. S \ more \in Rest /\ <<S \ more, rest>> \in StrictSubsetOrdering(S)
  BY <1>5, <1>6, <1>7, <1>9 DEF StrictSubsetOrdering
<1> QED
  BY <1>4, <1>10

(***************************************************************************)
(* The reference that the analysis of the pass is compared with: what can  *)
(* be reached is closed under the steps of the program, and nothing more   *)
(* than what has to be in it.                                              *)
(***************************************************************************)
LEMMA ClosureIsLeast ==
  ASSUME NEW S, IsFiniteSet(S), NEW succ \in [S -> SUBSET S], NEW from \in SUBSET S
  PROVE  /\ Closure(succ, from) \in SUBSET S
         /\ from \subseteq Closure(succ, from)
         /\ \A x \in Closure(succ, from) : succ[x] \subseteq Closure(succ, from)
         /\ \A ys \in SUBSET S :
              from \subseteq ys /\ (\A x \in ys : succ[x] \subseteq ys)
                => Closure(succ, from) \subseteq ys
<1>1. IsFix(succ, CHOOSE fix : IsFix(succ, fix))
  BY LeastIsFix
<1>2. Closure(succ, from) = Least(succ, from)
  BY <1>1, ClosureIsFix, FixIsLeast
<1> QED
  BY <1>2, LeastFacts DEF Closed

-----------------------------------------------------------------------------
(* The programs and the walk. *)

LEMMA PositionFacts ==
  ASSUME NEW p \in Programs
  PROVE  /\ IsFiniteSet(Positions(p))
         /\ \A q : q \in Positions(p) <=>
              /\ q = <<q[1], q[2]>>
              /\ q[1] \in DOMAIN p.body
              /\ q[2] \in 1 .. Len(p.body[q[1]])
         /\ \A b \in DOMAIN p.body : <<b, 1>> \in Positions(p)
         /\ \A q \in Positions(p) : At(p, q).kind \notin Terminators => After(q) \in Positions(p)
         /\ \A q \in Positions(p) : q # None
<1>1. WellFormed(p)
  BY PassAssumption
<1>2. \A b \in DOMAIN p.body : Len(p.body[b]) \in Nat \ {0}
  BY <1>1 DEF WellFormed
<1>3. \A q : q \in Positions(p) <=>
        /\ q = <<q[1], q[2]>>
        /\ q[1] \in DOMAIN p.body
        /\ q[2] \in 1 .. Len(p.body[q[1]])
  BY DEF Positions
<1>4. \A q \in Positions(p) : At(p, q).kind \notin Terminators => After(q) \in Positions(p)
  <2> SUFFICES ASSUME NEW q \in Positions(p), At(p, q).kind \notin Terminators
               PROVE  After(q) \in Positions(p)
    OBVIOUS
  <2>1. q[2] # Len(p.body[q[1]])
    BY <1>1 DEF WellFormed
  <2>2. q[1] \in DOMAIN p.body /\ q[2] + 1 \in 1 .. Len(p.body[q[1]])
    BY <1>2, <1>3, <2>1
  <2>3. After(q) = <<q[1], q[2] + 1>>
    BY DEF After
  <2> QED
    BY <1>3, <2>2, <2>3
<1>5. \A b \in DOMAIN p.body : <<b, 1>> \in Positions(p)
  BY <1>2, <1>3
<1>6. \A q \in Positions(p) : q # None
  BY <1>3 DEF None
<1> QED
  BY <1>1, <1>3, <1>4, <1>5, <1>6 DEF WellFormed

LEMMA StepsTyped ==
  ASSUME NEW p \in Programs, NEW q \in Positions(p), NEW cond, NEW way \in {1, 2}
  PROVE  StepsTo(p, q, cond, way) \subseteq Positions(p)
<1> DEFINE i == At(p, q)
<1>1. WellFormed(p)
  BY PassAssumption
<1>2. i.kind \notin Terminators => After(q) \in Positions(p)
  BY PositionFacts
<1>3. ReturnSites(p, q) \subseteq Positions(p)
  BY PositionFacts DEF ReturnSites, Calls, Terminators
<1>4. Successors(i) \subseteq DOMAIN p.body
  BY <1>1 DEF WellFormed, Successors
<1>5. Conditional(i) => i.to[way] \in DOMAIN p.body
  BY <1>1 DEF WellFormed, Conditional
<1>6. \A b \in DOMAIN p.body : <<b, 1>> \in Positions(p)
  BY PositionFacts
<1> QED
  BY <1>2, <1>3, <1>4, <1>5, <1>6 DEF StepsTo

\* A function is among those it calls.
LEMMA CalledFromItself ==
  ASSUME NEW p \in Programs, NEW f
  PROVE  f \in CalledFrom(p, f)
<1> DEFINE Callees(g) == {At(p, q).callee : q \in {q \in Positions(p) :
                            At(p, q).kind = "call" /\ p.fn[q[1]] = g}}
           Names == {f} \union UNION {Callees(g) : g \in DOMAIN p.entry}
           succ == [g \in Names |-> Callees(g)]
<1>1. CalledFrom(p, f) = Closure(succ, {f})
  BY DEF CalledFrom
<1>2. IsFiniteSet(Names)
  <2> DEFINE callee == [q \in Positions(p) |-> At(p, q).callee]
             All == {callee[q] : q \in Positions(p)}
  <2>1. IsFiniteSet(All)
    <3>1. callee \in Surjection(Positions(p), All)
      BY DEF Surjection
    <3> QED
      BY <3>1, PositionFacts, FS_Surjection
  <2>2. \A g : Callees(g) \subseteq All
    OBVIOUS
  <2>3. Names \subseteq All \union {f}
    BY <2>2
  <2> HIDE DEF Names, All
  <2>4. IsFiniteSet(All \union {f})
    BY <2>1, FS_AddElement
  <2> QED
    BY <2>3, <2>4, FS_Subset
<1>3. succ \in [Names -> SUBSET Names]
  <2>1. \A q \in Positions(p) : p.fn[q[1]] \in DOMAIN p.entry
    BY PositionFacts, PassAssumption DEF WellFormed
  <2>2. \A g : Callees(g) \subseteq Names
    BY <2>1
  <2> QED
    BY <2>2
<1>4. {f} \in SUBSET Names
  OBVIOUS
<1> HIDE DEF succ, Names
<1>5. {f} \subseteq Closure(succ, {f})
  BY <1>2, <1>3, <1>4, ClosureIsLeast
<1> QED
  BY <1>1, <1>5

-----------------------------------------------------------------------------
(* The scope of a request. *)

\* The condition whose value is known in the scope of the request created at i,
\* and the way it leads.
Cond(i) == IF Guard(i) = {} THEN "none" ELSE CHOOSE c \in Guard(i) : TRUE

Way(i) == IF Guard(i) = {} THEN 1 ELSE WayIndex(i)

Steps(i, q) == StepsTo(program, q, Cond(i), Way(i))

Scope(i) == InScope(i, {After(i)})

LEMMA GuardFacts ==
  ASSUME program \in Programs, NEW i
  PROVE  /\ Way(i) \in {1, 2}
         /\ Guard(i) \subseteq {Cond(i)}
         /\ Guard(i) # {} => Guard(i) = {Cond(i)} /\ Way(i) = WayIndex(i)
         /\ "none" \notin Guard(i)
<1>1. ASSUME NEW c \in Guard(i)
      PROVE  Guard(i) = {c} /\ WayIndex(i) \in {1, 2} /\ c # "none"
  <2>1. PICK e \in Predecessors(program, i[1]) :
          /\ Predecessors(program, i[1]) = {e}
          /\ Conditional(Instr(e[1]))
          /\ c = Instr(e[1]).cond
    BY DEF Guard
  <2>2. Guard(i) = {c}
    BY <2>1 DEF Guard
  <2>3. e \in Positions(program) \X {1, 2}
    BY DEF Predecessors
  <2>4. \E k \in {1, 2} : \E q \in Positions(program) : <<q, k>> \in Predecessors(program, i[1])
    BY <2>3
  <2>5. WayIndex(i) \in {1, 2}
    BY <2>4 DEF WayIndex
  <2>6. c # "none"
    BY <2>1, <2>3, PassAssumption DEF WellFormed, Instr
  <2> QED
    BY <2>2, <2>5, <2>6
<1> QED
  BY <1>1 DEF Way, Cond

LEMMA InScopeIsReachable ==
  ASSUME program \in Programs, NEW i, NEW from
  PROVE  InScope(i, from) = Reachable(program, i, from, Cond(i), Way(i))
<1>1. CASE Guard(i) = {}
  BY <1>1 DEF InScope, Cond, Way
<1>2. CASE Guard(i) # {}
  <2> DEFINE guards == {<<c, WayIndex(i)>> : c \in Guard(i)}
             g == <<Cond(i), Way(i)>>
             R(h) == Reachable(program, i, from, h[1], h[2])
  <2>1. guards = {g}
    BY <1>2, GuardFacts
  <2>2. InScope(i, from) = IF guards = {} THEN Reachable(program, i, from, "none", 1)
                           ELSE UNION {R(h) : h \in guards}
    BY DEF InScope
  <2>3. R(g) = Reachable(program, i, from, Cond(i), Way(i))
    OBVIOUS
  <2> HIDE DEF guards, g, R
  <2>4. UNION {R(h) : h \in guards} = R(g)
    BY <2>1
  <2> QED
    BY <2>1, <2>2, <2>3, <2>4
<1> QED
  BY <1>1, <1>2

LEMMA ScopeFacts ==
  ASSUME program \in Programs, NEW i, NEW from \in SUBSET Positions(program)
  PROVE  /\ InScope(i, from) \in SUBSET Positions(program)
         /\ from \subseteq InScope(i, from)
         /\ \A q \in InScope(i, from) :
              EndsScope(program, i, q) \/ Steps(i, q) \subseteq InScope(i, from)
         /\ \A qs \in SUBSET Positions(program) :
              /\ from \subseteq qs
              /\ \A q \in qs : EndsScope(program, i, q) \/ Steps(i, q) \subseteq qs
              => InScope(i, from) \subseteq qs
<1> DEFINE S == Positions(program)
           succ == [q \in S |-> IF EndsScope(program, i, q) THEN {} ELSE Steps(i, q)]
<1>1. IsFiniteSet(S)
  BY PositionFacts
<1>2. succ \in [S -> SUBSET S]
  BY StepsTyped, GuardFacts DEF Steps
<1>3. InScope(i, from) = Closure(succ, from)
  BY InScopeIsReachable DEF Reachable, Steps
<1>4. \A q \in S : succ[q] = IF EndsScope(program, i, q) THEN {} ELSE Steps(i, q)
  OBVIOUS
<1> HIDE DEF succ, S
<1>5. /\ Closure(succ, from) \in SUBSET S
      /\ from \subseteq Closure(succ, from)
      /\ \A x \in Closure(succ, from) : succ[x] \subseteq Closure(succ, from)
      /\ \A ys \in SUBSET S :
           from \subseteq ys /\ (\A x \in ys : succ[x] \subseteq ys)
             => Closure(succ, from) \subseteq ys
  <2>1. from \in SUBSET S
    BY DEF S
  <2> QED
    BY <1>1, <1>2, <2>1, ClosureIsLeast
<1>6. \A q \in Closure(succ, from) :
        EndsScope(program, i, q) \/ Steps(i, q) \subseteq Closure(succ, from)
  BY <1>4, <1>5
<1>7. ASSUME NEW qs \in SUBSET S, from \subseteq qs,
             \A q \in qs : EndsScope(program, i, q) \/ Steps(i, q) \subseteq qs
      PROVE  Closure(succ, from) \subseteq qs
  <2>1. \A q \in qs : succ[q] \subseteq qs
    BY <1>4, <1>7
  <2> QED
    BY <1>5, <1>7, <2>1
<1> QED
  BY <1>3, <1>5, <1>6, <1>7 DEF S

\* The program does not change, nor does what depends on it.
LEMMA ScopeUnchanged ==
  ASSUME program' = program
  PROVE  /\ \A i, from : InScope(i, from)' = InScope(i, from)
         /\ \A i : Scope(i)' = Scope(i)
         /\ \A i, q : Steps(i, q)' = Steps(i, q)
         /\ \A i, q : SameDirection(i, q)' = SameDirection(i, q)
         /\ \A kinds : Inits(kinds)' = Inits(kinds)
  BY DEF InScope, Scope, Steps, Cond, Way, Guard, WayIndex, Instr, SameDirection, Inits

-----------------------------------------------------------------------------
(* Types. *)

TypeInv == TypeOK /\ (current # None => next # None)

\* What the walk takes up at a terminator are the program's steps, without the
\* heads of blocks that are checked.
LEMMA FollowFacts ==
  ASSUME program \in Programs, NEW q \in Positions(program), Instr(q).kind \in Terminators
  PROVE  /\ Follow(q) \subseteq Steps(current, q)
         /\ Follow(q) \subseteq Positions(program)
         /\ \A r \in Steps(current, q) : r \in Follow(q) \/ \E b \in checked : r = <<b, 1>>
         /\ \A r \in Follow(q) : r[2] = 1 \/ (Instr(q).kind = "ret" /\ r \in ReturnSites(program, q))
<1> DEFINE i == Instr(q)
<1>1. CASE i.kind = "ret"
  <2>1. Follow(q) = ReturnSites(program, q)
    BY <1>1 DEF Follow
  <2>2. Steps(current, q) = ReturnSites(program, q)
    BY <1>1 DEF Steps, StepsTo, Instr, Terminators
  <2>3. ReturnSites(program, q) \subseteq Positions(program)
    BY <2>2, StepsTyped, GuardFacts DEF Steps
  <2> QED
    BY <1>1, <2>1, <2>2, <2>3
<1>2. ASSUME NEW bs, Follow(q) = {<<b, 1>> : b \in Unchecked(bs)},
             Steps(current, q) = {<<b, 1>> : b \in bs}
      PROVE  /\ Follow(q) \subseteq Steps(current, q)
             /\ \A r \in Steps(current, q) : r \in Follow(q) \/ \E b \in checked : r = <<b, 1>>
             /\ \A r \in Follow(q) : r[2] = 1
  BY <1>2 DEF Unchecked
<1>3. CASE i.kind # "ret" /\ Conditional(i) /\ i.cond = Cond(current)
  <2>1. i.cond # "none"
    BY <1>3, PassAssumption DEF WellFormed, Instr
  <2>2. Guard(current) = {Cond(current)} /\ Way(current) = WayIndex(current)
    BY <2>1, <1>3, GuardFacts DEF Cond
  <2>3. Follow(q) = {<<b, 1>> : b \in Unchecked({i.to[Way(current)]})}
    BY <1>3, <2>2 DEF Follow
  <2>4. Steps(current, q) = {<<b, 1>> : b \in {i.to[Way(current)]}}
    BY <1>3 DEF Steps, StepsTo, Instr
  <2>5. Steps(current, q) \subseteq Positions(program)
    BY StepsTyped, GuardFacts DEF Steps
  <2> HIDE DEF i
  <2> QED
    BY <1>2, <2>3, <2>4, <2>5
<1>4. CASE i.kind # "ret" /\ ~(Conditional(i) /\ i.cond = Cond(current))
  <2>1. ~(Conditional(i) /\ i.cond \in Guard(current))
    BY <1>4, GuardFacts
  <2>2. Follow(q) = {<<b, 1>> : b \in Unchecked(Successors(i))}
    BY <1>4, <2>1 DEF Follow
  <2>3. Steps(current, q) = {<<b, 1>> : b \in Successors(i)}
    BY <1>4 DEF Steps, StepsTo, Instr
  <2>4. Steps(current, q) \subseteq Positions(program)
    BY StepsTyped, GuardFacts DEF Steps
  <2> HIDE DEF i
  <2> QED
    BY <1>2, <2>2, <2>3, <2>4
<1> QED
  BY <1>1, <1>3, <1>4

LEMMA InitTypeInv == Init => TypeInv
  BY DEF Init, TypeInv, TypeOK, Inits

LEMMA BeginTypeInv ==
  ASSUME TypeInv, NEW i \in todo, Begin(i)
  PROVE  TypeInv'
<1>1. i \in Inits(InitKinds) /\ program \in Programs
  BY DEF TypeInv, TypeOK
<1>2. i \in Positions(program) /\ Instr(i).kind \notin Terminators
  BY <1>1 DEF Inits, Instr, InitKinds, Terminators
<1>3. After(i) \in Positions(program) /\ After(i) # None /\ i # None
  BY <1>1, <1>2, PositionFacts DEF Instr
<1>4. Inits(InitKinds)' = Inits(InitKinds)
  BY ScopeUnchanged DEF Begin
<1> QED
  BY <1>1, <1>3, <1>4 DEF Begin, TypeInv, TypeOK

LEMMA FinishTypeInv ==
  ASSUME TypeInv, Walking, NEW result \in {"none", "conflict"}, Finish(result)
  PROVE  TypeInv'
<1>1. Inits(InitKinds)' = Inits(InitKinds)
  BY ScopeUnchanged DEF Finish
<1> QED
  BY <1>1 DEF Finish, Walking, TypeInv, TypeOK

LEMMA AbortTypeInv ==
  ASSUME TypeInv, Abort
  PROVE  TypeInv'
<1>1. Inits(InitKinds)' = Inits(InitKinds)
  BY ScopeUnchanged DEF Abort
<1> QED
  BY <1>1 DEF Abort, walk, TypeInv, TypeOK

LEMMA WalkingTyped ==
  ASSUME TypeInv, Walking
  PROVE  /\ program \in Programs
         /\ current \in Positions(program) /\ current \in Inits(InitKinds)
         /\ next \in Positions(program)
         /\ toCheck \subseteq Positions(program)
  BY DEF TypeInv, TypeOK, Walking, Inits

\* A step of the walk that neither ends it nor fails.
WalkOn ==
  /\ next' \in Positions(program)
  /\ toCheck' \subseteq Positions(program)
  /\ checked' \subseteq DOMAIN program.body
  /\ UNCHANGED <<program, build, todo, current, verdict, replaced, added, pc>>

LEMMA WalkOnTypeInv ==
  ASSUME TypeInv, Walking, WalkOn
  PROVE  TypeInv'
<1>1. Inits(InitKinds)' = Inits(InitKinds)
  BY ScopeUnchanged DEF WalkOn
<1>2. next' # None
  BY WalkingTyped, PositionFacts DEF WalkOn
<1> QED
  BY <1>1, <1>2 DEF WalkOn, Walking, TypeInv, TypeOK

\* The positions that are still to check after next, if the walk cannot go on in the block.
Work == IF Instr(next).kind \notin Terminators THEN toCheck ELSE toCheck \union Follow(next)

LEMMA WorkTyped ==
  ASSUME TypeInv, Walking
  PROVE  Work \subseteq Positions(program)
  BY WalkingTyped, FollowFacts DEF Work

BlockEnds == Instr(next).kind \notin Terminators => Instr(After(next)).kind = "unreachable"

LEMMA GoOnCases ==
  ASSUME TypeInv, Walking, GoOn
  PROVE  \/ /\ ~BlockEnds
            /\ next' = After(next) /\ toCheck' = toCheck /\ checked' = checked
            /\ WalkOn
         \/ /\ BlockEnds
            /\ \E q \in Work : next' = q /\ toCheck' = Work \ {q} /\ checked' = checked \union {q[1]}
            /\ WalkOn
         \/ /\ BlockEnds /\ Work = {}
            /\ Abort \/ Finish("conflict")
<1>1. CASE ~BlockEnds /\ next' = After(next)
           /\ UNCHANGED <<program, build, todo, current, toCheck, checked, verdict, replaced, added, pc>>
  <2>1. After(next) \in Positions(program)
    BY <1>1, WalkingTyped, PositionFacts DEF BlockEnds, Instr
  <2> QED
    BY <1>1, <2>1 DEF WalkOn, TypeInv, TypeOK
<1>2. CASE /\ BlockEnds
           /\ \E q \in Work : next' = q /\ toCheck' = Work \ {q} /\ checked' = checked \union {q[1]}
           /\ UNCHANGED <<program, build, todo, current, verdict, replaced, added, pc>>
  <2>1. \A q \in Work : q \in Positions(program) /\ q[1] \in DOMAIN program.body
    BY WorkTyped, WalkingTyped, PositionFacts
  <2>2. WalkOn
    BY <1>2, <2>1, WorkTyped DEF WalkOn, TypeInv, TypeOK
  <2> QED
    BY <1>2, <2>2
<1>3. CASE BlockEnds /\ Work = {} /\ (Abort \/ Finish("conflict"))
  BY <1>3
<1> QED
  BY <1>1, <1>2, <1>3 DEF GoOn, Work, BlockEnds

LEMMA GoOnTypeInv == ASSUME TypeInv, Walking, GoOn PROVE TypeInv'
  BY GoOnCases, WalkOnTypeInv, AbortTypeInv, FinishTypeInv

LEMMA NextTypeInv == TypeInv /\ [Next]_vars => TypeInv'
<1> SUFFICES ASSUME TypeInv, [Next]_vars PROVE TypeInv'
  OBVIOUS
<1>1. CASE UNCHANGED vars
  <2>1. Inits(InitKinds)' = Inits(InitKinds)
    BY <1>1, ScopeUnchanged DEF vars
  <2> QED
    BY <1>1, <2>1 DEF vars, walk, TypeInv, TypeOK
<1>2. CASE WalkEnding
  BY <1>2, FinishTypeInv DEF WalkEnding
<1>3. CASE WalkCompare
  BY <1>3, FinishTypeInv, AbortTypeInv, GoOnTypeInv DEF WalkCompare
<1>4. CASE WalkCall
  BY <1>4, FinishTypeInv, GoOnTypeInv DEF WalkCall
<1>5. CASE WalkOther
  BY <1>5, GoOnTypeInv DEF WalkOther
<1>6. CASE AnalysisDone
  <2>1. Inits(InitKinds)' = Inits(InitKinds)
    BY <1>6, ScopeUnchanged DEF AnalysisDone
  <2> QED
    BY <1>6, <2>1 DEF AnalysisDone, walk, TypeInv, TypeOK
<1>7. CASE Replace
  <2>1. Inits(InitKinds)' = Inits(InitKinds)
    BY <1>7, ScopeUnchanged DEF Replace
  <2>2. \A kinds : Inits(kinds) \subseteq Positions(program)
    BY DEF Inits
  <2>3. Gather \subseteq Positions(program)
    BY <2>2 DEF Gather, Usage
  <2> QED
    BY <1>7, <2>1, <2>2, <2>3 DEF Replace, walk, TypeInv, TypeOK
<1>8. ASSUME NEW i \in todo, Begin(i) PROVE TypeInv'
  BY <1>8, BeginTypeInv
<1>9. CASE Stopped
  BY <1>1, <1>9 DEF Stopped
<1> QED
  BY <1>1, <1>2, <1>3, <1>4, <1>5, <1>6, <1>7, <1>8, <1>9 DEF Next

\* The variables of the pass have their types in every program.
THEOREM TypeCorrect == Spec => []TypeOK
<1>1. TypeInv => TypeOK
  BY DEF TypeInv
<1> QED
  BY <1>1, InitTypeInv, NextTypeInv, PTL DEF Spec

-----------------------------------------------------------------------------
(* The walk covers the scope. *)

\* A block into which a function returns, in the scope of a request, is not
\* entered at its head in that scope.
ReturnsBehindHeads ==
  \A i \in Inits(InitKinds) : \A r \in Scope(i) :
    Instr(r).kind = "ret" =>
      \A q \in ReturnSites(program, r) : <<q[1], 1>> \notin Scope(i)

\* The positions walked have been passed without an alarm, and lead to
\* others that are walked or to some that are ahead, and so do the heads of
\* the blocks that are checked.
Covered(walked, ahead) ==
  /\ walked \subseteq Scope(current) /\ ahead \subseteq Scope(current)
  /\ After(current) \in walked \union ahead
  /\ \A q \in walked :
       /\ ~EndsScope(program, current, q)
       /\ ~Alarming(current, q)
       /\ Steps(current, q) \subseteq walked \union ahead
  /\ \A b \in checked : <<b, 1>> \in Scope(current) => <<b, 1>> \in walked \union ahead

\* Work behind the head of a block is from a return.
BehindHeads(qs) == \A q \in qs : q[2] = 1 \/ <<q[1], 1>> \notin Scope(current)

WalkInv ==
  Walking => \E walked \in SUBSET Positions(program) :
    Covered(walked, {next} \union toCheck) /\ BehindHeads(toCheck)

LEMMA EndsUnchanged ==
  ASSUME program' = program, build' = build
  PROVE  /\ \A i, q : Alarming(i, q)' = Alarming(i, q)
         /\ \A i, q : EndsScope(program, i, q)' = EndsScope(program, i, q)
         /\ ReturnsBehindHeads' = ReturnsBehindHeads
<1>1. ReturnsBehindHeads' = ReturnsBehindHeads
  BY ScopeUnchanged DEF ReturnsBehindHeads, Instr
<1>2. \A f : MayConflict(f)' = MayConflict(f)
  BY DEF MayConflict
<1>3. \A i, q : Conflicting(i, q)' = Conflicting(i, q)
  BY DEF Conflicting, Unsupported, Instr
<1>4. \A i, q : Alarming(i, q)' = Alarming(i, q)
  BY <1>2, <1>3, ScopeUnchanged DEF Alarming, Instr
<1> QED
  BY <1>1, <1>4

\* get_scope_endings finds what ends the scope.
LEMMA EndingsFound ==
  ASSUME NEW i, NEW q \in Positions(program)
  PROVE  q \in ScopeEndings(i) <=> EndsScope(program, i, q)
  BY DEF ScopeEndings, EndsScope, Inits, Instr

LEMMA ScopeOfInit ==
  ASSUME program \in Programs, NEW i \in Inits(InitKinds)
  PROVE  /\ i \in Positions(program)
         /\ After(i) \in Positions(program)
         /\ After(i) \in Scope(i)
         /\ Scope(i) \in SUBSET Positions(program)
         /\ \A q \in Scope(i) : EndsScope(program, i, q) \/ Steps(i, q) \subseteq Scope(i)
<1>1. i \in Positions(program) /\ Instr(i).kind \notin Terminators
  BY DEF Inits, Instr, InitKinds, Terminators
<1>2. After(i) \in Positions(program)
  BY <1>1, PositionFacts DEF Instr
<1> QED
  BY <1>1, <1>2, ScopeFacts DEF Scope

\* Past an instruction within a block.
LEMMA CoveredWithin ==
  ASSUME TypeInv, Walking, ~BlockEnds,
         ~EndsScope(program, current, next), ~Alarming(current, next),
         NEW walked, Covered(walked, {next} \union toCheck)
  PROVE  Covered(walked \union {next}, {After(next)} \union toCheck)
<1>1. Instr(next).kind \notin Terminators
  BY DEF BlockEnds
<1>2. Steps(current, next) = {After(next)}
  BY <1>1 DEF Steps, StepsTo, Instr
<1>3. After(next) \in Scope(current)
  BY <1>2, WalkingTyped, ScopeOfInit DEF Covered
<1> QED
  BY <1>2, <1>3 DEF Covered

\* Past an instruction at the end of its block.
LEMMA CoveredAtEnd ==
  ASSUME TypeInv, Walking, BlockEnds, ReturnsBehindHeads,
         ~EndsScope(program, current, next), ~Alarming(current, next),
         NEW walked \in SUBSET Positions(program),
         Covered(walked, {next} \union toCheck), BehindHeads(toCheck)
  PROVE  \E more \in SUBSET Positions(program) : Covered(more, Work) /\ BehindHeads(Work)
<1> USE WalkingTyped
<1>1. next \in Scope(current) /\ Scope(current) \in SUBSET Positions(program)
  BY ScopeOfInit DEF Covered
<1>2. Steps(current, next) \subseteq Scope(current)
  BY <1>1, ScopeOfInit
<1>3. CASE Instr(next).kind \notin Terminators
  <2> DEFINE more == walked \union {next, After(next)}
  <2>1. Steps(current, next) = {After(next)}
    BY <1>3 DEF Steps, StepsTo, Instr
  <2>2. After(next) \in Scope(current) /\ Instr(After(next)).kind = "unreachable"
    BY <1>2, <1>3, <2>1 DEF BlockEnds
  <2>3. Steps(current, After(next)) = {}
    BY <2>2 DEF Steps, StepsTo, Instr, Successors, Conditional, Terminators
  <2>4. ~EndsScope(program, current, After(next)) /\ ~Alarming(current, After(next))
    BY <2>2 DEF EndsScope, Alarming, SameDirection, SendKinds, RecvKinds, Instr
  <2>5. Work = toCheck
    BY <1>3 DEF Work
  <2>6. Covered(more, Work)
    BY <1>1, <2>1, <2>2, <2>3, <2>4, <2>5 DEF Covered
  <2>7. more \in SUBSET Positions(program)
    BY <1>1, <2>2
  <2> QED
    BY <2>5, <2>6, <2>7
<1>4. CASE Instr(next).kind \in Terminators
  <2> DEFINE more == walked \union {next}
  <2>1. Work = toCheck \union Follow(next)
    BY <1>4 DEF Work
  <2>2. /\ Follow(next) \subseteq Steps(current, next)
        /\ \A r \in Steps(current, next) :
             r \in Follow(next) \/ \E b \in checked : r = <<b, 1>>
        /\ \A r \in Follow(next) :
             r[2] = 1 \/ (Instr(next).kind = "ret" /\ r \in ReturnSites(program, next))
    BY <1>4, FollowFacts
  <2>3. Steps(current, next) \subseteq more \union Work
    BY <1>2, <2>1, <2>2 DEF Covered
  <2>4. Work \subseteq Scope(current)
    BY <1>2, <2>1, <2>2 DEF Covered
  <2>5. Covered(more, Work)
    BY <1>1, <2>1, <2>3, <2>4 DEF Covered
  <2>6. BehindHeads(Work)
    BY <1>1, <2>1, <2>2 DEF BehindHeads, ReturnsBehindHeads
  <2> QED
    BY <1>1, <2>5, <2>6
<1> QED
  BY <1>3, <1>4

\* When nothing is left ahead, the whole scope was walked.
LEMMA CoveredAll ==
  ASSUME TypeInv, Walking, NEW walked \in SUBSET Positions(program), Covered(walked, {})
  PROVE  Scope(current) \subseteq walked
<1>1. After(current) \in walked /\ \A q \in walked : Steps(current, q) \subseteq walked
  BY DEF Covered
<1> QED
  BY <1>1, WalkingTyped, ScopeOfInit, ScopeFacts DEF Scope

\* What Covered says of walked and ahead, if nothing but the sets of the walk changes.
LEMMA CoveredKept ==
  ASSUME TypeInv, Walking, WalkOn, NEW walked, NEW ahead, Covered(walked, ahead),
         \A b \in checked' : b \in checked \/ (<<b, 1>> \in Scope(current) => <<b, 1>> \in ahead)
  PROVE  /\ Covered(walked, ahead)'
         /\ \A qs : BehindHeads(qs) => BehindHeads(qs)'
<1>1. program' = program /\ build' = build /\ current' = current
  BY DEF WalkOn
<1>2. Scope(current)' = Scope(current)
  BY <1>1 DEF Scope, InScope, Guard, WayIndex, Instr
<1>3. \A q : Steps(current, q)' = Steps(current, q)
  BY <1>1 DEF Steps, Cond, Way, Guard, WayIndex, Instr
<1>4. \A q : Alarming(current, q)' = Alarming(current, q)
  BY <1>1 DEF Alarming, MayConflict, SameDirection, Conflicting, Unsupported, Instr
<1>5. \A q : EndsScope(program, current, q)' = EndsScope(program, current, q)
  BY <1>1
<1>6. After(current)' = After(current)
  BY <1>1
<1>7. Covered(walked, ahead)'
  BY <1>2, <1>3, <1>4, <1>5, <1>6 DEF Covered
<1>8. \A qs : BehindHeads(qs) => BehindHeads(qs)'
  BY <1>2 DEF BehindHeads
<1> QED
  BY <1>7, <1>8

\* Why a walk may report a conflict.
Reportable(i) ==
  \/ \E q \in Scope(i) :
       \/ Instr(q).kind = "call" /\ Communicates(program, Instr(q).callee)
       \/ SameDirection(i, q)
  \/ \A q \in Scope(i) : ~EndsScope(program, i, q)

ReportInv == \A i \in Inits(InitKinds) : verdict[i] = "conflict" => Reportable(i)

LEMMA ReportableUnchanged ==
  ASSUME program' = program
  PROVE  \A i : Reportable(i)' = Reportable(i)
  BY ScopeUnchanged DEF Reportable, Instr

LEMMA FinishReports ==
  ASSUME TypeInv, Walking, ReportInv, NEW result \in {"none", "conflict"}, Finish(result),
         result = "conflict" => Reportable(current)
  PROVE  ReportInv' /\ WalkInv'
<1>1. program' = program /\ verdict' = [verdict EXCEPT ![current] = result] /\ ~Walking'
  BY DEF Finish, Walking
<1>2. Inits(InitKinds)' = Inits(InitKinds) /\ \A i : Reportable(i)' = Reportable(i)
  BY <1>1, ScopeUnchanged, ReportableUnchanged
<1>3. verdict \in [Inits(InitKinds) -> {"open", "none", "conflict"}]
  BY DEF TypeInv, TypeOK
<1>4. ASSUME NEW i \in Inits(InitKinds), verdict'[i] = "conflict"
      PROVE  Reportable(i)
  <2>1. CASE i = current
    BY <1>1, <1>3, <1>4, <2>1
  <2>2. CASE i # current
    BY <1>1, <1>3, <1>4, <2>2 DEF ReportInv
  <2> QED
    BY <2>1, <2>2
<1>5. ReportInv'
  BY <1>2, <1>4 DEF ReportInv
<1> QED
  BY <1>1, <1>5 DEF WalkInv

\* Steps that do not touch the walk.
LEMMA ReportsKept ==
  ASSUME ReportInv, program' = program, verdict' = verdict
  PROVE  ReportInv'
  BY ScopeUnchanged, ReportableUnchanged DEF ReportInv

\* A step of the walk after which more is walked, and the rest is ahead.
LEMMA WalkOnCovers ==
  ASSUME TypeInv, Walking, ReportInv, WalkOn,
         NEW more, NEW ahead, NEW rest, Covered(more, ahead), BehindHeads(rest),
         ahead = {next'} \union toCheck', rest = toCheck',
         \A b \in checked' : b \in checked \/ (<<b, 1>> \in Scope(current) => <<b, 1>> \in ahead)
  PROVE  WalkInv' /\ ReportInv'
<1>1. Covered(more, ahead)' /\ BehindHeads(rest)'
  BY CoveredKept
<1>2. Covered(more, {next} \union toCheck)' /\ BehindHeads(toCheck)'
  BY <1>1 DEF Covered, BehindHeads
<1>3. program' = program /\ verdict' = verdict
  BY DEF WalkOn
<1>4. more \in SUBSET Positions(program)
  BY WalkingTyped, ScopeOfInit DEF Covered
<1> QED
  BY <1>2, <1>3, <1>4, ReportsKept DEF WalkInv

LEMMA GoOnCovers ==
  ASSUME TypeInv, Walking, ReturnsBehindHeads, WalkInv, ReportInv,
         ~EndsScope(program, current, next), ~Alarming(current, next), GoOn
  PROVE  WalkInv' /\ ReportInv'
<1>1. PICK walked \in SUBSET Positions(program) :
        Covered(walked, {next} \union toCheck) /\ BehindHeads(toCheck)
  BY DEF WalkInv
<1>2. CASE /\ ~BlockEnds
           /\ next' = After(next) /\ toCheck' = toCheck /\ checked' = checked
           /\ WalkOn
  <2>1. Covered(walked \union {next}, {After(next)} \union toCheck)
    BY <1>1, <1>2, CoveredWithin
  <2> QED
    BY <1>1, <1>2, <2>1, WalkOnCovers
<1>3. CASE /\ BlockEnds
           /\ \E q \in Work : next' = q /\ toCheck' = Work \ {q} /\ checked' = checked \union {q[1]}
           /\ WalkOn
  <2>1. PICK more \in SUBSET Positions(program) : Covered(more, Work) /\ BehindHeads(Work)
    BY <1>1, <1>3, CoveredAtEnd
  <2>2. PICK q \in Work : next' = q /\ toCheck' = Work \ {q} /\ checked' = checked \union {q[1]}
    BY <1>3
  <2>3. Work = {next'} \union toCheck' /\ BehindHeads(Work \ {q})
    BY <2>1, <2>2 DEF BehindHeads
  <2>4. q[2] = 1 => q = <<q[1], 1>>
    BY WorkTyped, WalkingTyped, PositionFacts
  <2>5. <<q[1], 1>> \in Scope(current) => <<q[1], 1>> \in Work
    BY <2>1, <2>4 DEF BehindHeads
  <2> QED
    BY <1>3, <2>1, <2>2, <2>3, <2>5, WalkOnCovers
<1>4. CASE BlockEnds /\ Work = {} /\ (Abort \/ Finish("conflict"))
  <2>1. PICK more \in SUBSET Positions(program) : Covered(more, {})
    BY <1>1, <1>4, CoveredAtEnd
  <2>2. Reportable(current)
    BY <2>1, CoveredAll DEF Reportable, Covered
  <2>3. CASE Abort
    <3>1. ~Walking' /\ program' = program /\ verdict' = verdict
      BY <2>3 DEF Abort, Walking
    <3> QED
      BY <3>1, ReportsKept DEF WalkInv
  <2> QED
    BY <1>4, <2>2, <2>3, FinishReports
<1> QED
  BY <1>2, <1>3, <1>4, GoOnCases

LEMMA CalleeCommunicates ==
  ASSUME TypeInv, Walking, Instr(next).kind = "call", MayConflict(Instr(next).callee)
  PROVE  Communicates(program, Instr(next).callee)
<1> DEFINE f == Instr(next).callee
<1>1. f \in CalledFrom(program, f)
  BY WalkingTyped, CalledFromItself
<1> QED
  BY <1>1 DEF MayConflict, Communicates

IInv == TypeInv /\ ReturnsBehindHeads /\ WalkInv /\ ReportInv

LEMMA InitIInv == Init /\ ReturnsBehindHeads => IInv
  BY InitTypeInv DEF Init, IInv, WalkInv, Walking, ReportInv

LEMMA BeginCovers ==
  ASSUME IInv, NEW i \in todo, Begin(i)
  PROVE  WalkInv' /\ ReportInv'
<1>1. i \in Inits(InitKinds) /\ program \in Programs
  BY DEF IInv, TypeInv, TypeOK
<1>2. program' = program /\ verdict' = verdict /\ current' = i
      /\ next' = After(i) /\ toCheck' = {} /\ checked' = {}
  BY DEF Begin
<1>3. After(i) \in Scope(i)
  BY <1>1, ScopeOfInit
<1>4. Scope(current)' = Scope(i) /\ After(current)' = After(i)
  BY <1>2 DEF Scope, InScope, Guard, WayIndex, Instr
<1>5. Covered({}, {next} \union toCheck)' /\ BehindHeads(toCheck)'
  BY <1>2, <1>3, <1>4 DEF Covered, BehindHeads
<1>6. ReportInv'
  BY <1>2, ReportsKept DEF IInv
<1> QED
  BY <1>5, <1>6 DEF WalkInv

LEMMA NextIInv == IInv /\ [Next]_vars => IInv'
<1> SUFFICES ASSUME IInv, [Next]_vars PROVE WalkInv' /\ ReportInv' /\ ReturnsBehindHeads'
  BY NextTypeInv DEF IInv
<1> USE DEF IInv
<1>1. program' = program /\ build' = build
  BY DEF Next, vars, walk, Begin, WalkEnding, WalkCompare, WalkCall, WalkOther, GoOn, Finish, Abort,
         AnalysisDone, Replace, Stopped
<1>2. ReturnsBehindHeads'
  BY <1>1, EndsUnchanged
<1>3. CASE UNCHANGED vars
  <2>1. CASE Walking
    <3>1. PICK walked \in SUBSET Positions(program) :
            Covered(walked, {next} \union toCheck) /\ BehindHeads(toCheck)
      BY <2>1 DEF WalkInv
    <3>2. WalkOn /\ {next'} \union toCheck' = {next} \union toCheck /\ toCheck' = toCheck
          /\ checked' = checked
      BY <1>3, <2>1, WalkingTyped DEF vars, walk, WalkOn, TypeInv, TypeOK
    <3> QED
      BY <1>2, <2>1, <3>1, <3>2, WalkOnCovers
  <2>2. CASE ~Walking
    BY <1>2, <1>3, <2>2, ReportsKept DEF vars, Walking, WalkInv
  <2> QED
    BY <2>1, <2>2
<1>4. CASE WalkEnding
  BY <1>2, <1>4, FinishReports DEF WalkEnding
<1>5. CASE WalkCompare
  <2>1. Walking /\ SameDirection(current, next)
    BY <1>5 DEF WalkCompare
  <2>2. next \in Scope(current)
    BY <2>1 DEF WalkInv, Covered
  <2>3. Reportable(current)
    BY <2>1, <2>2 DEF Reportable
  <2>4. CASE Abort
    <3>1. ~Walking' /\ verdict' = verdict
      BY <2>4 DEF Abort, Walking
    <3> QED
      BY <1>1, <1>2, <3>1, ReportsKept DEF WalkInv
  <2>5. CASE build # "Debug" /\ ~Conflicting(current, next) /\ GoOn
    <3>1. ~EndsScope(program, current, next) /\ ~Alarming(current, next)
      BY <2>1, <2>5 DEF EndsScope, Alarming, SameDirection, SendKinds, RecvKinds, Instr
    <3> QED
      BY <1>2, <2>1, <2>5, <3>1, GoOnCovers
  <2>6. CASE Finish("conflict")
    BY <1>2, <2>1, <2>3, <2>6, FinishReports
  <2> QED
    BY <1>5, <2>4, <2>5, <2>6 DEF WalkCompare
<1>6. CASE WalkCall
  <2>1. Walking /\ Instr(next).kind = "call"
    BY <1>6 DEF WalkCall
  <2>2. next \in Scope(current)
    BY <2>1 DEF WalkInv, Covered
  <2>3. CASE MayConflict(Instr(next).callee) /\ Finish("conflict")
    <3>1. Communicates(program, Instr(next).callee)
      BY <2>1, <2>3, CalleeCommunicates
    <3> QED
      BY <1>2, <2>1, <2>2, <2>3, <3>1, FinishReports DEF Reportable
  <2>4. CASE ~MayConflict(Instr(next).callee) /\ GoOn
    <3>1. ~EndsScope(program, current, next) /\ ~Alarming(current, next)
      BY <2>1, <2>4 DEF EndsScope, Alarming, SameDirection, SendKinds, RecvKinds, Instr
    <3> QED
      BY <1>2, <2>1, <2>4, <3>1, GoOnCovers
  <2> QED
    BY <1>6, <2>3, <2>4 DEF WalkCall
<1>7. CASE WalkOther
  <2>1. Walking /\ GoOn /\ ~EndsScope(program, current, next) /\ ~Alarming(current, next)
    BY <1>7, WalkingTyped, EndingsFound DEF WalkOther, Alarming
  <2> QED
    BY <1>2, <2>1, GoOnCovers
<1>8. CASE AnalysisDone \/ Replace
  <2>1. ~Walking' /\ verdict' = verdict
    BY <1>8 DEF AnalysisDone, Replace, Walking
  <2> QED
    BY <1>1, <1>2, <2>1, ReportsKept DEF WalkInv
<1>9. ASSUME NEW i \in todo, Begin(i) PROVE WalkInv' /\ ReportInv'
  BY <1>9, BeginCovers
<1> QED
  BY <1>2, <1>3, <1>4, <1>5, <1>6, <1>7, <1>8, <1>9 DEF Next, Stopped

(***************************************************************************)
(* In whatever order the work is taken up, the walk has the alarming calls *)
(* of the scope before it until it reaches one of them, in every program   *)
(* in which no function returns into a block that the scope also enters at *)
(* its head: such a block counts as checked from the return on, and what   *)
(* is in front of the call is left out.                                    *)
(***************************************************************************)
THEOREM NothingSkippedHolds == Spec /\ ReturnsBehindHeads => []NothingSkipped
<1>1. IInv => NothingSkipped
  <2> SUFFICES ASSUME IInv, Walking, NEW q \in Scope(current), Alarming(current, q)
               PROVE  q \in InScope(current, {next} \union toCheck)
    BY DEF NothingSkipped, Scope
  <2> USE DEF IInv
  <2> DEFINE ahead == InScope(current, {next} \union toCheck)
  <2>1. PICK walked \in SUBSET Positions(program) : Covered(walked, {next} \union toCheck)
    BY DEF WalkInv
  <2>2. /\ ahead \in SUBSET Positions(program)
        /\ {next} \union toCheck \subseteq ahead
        /\ \A r \in ahead : EndsScope(program, current, r) \/ Steps(current, r) \subseteq ahead
    BY WalkingTyped, ScopeFacts
  <2> HIDE DEF ahead
  <2> DEFINE all == walked \union ahead
  <2>3. /\ all \in SUBSET Positions(program)
        /\ {After(current)} \subseteq all
        /\ \A r \in all : EndsScope(program, current, r) \/ Steps(current, r) \subseteq all
    BY <2>1, <2>2 DEF Covered
  <2>4. Scope(current) \subseteq all
    <3> HIDE DEF all
    <3>1. program \in Programs /\ {After(current)} \in SUBSET Positions(program)
      BY WalkingTyped, ScopeOfInit
    <3> QED
      BY <2>3, <3>1, ScopeFacts DEF Scope
  <2>5. q \notin walked
    BY <2>1 DEF Covered
  <2> QED
    BY <2>4, <2>5 DEF ahead
<1> QED
  BY <1>1, InitIInv, NextIInv, PTL DEF Spec

(***************************************************************************)
(* The walk reports a conflict only where a call in the scope can cause    *)
(* one, or where nothing ends the scope, in the same programs: in others   *)
(* the ending may be in what is left out.                                  *)
(***************************************************************************)
THEOREM ReportsReachableHolds == Spec /\ ReturnsBehindHeads => []ReportsReachable
<1>1. IInv => ReportsReachable
  <2> SUFFICES ASSUME IInv, NEW i \in Inits(InitKinds), verdict[i] = "conflict"
               PROVE  Reportable(i)
    BY DEF ReportsReachable, Reportable, Scope, IInv, TypeInv, TypeOK
  <2> QED
    BY DEF IInv, ReportInv
<1> QED
  BY <1>1, InitIInv, NextIInv, PTL DEF Spec

-----------------------------------------------------------------------------
(* The replacement. *)

\* Every request has a variable of its own.
OneRequestPerVariable ==
  \A i, j \in Inits(InitKinds) : Instr(i).req = Instr(j).req => i = j

\* Calls without a counterpart are met by an assertion, or there are none.
CounterpartsExist == build = "Debug" \/ Inits({"test"}) = {}

\* What Replace takes as the calls to replace.
Chosen == IF Accepted("sendInit") = {} \/ Accepted("recvInit") = {} THEN {} ELSE Gather

ReplaceInv ==
  /\ OneRequestPerVariable /\ CounterpartsExist
  /\ pc \in {"analyse", "replace"} => replaced = {}
  /\ pc = "done" => /\ replaced = {q \in Chosen : Replaceable(q)}
                    /\ build = "Debug" => replaced = Chosen

LEMMA ChosenUnchanged ==
  ASSUME program' = program, build' = build
  PROVE  /\ OneRequestPerVariable' = OneRequestPerVariable
         /\ CounterpartsExist' = CounterpartsExist
         /\ verdict' = verdict => Chosen' = Chosen
         /\ \A q : Replaceable(q)' = Replaceable(q)
<1>1. \A kinds : Inits(kinds)' = Inits(kinds)
  BY ScopeUnchanged
<1>2. \A q : Instr(q)' = Instr(q)
  BY DEF Instr
<1>3. \A i : Usage(i)' = Usage(i)
  BY <1>1, <1>2 DEF Usage
<1>4. verdict' = verdict => \A kind : Accepted(kind)' = Accepted(kind)
  BY <1>1 DEF Accepted
<1>5. verdict' = verdict => Gather' = Gather
  BY <1>3, <1>4 DEF Gather
<1>6. verdict' = verdict => Chosen' = Chosen
  BY <1>4, <1>5 DEF Chosen
<1>7. OneRequestPerVariable' = OneRequestPerVariable
  BY <1>1, <1>2 DEF OneRequestPerVariable
<1>8. CounterpartsExist' = CounterpartsExist
  BY <1>1 DEF CounterpartsExist
<1> QED
  BY <1>2, <1>6, <1>7, <1>8 DEF Replaceable

LEMMA InitReplaceInv ==
  ASSUME Init, OneRequestPerVariable, CounterpartsExist PROVE ReplaceInv
  BY DEF Init, ReplaceInv

LEMMA NextReplaceInv == ReplaceInv /\ [Next]_vars => ReplaceInv'
<1> SUFFICES ASSUME ReplaceInv, [Next]_vars PROVE ReplaceInv'
  OBVIOUS
<1>1. program' = program /\ build' = build
  BY DEF Next, vars, walk, Begin, WalkEnding, WalkCompare, WalkCall, WalkOther, GoOn, Finish, Abort,
         AnalysisDone, Replace, Stopped
<1>2. CASE Replace
  <2>1. replaced' = {q \in Chosen : Replaceable(q)} /\ pc' \in {"aborted", "done"}
        /\ (build = "Debug" /\ pc' = "done" => replaced' = Chosen) /\ verdict' = verdict
    BY <1>2 DEF Replace, Chosen
  <2> QED
    BY <1>1, <2>1, ChosenUnchanged DEF ReplaceInv
<1>3. CASE UNCHANGED vars
  BY <1>1, <1>3, ChosenUnchanged DEF ReplaceInv, vars, walk
<1>4. CASE \/ \E i \in todo : Begin(i)
           \/ WalkEnding \/ WalkCompare \/ WalkCall \/ WalkOther \/ AnalysisDone
  <2>1. pc = "analyse" /\ replaced' = replaced /\ pc' \in {"analyse", "replace", "aborted"}
    BY <1>4 DEF Begin, WalkEnding, WalkCompare, WalkCall, WalkOther, Walking, GoOn, Finish, Abort,
       AnalysisDone, walk
  <2> QED
    BY <1>1, <2>1, ChosenUnchanged DEF ReplaceInv
<1> QED
  BY <1>2, <1>3, <1>4 DEF Next, Stopped

(***************************************************************************)
(* No request is shared between the two libraries, if each one has a       *)
(* variable of its own and is used with calls only that the library offers *)
(* (a debug build stops at others).                                        *)
(***************************************************************************)
THEOREM RequestsKeepLibraryHolds ==
  Spec /\ OneRequestPerVariable /\ CounterpartsExist => []RequestsKeepLibrary
<1>1. TypeInv /\ ReplaceInv => RequestsKeepLibrary
  <2> SUFFICES ASSUME TypeInv, ReplaceInv, pc = "done", NEW i \in Inits(InitKinds)
               PROVE  /\ i \in replaced => verdict[i] = "none"
                      /\ \A q \in InScope(i, {After(i)}) :
                           Instr(q).kind \in UseKinds /\ Instr(q).req = Instr(i).req
                             => (q \in replaced <=> i \in replaced)
    BY DEF RequestsKeepLibrary, TypeInv, TypeOK
  <2>1. replaced = {q \in Chosen : Replaceable(q)} /\ (build = "Debug" => replaced = Chosen)
    BY DEF ReplaceInv
  <2>2. \A j : j \in Accepted("sendInit") \union Accepted("recvInit")
          => j \in Inits(InitKinds) /\ verdict[j] = "none"
    BY DEF Accepted, Inits, InitKinds
  <2>3. i \in Chosen => verdict[i] = "none"
    <3> SUFFICES ASSUME i \in Gather PROVE verdict[i] = "none"
      BY DEF Chosen
    <3>1. PICK j \in Accepted("sendInit") \union Accepted("recvInit") : i \in Usage(j)
      BY DEF Gather
    <3>2. Instr(i).req = Instr(j).req
      BY <3>1 DEF Usage
    <3> QED
      BY <2>2, <3>2 DEF ReplaceInv, OneRequestPerVariable
  <2>4. ASSUME NEW q \in Positions(program), Instr(q).kind \in UseKinds, Instr(q).req = Instr(i).req
        PROVE  q \in replaced <=> i \in replaced
    <3>1. \A j : q \in Usage(j) <=> i \in Usage(j)
      BY <2>4 DEF Usage, Inits, Instr
    <3>2. q \in Chosen <=> i \in Chosen
      BY <3>1 DEF Chosen, Gather
    <3>3. Replaceable(i)
      BY DEF Replaceable, Inits, Instr
    <3>4. build = "Debug" \/ Replaceable(q)
      BY <2>4 DEF ReplaceInv, CounterpartsExist, Replaceable, Inits, Instr, UseKinds
    <3> QED
      BY <2>1, <3>2, <3>3, <3>4
  <2>5. InScope(i, {After(i)}) \subseteq Positions(program)
    BY ScopeOfInit DEF Scope, TypeInv, TypeOK
  <2> QED
    BY <2>1, <2>3, <2>4, <2>5
<1>2. Init /\ OneRequestPerVariable /\ CounterpartsExist => TypeInv /\ ReplaceInv
  BY InitTypeInv, InitReplaceInv
<1> QED
  BY <1>1, <1>2, NextTypeInv, NextReplaceInv, PTL DEF Spec
=============================================================================
