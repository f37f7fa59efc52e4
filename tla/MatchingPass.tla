---------------------------- MODULE MatchingPass ----------------------------
(***************************************************************************)
(* The compiler pass.  For each call that creates a persistent request it  *)
(* walks the control flow from there to the end of the request's scope,    *)
(* looking for calls that may use the messages of the request; where it    *)
(* finds none, it replaces the calls on the request by those of the        *)
(* optimised library.                                                      *)
(*                                                                         *)
(* The walk takes its work from a std::set of pointers: in an order that   *)
(* depends on where the compiler's objects happen to lie.                  *)
(***************************************************************************)
EXTENDS ControlFlow

CONSTANTS
  Programs,  \* the programs the pass is run on
  Builds     \* how the pass is built: "Debug" with assertions, "Release" without

ASSUME PassAssumption ==
  /\ \A p \in Programs : WellFormed(p)
  /\ Builds \subseteq {"Debug", "Release"}

None == <<>>

VARIABLES
  program,   \* the program, fixed
  build,     \* the build, fixed
  todo,      \* positions of the init calls still to be analysed
  current,   \* the init call being analysed, or None
  next,      \* next_inst
  toCheck,   \* to_check: positions
  checked,   \* already_checked: blocks
  verdict,   \* verdict[i]: result of the walk of the init call at i
  replaced,  \* positions of the calls that were replaced
  added,     \* positions at which MPIOPT_INIT or MPIOPT_FINALIZE was inserted
  pc         \* "analyse", "replace", "done", or "aborted" by an assertion

walk == <<next, toCheck, checked>>

vars == <<program, build, todo, current, walk, verdict, replaced, added, pc>>

Inits(kinds) == {q \in Positions(program) : At(program, q).kind \in kinds}

Instr(q) == At(program, q)

TypeOK ==
  /\ program \in Programs
  /\ build \in Builds
  /\ todo \subseteq Inits(InitKinds)
  /\ current \in Inits(InitKinds) \union {None}
  /\ next \in Positions(program) \union {None}
  /\ toCheck \subseteq Positions(program)
  /\ checked \subseteq DOMAIN program.body
  /\ verdict \in [Inits(InitKinds) -> {"open", "none", "conflict"}]
  /\ replaced \subseteq Positions(program)
  /\ added \subseteq Positions(program)
  /\ current = None => next = None /\ toCheck = {} /\ checked = {}
  /\ pc \in {"analyse", "replace", "done", "aborted"}

Init ==
  /\ program \in Programs
  /\ build \in Builds
  /\ todo = Inits(InitKinds)
  /\ current = None /\ next = None
  /\ toCheck = {} /\ checked = {}
  /\ verdict = [q \in Inits(InitKinds) |-> "open"]
  /\ replaced = {} /\ added = {}
  /\ pc = "analyse"

-----------------------------------------------------------------------------
(* What the code finds out about instructions. *)

\* FunctionMetadata: of the other functions than those of a library, one that is
\* not defined in the module is unknown, one that contains a send or a receive
\* may conflict.
MayConflict(f) ==
  /\ f \notin program.library
  /\ \/ f \notin DOMAIN program.entry
     \/ \E b \in Blocks(program, f) : \E k \in DOMAIN program.body[b] :
          program.body[b][k].kind \in SendKinds \union RecvKinds

\* Broken variant of ScopeEndings: the frees of the request are not looked for.
ScopeEndingsFinalize(i) == Inits({"finalize"})

\* get_corresponding_free: the frees of the same variable, if it is a local
\* one, and every finalize.
ScopeEndings(i) ==
  Inits({"finalize"})
    \union {q \in Inits({"free"}) :
              Instr(q).req = Instr(i).req /\ Instr(i).req \in program.locals}

\* get_guarding_compare: the condition that leads to the block of i, if its
\* only predecessor branches on one, and the block that condition leads to.
Guard(i) ==
  {Instr(e[1]).cond : e \in {e \in Predecessors(program, i[1]) :
     /\ Predecessors(program, i[1]) = {e}
     /\ Conditional(Instr(e[1]))}}

\* With the same condition the walk goes the same way: to the label of its
\* block in the guarding branch.
WayIndex(i) == CHOOSE k \in {1, 2} : \E q \in Positions(program) :
                 <<q, k>> \in Predecessors(program, i[1])

\* is_send_function / is_recv_function on the calls of interest to i.
SameDirection(i, q) ==
  Instr(q).kind \in IF Instr(i).kind = "sendInit" THEN SendKinds ELSE RecvKinds

\* can_prove_val_different: different constants; of other values nothing is known.
ProvenDifferent(a, b) == "?" \notin {a, b} /\ a # b

\* The calls whose operands get_communicator, get_src and get_tag do not know: of
\* these they return the first one, the buffer.
Unsupported == InitKinds \union {"issend"}

\* are_calls_conflicting without assertions, i being unsupported: the buffers are
\* compared three times.  The communicator of a call that is supported has
\* another type than the buffer of i, which counts as different.
Conflicting(i, q) ==
  Instr(q).kind \in Unsupported /\ ~ProvenDifferent(Instr(i).buf, Instr(q).buf)

-----------------------------------------------------------------------------

\* Broken variant of Begin: the block of the init call counts as checked.
BeginChecked(i) ==
  /\ pc = "analyse" /\ current = None
  /\ i \in todo
  /\ Instr(i).kind = "recvInit" => todo \intersect Inits({"sendInit"}) = {}
  /\ todo' = todo \ {i}
  /\ current' = i
  /\ next' = After(i) /\ toCheck' = {} /\ checked' = {i[1]}
  /\ pc' = IF build = "Debug" /\ ScopeEndings(i) = {} THEN "aborted" ELSE pc
  /\ UNCHANGED <<program, build, verdict, replaced, added>>

\* check_mpi_send_conflicts on every MPI_Send_init, then
\* check_mpi_recv_conflicts on every MPI_Recv_init.
Begin(i) ==
  /\ pc = "analyse" /\ current = None
  /\ i \in todo
  /\ Instr(i).kind = "recvInit" => todo \intersect Inits({"sendInit"}) = {}
  /\ todo' = todo \ {i}
  /\ current' = i
  /\ next' = After(i) /\ toCheck' = {} /\ checked' = {}
  /\ pc' = IF build = "Debug" /\ ScopeEndings(i) = {} THEN "aborted" ELSE pc
  /\ UNCHANGED <<program, build, verdict, replaced, added>>

Walking == pc = "analyse" /\ current # None

\* Broken variant of Finish: the sets of the walk are kept.
FinishKept(result) ==
  /\ verdict' = [verdict EXCEPT ![current] = result]
  /\ current' = None
  /\ next' = None
  /\ UNCHANGED <<program, build, todo, toCheck, checked, replaced, added, pc>>

\* check_call_for_conflict returns.
Finish(result) ==
  /\ verdict' = [verdict EXCEPT ![current] = result]
  /\ current' = None
  /\ next' = None /\ toCheck' = {} /\ checked' = {}
  /\ UNCHANGED <<program, build, todo, replaced, added, pc>>

\* An assertion fails.
Abort ==
  /\ pc' = "aborted"
  /\ UNCHANGED <<program, build, todo, current, walk, verdict, replaced, added>>

\* Broken variant of Unchecked: blocks are followed again and again.
UncheckedAll(bs) == bs

\* Blocks the walk has not taken from to_check yet.
Unchecked(bs) == bs \ checked

\* Broken variant of Follow: only the first successor.
FollowFirst(q) ==
  IF Instr(q).kind = "ret" THEN ReturnSites(program, q)
  ELSE IF Successors(Instr(q)) = {} THEN {}
  ELSE {<<b, 1>> : b \in Unchecked({Instr(q).to[1]})}

\* What follows a terminator: the guarded successor, all successors, or every
\* place the function is called from.
Follow(q) ==
  IF Instr(q).kind = "ret" THEN ReturnSites(program, q)
  ELSE IF Conditional(Instr(q)) /\ Instr(q).cond \in Guard(current)
         THEN {<<b, 1>> : b \in Unchecked({Instr(q).to[WayIndex(current)]})}
         ELSE {<<b, 1>> : b \in Unchecked(Successors(Instr(q)))}

\* The walk goes on: to the next instruction of the block, or, at its end or
\* before an unreachable, to any one it still has to check.
GoOn ==
  LET inBlock == Instr(next).kind \notin Terminators
      work == IF inBlock THEN toCheck ELSE toCheck \union Follow(next)
  IN
  \/ /\ inBlock /\ Instr(After(next)).kind # "unreachable"
     /\ next' = After(next)
     /\ UNCHANGED <<program, build, todo, current, toCheck, checked, verdict, replaced, added, pc>>
  \/ /\ inBlock => Instr(After(next)).kind = "unreachable"
     /\ \E q \in work : /\ next' = q
                        /\ toCheck' = work \ {q}
                        /\ checked' = checked \union {q[1]}
     /\ UNCHANGED <<program, build, todo, current, verdict, replaced, added, pc>>
  \/ /\ inBlock => Instr(After(next)).kind = "unreachable"
     /\ work = {}
     /\ IF build = "Debug" THEN Abort ELSE Finish("conflict")

\* A scope ending, or MPI_Finalize: no conflict beyond this.
WalkEnding ==
  /\ Walking
  /\ next \in ScopeEndings(current)
  /\ Finish("none")

\* A send met by the walk of a send, a receive met by that of a receive.
WalkCompare ==
  /\ Walking
  /\ SameDirection(current, next)
  /\ IF build = "Debug" THEN Abort
     ELSE IF Conflicting(current, next) THEN Finish("conflict") ELSE GoOn

\* A call of a function that is no MPI function.
WalkCall ==
  /\ Walking
  /\ Instr(next).kind = "call"
  /\ IF MayConflict(Instr(next).callee) THEN Finish("conflict") ELSE GoOn

\* Any other instruction.
WalkOther ==
  /\ Walking
  /\ next \notin ScopeEndings(current)
  /\ ~SameDirection(current, next)
  /\ Instr(next).kind # "call"
  /\ GoOn

AnalysisDone ==
  /\ pc = "analyse" /\ current = None /\ todo = {}
  /\ pc' = "replace"
  /\ UNCHANGED <<program, build, todo, current, walk, verdict, replaced, added>>

-----------------------------------------------------------------------------

Accepted(kind) == {q \in Inits({kind}) : verdict[q] = "none"}

\* get_usage_of_request.
Usage(i) == {q \in Inits(UseKinds \union InitKinds) : Instr(q).req = Instr(i).req}

\* The calls that have a counterpart in the optimised library.
Replaceable(q) == Instr(q).kind \in {"wait", "start", "free"} \union InitKinds

\* Broken variant of Gather: the calls on the requests of receives are left out.
GatherSends ==
  Accepted("sendInit") \union Accepted("recvInit")
    \union UNION {Usage(i) : i \in Accepted("sendInit")}

\* Everything to replace, gathered before anything is replaced.
Gather == UNION {Usage(i) : i \in Accepted("sendInit") \union Accepted("recvInit")}

\* replace_communication_calls, when both a send and a receive were accepted,
\* then add_init and add_finalize, in any case.
Replace ==
  LET calls == IF Accepted("sendInit") = {} \/ Accepted("recvInit") = {} THEN {} ELSE Gather
  IN
  /\ pc = "replace"
  /\ replaced' = {q \in calls : Replaceable(q)}
  /\ IF build = "Debug" /\ replaced' # calls
       THEN pc' = "aborted" /\ UNCHANGED added
       ELSE pc' = "done" /\ added' = Inits({"mpiInit", "finalize"})
  /\ UNCHANGED <<program, build, todo, current, walk, verdict>>

Stopped == pc \in {"done", "aborted"} /\ UNCHANGED vars

Next ==
  \/ \E i \in todo : Begin(i)
  \/ WalkEnding \/ WalkCompare \/ WalkCall \/ WalkOther
  \/ AnalysisDone \/ Replace
  \/ Stopped

Spec == Init /\ [][Next]_vars

\* The compiler runs.
Fairness == WF_vars((\E i \in todo : Begin(i)) \/ WalkEnding \/ WalkCompare
                    \/ WalkCall \/ WalkOther \/ AnalysisDone \/ Replace)

FairSpec == Spec /\ Fairness

-----------------------------------------------------------------------------
(* Properties. *)

\* What the program can execute, from the positions in from, while the request
\* created at i exists; "if call is within an if, we only folow the path where
\* condition is the same as in our path".
InScope(i, from) ==
  LET guards == {<<c, WayIndex(i)>> : c \in Guard(i)} IN
  IF guards = {} THEN Reachable(program, i, from, "none", 1)
  ELSE UNION {Reachable(program, i, from, g[1], g[2]) : g \in guards}

\* The calls on which a walk for i stops with a conflict or an assertion.
Alarming(i, q) ==
  \/ Instr(q).kind = "call" /\ MayConflict(Instr(q).callee)
  \/ SameDirection(i, q) /\ (build = "Debug" \/ Conflicting(i, q))

\* However the work is ordered and whatever blocks were checked before, the
\* walk still has before it every alarming call in the scope of the request:
\* revisiting only unchecked blocks, the starting block's head, the return
\* sites and the guarded branches lose none.
NothingSkipped ==
  Walking =>
    LET ahead == InScope(current, {next} \union toCheck) IN
    \A q \in InScope(current, {After(current)}) : Alarming(current, q) => q \in ahead

\* A walk reports a conflict only for a call that can be executed while the
\* request exists and that communicates, or creates a request of the same
\* direction; or when the request is never freed and MPI never finalised.
ReportsReachable ==
  \A i \in DOMAIN verdict : verdict[i] = "conflict" =>
    LET scope == InScope(i, {After(i)}) IN
    \/ \E q \in scope :
         \/ Instr(q).kind = "call" /\ Communicates(program, Instr(q).callee)
         \/ SameDirection(i, q)
    \/ \A q \in scope : ~EndsScope(program, i, q)

\* Between the two libraries: every start, wait and free that can meet the
\* request of an init call goes to the library that created the request, and
\* an init call is replaced only if its walk met no conflict.
RequestsKeepLibrary ==
  pc = "done" =>
    \A i \in DOMAIN verdict :
      /\ i \in replaced => verdict[i] = "none"
      /\ \A q \in InScope(i, {After(i)}) :
           Instr(q).kind \in UseKinds /\ Instr(q).req = Instr(i).req
             => (q \in replaced <=> i \in replaced)

\* Every walk ends, through loops, returns and unreachable code, and so does
\* the pass.
WalksEnd == <>(pc \in {"done", "aborted"})

\* What the comment above the walk says it does, "follow all possible* code
\* paths until" the request is freed, "a conflicting call is detected" or the
\* program ends: if it finds no conflict, then no call in the scope of the
\* request may use its messages.
PathsFollowed ==
  \A i \in DOMAIN verdict : verdict[i] = "none" =>
    \A q \in InScope(i, {After(i)}) : ~MayMatch(program, i, q)
=============================================================================
