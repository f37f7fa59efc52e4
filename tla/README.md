# A TLA+ model of MPI-CompMatch

MPI-CompMatch speeds up persistent point-to-point communication.  A compiler
pass looks for `MPI_Send_init` / `MPI_Recv_init` calls whose messages no other
call can match, and replaces them by calls of a library (`MPIX_...`, `MPIOPT_...`)
that moves the data by UCX, past the message matching of MPI.  The library exists
in two forms, an RDMA rendezvous and UCX active messages.

This directory models the two transports, the processes that use them and the
compiler pass, checks them with TLC, and proves with TLAPS the transfers and the
handshakes of both transports for every number of operations, the processes that nest
their calls for every application that uses its requests properly, and the walk and the
replacement of the pass for every set of programs.

Paths are relative to the repository.  `rdv.c` stands for
`openmpi-patch/one-sided-persistent_two_sided_rendezvous.c`, `am.c` for
`openmpi-patch/one-sided-persistent.c`, `pass/` for
`mpi_compiler_assistance_matching_pass/`.

## 1. Inventory

### 1.1 RDMA transfer (`rdv.c` 221-454, 677-984)

*State*, per request: `operation_number`; `flag`, an int that the peer writes by
RDMA; `flag_buffer`, the source of the puts to the peer's flag; the two handles
`ucx_request_flag_transfer` and `ucx_request_data_transfer`; the data buffer.
The network holds the posted RDMA operations.

*Operations*: `MPIOPT_Start_internal` (`b_send`, `b_recv`), `MPIOPT_Wait_*`
(`e_send`, `e_recv`), `progress_recv_request`, `MPIOPT_Request_free_internal`.

*Interaction*: the two sides only meet in memory.  In operation n the value 2n+1
in a flag says that the peer has started it, 2n+2 that it was carried out.  Who
starts second moves the data; if both start at once ("crosstalk") the receiver
does.

*Hard*: the order of puts and fences; `flag++` on memory the peer writes; the
reuse of `flag_buffer`, of the handles and of the buffers; a receive that is
progressed by the wait for another one, or from within its own wait.

*Correct when*: a wait of the receiver returns with its own message, the buffers
are not touched while no operation is active, one side moves the data, nothing
is outstanding when a request is freed, and matched operations complete.

### 1.2 RDMA handshake (`rdv.c` 456-860, 926-951)

*State*, per request: `type` (searching, RDMA, fallback), `remote_data_addr` (set
or not), `rdma_exchange_request_send`, `backup_request`; MPI's unmatched messages.

*Operations*: creation (`send_rdma_info`), the first start and the first wait,
`progress_request_waiting_for_rdma`, `receive_rdma_info`, and start and wait after
the fallback.

*Interaction*: the addresses travel on two communicators of the library, the
payload of the first operation on `MPI_COMM_WORLD`, sent synchronously.

*Hard*: two probes are not one atomic look; a start blocks in its handshake; a
request that blocks there progresses the others and is progressed by them; the
decision for the fallback is taken by each side alone.

*Correct when*: the sides agree on the protocol, a side that uses RDMA and its
peer have each other's addresses, two persistent requests connect when they know
of each other in time, and every started operation completes with its payload.

### 1.3 Process-wide progress engine (`rdv.c` 150-256, 926-1122)

*State*, per process: `request_list_head`, the live requests, the newest first;
`to_free_list_head`, the freed ones; the calls the process is in.  Shared: the handshake
messages on the two communicators, and MPI's unexpected messages.

*Operations*: `MPIX_Send_init` and `MPIX_Recv_init`, `MPIX_Start`, `MPIX_Wait`,
`MPIX_Request_free`, `MPIX_Finalize`, and `progress_other_requests`, a pass over the list
that every blocking loop makes.

*Interaction*: a pass progresses every other request of the process.  One that finds the
addresses of its peer blocks in `receive_rdma_info` until its own have been taken, and
makes passes itself: calls on several requests nest, in several processes at once.

*Hard*: who blocks on whom across nested calls; a request is changed by a call on another
one; handshake messages are matched by direction, peer and tag alone, and outlive a
request that is freed.

*Correct when*: a handshake pairs the two sides of one channel; every call returns when
MPI says it does, a start without the peer, a wait once the peer has started; a receive
gets its own message; finalize finds no handshake that could still be taken.

### 1.4 Active-message transfer (`am.c` 226-450, 583-640)

*State*: `is_ready_to_recv`, `list_of_pending_msgs`, `ucx_request_data_transfer`,
the buffers; the network holds the messages or, with `USE_RENDEZVOUS`, descriptors.

*Operations*: `b_send`, `e_send`, `b_recv`, `e_recv`, `progress_recv_request`, and
`incoming_am_msg_handler`, a callback that UCX runs within any
`ucp_worker_progress` of the receiver.

*Hard*: the callback between a test of `is_ready_to_recv` and the use of it; a
sender that runs ahead; the two modes complete at different events.

*Correct when*: messages are used in order, each once, and by the wait of the
operation with the same number.

### 1.5 Active-message handshake (`am.c` 452-582, 642-760)

*State*, per request: `type`, `rdma_exchange_request` (the handler id, one way from
receiver to sender), `backup_request`.  Each side tests its half of the exchange
once, after the wait of the first operation.

*Hard*: the exchange and the first payload travel on different communicators, so that
nothing orders a half of the one and the other.

*Correct when*: both halves are found complete, or neither; no side uses a handler that
is not registered; and an operation that both sides start completes with its payload.

### 1.6 Compiler pass (`pass/`)

*Conflict walk* (`conflict_detection.cpp` 71-256): follows the control flow from an
init call to the free of its request and looks for calls that may use the same
messages.  State: the next instruction, the sets `to_check` (instructions) and
`already_checked` (blocks).  Its work is ordered by the addresses of LLVM's objects.
*Call conflict* (390-567, 814-920): when two calls can be told apart.  *Function
metadata* (`function_coverage.cpp`): which functions may communicate.  *Replacement*
(`replacement.cpp`) and the *driver*: which calls go to the optimised library.  The
pass and the transports meet only in the program it writes: the pass decides which
requests the library sees, and that every call on such a request is one of its own.

*Correct when*: it reports no conflict only if no path has one, reports no conflict
that is none, ends, and never lets the two libraries share a request.

### 1.7 Clients (`example.c`, `openmpi-patch/example.c`, `IMB-ASYNC/src_cpp/ASYNC/async.cpp` 430-500)

The programs that come with the library: two processes exchange messages in both
directions; one sends to the other; the persistent benchmark, which creates its requests
anew for each length.  They matter as uses of 1.3: whether their calls return.

### 1.8 Not modelled at all

`analysis_results.cpp` and `implementation_specific.cpp` wrap LLVM's analyses and
the constants of an MPI library.  The other benchmarks of `IMB-ASYNC`, a vendored suite,
use MPI alone; `visualization/` plots.  None of them has a protocol of its own.

## 2. Modules

| module | models | state |
|---|---|---|
| `PersistentChannel` | what a matched pair of persistent requests promises | abstract |
| `StandardChannel` | the same for a sender that need not wait for its message to be used | abstract |
| `RdvTransfer` | 1.1, a connected pair from operation 2 on | requests, flags, network |
| `RdvTransferProofs` | inductive invariant, theorems, refinement | - |
| `RdvHandshake` | 1.2, a pair from its creation to RDMA or for `MaxOp` operations of the fallback | requests, MPI messages |
| `MCRdvHandshake` | the deployments in which `RdvHandshake` is run | - |
| `RdvHandshakeProofs` | inductive invariant, theorems | - |
| `MpiCalls` | an application: the calls each process makes, on which requests | position of each process |
| `MpiProgram` | what MPI promises an application of persistent operations | abstract |
| `RdvProcess` | 1.3, several processes with several requests each | requests, lists, stacks of calls, messages |
| `Clients` | 1.7, the repository's programs as applications | - |
| `MCRdvProcess` | the applications `RdvProcess` is run on | - |
| `RdvProcessProofs` | types and handshakes: invariants, theorems; the invariant of a channel, what each operation does to it | - |
| `RdvProcessMpiProofs` | the actions, theorems, refinement of `MpiProgram` | - |
| `RdvProcessCallsProofs` | kinds of steps; the assertions of the calls, the end of the handshakes: invariants, theorems | - |
| `ActiveMessage` | 1.4, a connected pair | requests, handler, network |
| `MCActiveMessage` | the builds in which `ActiveMessage` is run | - |
| `ActiveMessageProofs` | inductive invariant, theorems, refinement | - |
| `ActiveMessageHandshake` | 1.5, a pair up to the decision and through the fallback | requests, MPI messages |
| `MCActiveMessageHandshake` | the deployments in which `ActiveMessageHandshake` is run | - |
| `ActiveMessageHandshakeProofs` | inductive invariants, theorems | - |
| `ControlFlow` | programs as the pass sees them, and what they can execute, as a reference | none |
| `MatchingPass` | 1.6, the walk, the metadata, the replacement and the driver | the walk's sets, verdicts, replaced calls |
| `MCMatchingPass` | the programs `MatchingPass` is run on | - |
| `MatchingPassProofs` | what the reference computes; invariants of the walk and of the replacement, theorems | - |

The handshake modules end where the transfer modules begin: a side of type `"rdma"`
(`"am"`) makes no further step there, and `RdvTransfer` starts with operation 1
complete on both sides.  That is the state `AddressesExchanged`, `ConnectsIfPossible`
and `PayloadReceived` of `RdvHandshake` describe.

`RdvProcess` composes the two on the level of a process: handshake, transfer and fallback
of all requests are in it, with coarser steps.  A message is there when it is sent, and
data moves at once; what the delay of a message or the order of RDMA operations can do is
the matter of `RdvHandshake` and `RdvTransfer`.  Their `others` and `OtherRequests` stand
for whatever the rest of the process may do; `RdvProcess` shows what it does do.

A definition whose comment begins with "Broken variant" belongs to no
specification.  Put in the place of the definition it names, it makes a property
fail, and so shows what that property rests on.

### 2.1 How the models correspond to the code

**Data.** A message is its number.  A buffer holds the number of the message whose
bytes it has; moving the data copies that number at the moment the network does it,
so that a buffer which is overwritten too early shows.  Addresses, keys and handler
ids are present or absent.

**RdvTransfer.** `op`, `flag`, `flagBuf` are the fields of the request.  `flagReq[s]` and
`dataReq[s]` hold the operations that were posted when the flush behind the handle
was, {} stands for NULL; a flush is complete when none of them is outstanding.
`posted[s]` is what UCX has accepted, `epoch[s]` counts `ucp_worker_fence`; an
operation can be executed when nothing of an earlier epoch is left.  `pc[s]` cuts
the calls where the peer's or the network's steps matter:

| pc | in the code |
|---|---|
| `announce`, `transfer` | `b_send`/`b_recv` after the test of `flag`, in the else and the then branch; the body of `progress_recv_request` |
| `started` | `MPIX_Start` has returned; the first flush loop of the wait |
| `dataWait` | the second flush loop |
| `spin` | the loop on `flag` |
| `drain` | the flush loop of the crosstalk branch of `e_recv` |

The test of the flag and its increment are different steps, since the comment
"no possibility of data race" in the source is a claim, here `NoFlagRace`.

**RdvHandshake.** `probe` is `progress_request_waiting_for_rdma`, called from several
places; `return[s]` is where it goes back to.  `block` is the loop of
`receive_rdma_info`.  The receiver's probes for the payload (`fallback?`, `search`) are
separate steps from its probe for the addresses, as in the code.  `PostRecv` is
`MPI_Irecv` with MPI's matching; `Arrive` is the delivery of a message.  A synchronous
send completes when the acknowledgement, a message of the model, has come back.
Nested progress by another request of the process is `ProgressFromOthers`,
`ProgressFallback` and `ProgressWhileBlocked`.

A `Deployment` says how the application uses the pair, and whether the messages of different
communicators keep their order (`ordered`), which MPI does not promise.  Of the four that
work only `RecvFirst` needs it, as `RdvHandshakeOvertaking.cfg` shows.  In `"recvFirst"` the
receiver has looked for the payload before the sender starts.  That is an assumption about
timing, not about calls: a start that connects blocks until the peer takes its addresses
(`rdv.c` 609), so that a start is not a local operation and no program order can guarantee
it.

**RdvProcess.** `list[p]` is `request_list_head`, `freed` the to-free list, `info[q]` what
`MPI_Issend` of the addresses has left with MPI under communicator, sender, receiver and
tag.  `stack[p]` holds the calls p is in, innermost first; a frame is a request, the place
in the call (`at`) and the requests that are left of a pass over the list (`rest`).
`ProgressNext` takes the next of these; `SearchPeer` pushes a frame at `"block"`, from which
`BlockRound` makes a pass of its own.  `remote` is the request whose addresses are held;
`puts` are the writes to its flag that are not carried out yet.  `next[p]` counts the calls
of the application: a step returns to it with `Return`.

An application is a sequence of calls per process.  `MpiProgram` reads the same sequences
and says when each call may and when it must return; `ImplementsMpi` is the refinement, with
`next` as the only variable of both.  A side that is not persistent calls MPI itself
(`type` `"plain"`), as the peer of a request that falls back does.

**ActiveMessage.** `ready` and `pending` are `is_ready_to_recv` and
`list_of_pending_msgs`.  `Incoming` is the handler; since any progress call may run
it, it may happen in any state.  `b_recv` and `e_recv` are cut where they progress
UCX.  In eager mode the data leaves the send buffer when UCX takes the message
(`TakeEager`, or in `StartSend`), in rendezvous mode when the receiver fetches it.
`build` is how the transport is built (`mode`) and used: `waitEarly`, the application may
wait before the message is there; `others`, the receiver's process waits for other requests
and thereby progresses this one.

**ActiveMessageHandshake.** The test of the exchange is a step after the wait for the
message, as in the code.  A `Deployment` says what else is known of the pair: with
`idFirst` the sender starts when it has the handler id; with `ordered` no message of a
process overtakes an earlier one, on whatever communicator, and acknowledgements keep that
order, too.  MPI promises neither.  Without `ordered`, `Deliverable` keeps the order of the
messages of one kind only: the id and its acknowledgement belong to
`handshake_communicator` (`am.c` 467-474), the payloads to the communicator of the request
(483-490), and when an `MPI_Issend` shows as complete in `MPI_Test` (572) is open.  Whether a
side is persistent is chosen in `Init`.

**ControlFlow, MatchingPass.** A program is a sequence of basic blocks; an instruction is
a record with what the pass looks at: the MPI function, the request variable, the
buffer, the callee, the successors and the condition of a branch.  `msg` stands for the
message a call uses (communicator, peer and tag), "?" when it is not known; only the
reference looks at it, since the pass does not (see `Conflicting`).  A program names the
functions that are known not to communicate (`library`).  Each turn of the
loop in `check_call_for_conflict` is one action, cut by what kind of instruction it is
at, and ends in `GoOn` or `Finish`; an element of `to_check` is chosen freely.  The debug
build stops where an assertion fails (`Abort`), the release build, which `build.sh`
makes, goes on with what the code then does: `get_communicator`, `get_src` and
`get_tag` do not know the persistent calls and return the first operand, the buffer.  They
do not know `MPI_Issend`, `MPI_Ibsend` and `MPI_Irsend` either (`"issend"`), so that the
walk compares the buffers of an init call with those of another or of one of these
(`Unsupported`).  The type of a buffer is not that of a communicator: every other send or
receive is taken for a different one.  `Reachable` is the reference: it follows the program
itself, not the pass, with returns to every call site, as a pass without a call stack
must assume.  `WellFormed` is what LLVM's verifier guarantees of a module (a block ends in
its only terminator, a branch leads to blocks); it is assumed of the programs.

## 3. Runs

| run | question | result |
|---|---|---|
| `rdv_transfer` | four operations of a connected pair, waits for other requests included | all hold |
| `rdv_nested` | a request connects while the receiver spins | `BufferContent` violated |
| `handshake` | four uses that work | all hold |
| `hs_late_start` | two persistent requests without any guarantee | `StartedOperationsComplete` violated |
| `rdv_process` | 54 applications of two and three processes with up to four requests in use | all hold |
| `rdv_clients` | the example and the benchmark, which use both directions | `ImplementsMpi` violated |
| `am_transfer` | four messages, in all eight builds and uses | all hold |
| `am_rendezvous_wait` | rendezvous, the application waits before the message is there | `BufferContent` violated |
| `am_handshake` | persistent and plain sides, id in time or not, messages in order or not | all hold |
| `am_handshake_race` | messages in order, the id may be late | `Agreement` violated |
| `matching_pass` | the pass in both builds on 3100 programs, in every order of work | all hold |
| `matching_pass_paths` | a request freed in one branch, a communicating call in the other | `PathsFollowed` violated |

### 3.1 The properties

*RdvTransfer*: `BufferContent` (the right message after the wait), `SendBufferReturned`
and `RecvBufferReturned` (no RDMA touches the buffer of an inactive side),
`NoFlagRace` (no put in flight to a flag that is incremented), `NoHandleLost` (the
assertions that handles are NULL), `OneMover`, `NothingOutstanding` (an inactive side
may be freed), `FlagsMonotone` (no late put undoes a signal), and the refinement of
`PersistentChannel`, `ImplementsChannel` without and `ImplementsFairChannel` with fairness;
the second says that an operation both sides start completes on both.

*RdvHandshake*: `Agreement`, `AddressesExchanged`, `ConnectsIfPossible`,
`PayloadReceived`, `FirstSendMatched` (the first wait of a sender means that the
receiver has started), `StartedOperationsComplete`.

*RdvProcess*: `PartnersPaired` (a handshake joins the two sides of one channel, of the same
generation), `AssertionsHold` (what the calls assert of the requests they are made on),
`HandshakesSettled` (finalize leaves no handshake that could still be taken),
`ReceivesItsMessage` (over RDMA, the first operation and the fallback), and `ImplementsMpi`:
whatever nests, every call returns when MPI promises that it does.

*ActiveMessage*, for all eight builds and uses: `SendBufferReturned` (nothing reads the
buffer of an inactive sender, and in the rendezvous mode its message has been used) and
`NoOvertaking` (the messages kept, in the network and under way are those sent after the one
in the buffer, each once and in order; the assertions of the handler).  `SafeBufferContent`
and `MatchedOperationsComplete` are about the uses that work (`SafeBuild`: the process waits
for this request only, in the rendezvous mode for what has arrived); `BufferContent` is what
the source asserts of every use.

*ActiveMessageHandshake*: `PayloadReceived`, `StartedOperationsComplete` and `HandlerKnown`
(a sender uses active messages only with the id of a registered handler, a receiver waits
for them only when its sender has the id) in every deployment; `TimelyAgreement`, that is
`Agreement`, where the id is in time and messages are in order.  Each of the two conditions
is needed: `am_handshake_race`, `ActiveMessageHandshakeOvertaken.cfg`.

*MatchingPass*: `NothingSkipped` (whatever the order, each alarming call in the scope is
still ahead of the walk), `ReportsReachable` (no conflict is invented, by a call after
the free or on the other side of the guard), `RequestsKeepLibrary` (replaced together or
not at all, and only what was accepted), `WalksEnd`; and `PathsFollowed`, what the
comment promises of the verdict.

`NothingSkipped` and `PathsFollowed` differ in the early return: the first says that the
walk loses nothing as long as it goes on, the second that it goes on for long enough.

### 3.2 Where the code and its comments part

`PROJECT.json` quotes the lines; each is a run above.

* `rdv_nested`: `e_recv` progresses other requests while it spins.  One that connects
  there progresses this receive in turn; `e_recv` then finds the flag past 2n+1 and
  returns before the fetch it did not start itself is complete.
* `hs_late_start`: the receiver probes for the addresses, then for the payload.  When
  both arrive in between, it posts its receive and completes the sender's
  synchronous send: the sender falls back, the receiver waits for it for ever.
* `rdv_clients`: a sender falls back when its synchronous send is done and the probe before
  that found no addresses, since then the receiver is no persistent request.  But the
  receiver may have been created after the probe, have found the sender's addresses, and be
  blocked in `MPIX_Start` until its own are taken; a pass over the list from within that
  call posts its receive and completes the send.  The sender falls back and never takes the
  addresses.  This takes a second request in the process of the receiver, as in `example.c`
  and in the benchmark, and no barrier after the creation of the requests.
* `am_rendezvous_wait`: the wait in rendezvous mode waits for a transfer that has been
  started, not for the message.
* `am_handshake_race`: each side tests its half of the exchange once; the halves complete at
  different times.
* `matching_pass_paths`: the walk returns at the first free it meets, with paths still
  in `to_check`.

Six more configurations, which are no runs of `PROJECT.json`, ask the same models for what
their runs leave out; TLC finds each property violated within seconds, by
`tlc -config <file> <module>`.

* `RdvTransferDeferred.cfg` (`RdvTransfer`, `BufferContent`): `progress_recv_request` writes
  `flag_buffer` while the announcement that is put from it may be unread, since UCX promises
  the read only before the flush (`rdv.c` 175).  The announcement then says that the data has
  been fetched: the sender's wait returns, and the fetch takes what the application writes
  next.  Where UCX copies the four bytes at the call, it cannot happen: `rdv_transfer`.
* `RdvHandshakeEarlyPayload.cfg` (`MCRdvHandshake`, `StartedOperationsComplete`): a first
  start that finds the payload of an `MPI_Send` posts its receive; its wait looks for a
  payload which is consumed (`rdv.c` 778).
* `RdvHandshakeOvertaking.cfg` (`MCRdvHandshake`, `StartedOperationsComplete`): the payload is
  seen before the addresses, which travel on another communicator; "ordering guarantees, that
  the probe for matching msg will return true before probe of the payload does" (`rdv.c`
  671).  The receiver falls back; the sender finds the receiver's addresses and blocks until
  its own are taken.
* `ActiveMessageNested.cfg` (`MCActiveMessage`, `BufferContent`): the handler runs between the
  test of `is_ready_to_recv` in `progress_recv_request` and `b_recv`, which sets it again
  (`am.c` 278).  The wait then takes the next message, too, into the same buffer.
* `ActiveMessageHandshakeOvertaken.cfg` (`MCActiveMessageHandshake`, `Agreement`): the sender
  has the id, and its payload overtakes the completion of the receiver's synchronous send of
  the id, which is on another communicator (`am.c` 467, 572).
* `MatchingPassRelease.cfg` (`MCMatchingPass`, `PathsFollowed`): the walk passes an `MPI_Send`
  of the messages of the request, whose communicator a release build compares with a buffer
  (`conflict_detection.cpp` 838).

The same models show more when their constants are changed:

* `RdvTransfer` with `DeferredRead` and `OtherRequests` also violates
  `SendBufferReturned`: `RdvTransferDeferred.cfg` stops at the effect.
* `MatchingPass` on a program that creates its request in a helper called from a loop:
  the block of the call is marked as checked when the walk returns into its middle
  (`conflict_detection.cpp` 243), `NothingSkipped`.
* the same when a rejected init call uses the variable of an accepted one: both are
  replaced (`replacement.cpp` 133), `RequestsKeepLibrary`.
* the same with a function that calls a function that sends
  (`function_coverage.cpp` 60), `PathsFollowed`.
* `RdvHandshake` with two persistent sides, `"recvFirst"` and `others |-> TRUE`: a
  receiver progressed while it blocks lets the sender's message complete before the
  sender has the addresses (`rdv.c` 610, 758), `Agreement`: `rdv_clients`, for one pair.
* `RdvHandshake` with `"none"` also describes `openmpi-patch/example.c`, whose processes do
  not meet before they communicate: `rdv_process` finds nothing in it, as messages are not
  delayed there; `hs_late_start` is what a delay does to it.
* `RdvProcess` with `FallbackFirst`: a request that has fallen back waits in `MPI_Wait`
  (`rdv.c` 828), which progresses none of the library's requests, though the list is there
  to "progress them in case we get stuck" (98).  A peer that waits for one of those first
  is never served, `ImplementsMpi`.
* `RdvProcess` with `CreatedLate`: a request that is created while another one is in use
  connects in the pass that `e_recv` of that one makes (`rdv.c` 424), and progresses it from
  its own loop (610).  `e_recv` then leaves its loop without waiting for the transfer it has
  not started itself, and the next start meets a handle that is not NULL (assertion at 376),
  `AssertionsHold`.  This is `rdv_nested`, reached by calls an application may make.
* `RdvProcess` with `LaterPersistent`: freeing a request that never connected leaves its
  addresses with MPI (the comment at `rdv.c` 968, "cancel any search for RDMA connection",
  has no code; TODO at 613-615).  The next persistent request of the channel takes them for
  its peer's, `PartnersPaired`.
* `ActiveMessage` in rendezvous mode, with `waitEarly` or `others`: the assertions of the
  handler and of `b_recv` that no transfer is under way fail, which is why the last conjuncts
  of `NoOvertaking` leave these builds out.

### 3.3 Bounds

`MaxOp` is the only bound of the transports, the programs that of the pass.  In
`RdvTransfer` a side is at most one operation ahead of the other and flags distinguish
operations by their number, so that three operations after the first contain every overlap
of two neighbouring operations, with one more for a signal that is left over.  In
`ActiveMessage` four messages let the sender run three ahead of the receiver.  In the
handshakes the first operation decides, and the second and third run over the fallback.
What the proofs of section 4 cover does not depend on these bounds.

`RdvProcess` has no bound of its own, its applications are finite.  `WorkingApplications`
holds 54 (86,201 distinct states): two processes with two channels, of the same or of
opposite directions, each used twice, with every order of the starts and waits of one
operation; three processes in a ring; a channel that falls back, as a send or as a
receive, beside one that connects; a pair that is freed and created again;
`openmpi-patch/example.c`.  Two uses are enough: the first is the handshake, the second
runs over what it decided, and the state in which it ends is that in which it began.  In
all but the last a barrier follows the creation of the requests; `rdv_clients` shows
why.  In `FallbackSends` the process waits for the request that has fallen back last, as
`FallbackFirst` shows why.  `HypothesesAssumption` of `MCRdvProcess` lets TLC evaluate the
hypotheses of the theorems of 4.5 on the applications of the run.

`SmallPrograms` holds every flow graph of three blocks with up to two successors each,
where the blocks after the init call hold nothing, a free or a call of an unknown
function: every loop, self-loop and join around one request.  `WrittenPrograms` adds
what three blocks cannot hold: two requests, guards, global requests, helpers, sends
and receives beside the request, code that does not end.  Left out are recursion, a
helper that creates a request in a loop, a variable shared with a rejected init call,
calls the library does not offer, and conditions that change their value; the hazards in
`PROJECT.json` say what happens there.

`am_transfer` and `am_handshake` switch off the deadlock check.  In the first nobody has to
start, and a receiver whose process waits for other requests really can wait for ever
(`ActiveMessageNested.cfg`); `MatchedOperationsComplete` says that otherwise what both sides
start does not stop.  In the second the model stops when both sides have decided, and
`StartedOperationsComplete` catches the stops that are too early.  So do runs that show a
property which fails, and stop where the program does.

### 3.4 Fairness

Weak fairness of every step inside a call: a thread that can go on does, and the
loops of the library progress UCX and MPI.  Weak fairness of the network: what is
posted is carried out, what is sent arrives.  The application waits for what it
started, but nobody has to start or to free anything.  Where waits for other
requests can progress a request any number of times, the application's own next
call is given strong fairness (`WaitSearchingSend`, `WaitSearchingRecv`,
`LeaveWaitSend` of `RdvHandshake`): between two such
visits the call is possible again, and no visit forbids it for good.

In `RdvProcess` each process has weak fairness of its next step, whatever it is, and the
network of the puts it has accepted.  A process that blocks goes round in its loop, so
this says no more than that it is scheduled; nothing is assumed about the order in which
the peers run.  `MpiProgram` has weak fairness of the calls that must return, which is what
`ImplementsMpi` derives from it.

The compiler runs: weak fairness of the pass as a whole.

## 4. Proofs

The theorems are about every value of the constants: every `MaxOp`, every application,
every set of programs.  What else is assumed is an explicit hypothesis of the theorem.
Each is listed in `PROJECT.json`.

### 4.1 RDMA transfer

`RdvTransferProofs` proves, for every `MaxOp`, all the safety properties of
`RdvTransfer` that `rdv_transfer` checks, and that `RdvTransfer` implements
`PersistentChannel`.  The assumption is

    SafeDeployment == ~NewRequests /\ ~(DeferredRead /\ OtherRequests)

that is, everything but the situations of `rdv_nested` and `RdvTransferDeferred.cfg`.

The properties are not inductive: that the data has arrived when a flag says so
rests on which puts are in flight, and that rests on where each side is in its
calls.  The invariant `IInv` adds, for each side s:

* `PcInv`: the position of s agrees with what s has told its peer about the current
  operation: nothing (`Silent`), that it started (`Announced`), that it was carried out
  (`Moved`); `flagBuf` records which.
* `FlushInv`: what is outstanding is covered by a flush that is still waited for.
* `PostedInv`: at most the announcement, the data and the completion of the current
  operation are outstanding, and epochs order them.
* `FlagInv`: what the peer's flag holds, by what s has told and what is in flight.
* `PairInv`: the sides are at most one operation apart; a side that is ahead has
  nothing outstanding behind it; a side in `transfer` has a peer that announced
  itself and has no put in flight.

`BufferInv` ties the receive buffer to the operation both sides are in.  There is
one lemma per action, `IInvSafe` derives the properties, and `Implementation` maps
each step: an executed data move is `Deliver`, a start and the end of a wait are
`ChanStart` and `ChanComplete`, everything else stutters.

### 4.2 RDMA handshake

`RdvHandshakeProofs` proves `TypeOK`, `AddressesExchanged` and `FirstSendMatched` for
*every* set of deployments, also for those in which an operation may hang: what goes wrong
in `hs_late_start` is that a side waits for ever, never that it uses addresses it does not
have.  The reasons are in two conjuncts of `IInv`.

* `ConnInv`: a side leaves `receive_rdma_info` only when its own addresses have been
  taken, and they are taken only by a peer that then has them.
* `MatchInv`: a sender is past its first message only when the receiver has started; this
  rests on `KindInv`, that a receiver which has not started has sent no acknowledgement of
  a payload.

`AgreementHolds` needs `AgreeingDeployments`: no other request progresses the pair, or both
sides know of each other before the first start.  `AloneInv` is the first case (a side that
falls back is not connected any more), `InitsFirstInv` the second (a side that has started
is connected, or is in the look that will connect it).  Without the hypothesis it is false,
see 3.2.

`PayloadReceivedHolds` is about every deployment again.  `OrderInv`: the payloads that wait
at the receiver and those under way are the numbers from the last one taken to the last one
sent, each once and in order, whatever overtakes them on the other communicators.
`RecvInv` ties the last one taken to the operation and the place of the receiver, so that
the next one taken is the one its wait returns with.

`ConnectsIfPossibleHolds` needs `KnownDeployments`: two persistent sides know of
each other before the first start.  The model takes the first message that matches, with
`CHOOSE`; that it exists is `LeastExists`, from the library's theorem that `<` is
well-founded on the naturals.

### 4.3 Active-message transfer

`ActiveMessageProofs` proves for every build, every use and every `MaxOp`: `TypeOK`,
`SendBufferReturned` and `NoOvertaking`.  The argument is about order.  `OrderInv`: the
message in the receive buffer, those that are kept and those in the network are
consecutive.  `CountInv`: with the one that is under way they reach up to the last one sent.
`SendInv`: in the rendezvous mode a sender that has returned from its wait has left no
message behind.  `ReadyInv`: a receive that is ready has none kept that the next one would
overtake.  Their conjunction `CoreInv` is inductive whatever the receiver does, since the
wait that returns too early (`am_rendezvous_wait`) and the flag that is set again
(`ActiveMessageNested.cfg`) are about *when* a message is used, not about which one is next.

When it is used depends on the use.  `SafeBufferContent` has its condition in it:

    SafeBuild(b) == ~b.others /\ (b.mode = "rendezvous" => ~b.waitEarly)

and the refinement of `StandardChannel` is proved when all builds satisfy it (`SafeBuilds`).
`~b.others` is about the program: no other request of the receiver's process.  The second
half is about timing: a rendezvous has begun before the receiver waits.  No program can make
sure of that, as the library offers no `MPI_Test` (`am.c` 656-660).  So for the rendezvous
mode the two results only say that `am_rendezvous_wait` is the one thing that is wrong in
it; for the eager mode (`USE_EAGER`, `am.c` 22, commented out in the source as it stands)
they are about every application with one request per process.  `RecvInv` relates the order
of the messages to the place of the receiver, so that the message its wait returns with is
the one of its operation.  `StandardChannel` is `PersistentChannel` with a sender whose
operation may complete at any time and whose message may be kept on the way.  The mapping
forgets where a message is: `Uses` says what the three steps that write the receive buffer
have in common (the handler, a start that finds a message kept, the end of a transfer), each
of them is `Deliver`, and everything between two of them stutters.  The refinement is proved
only: no run has it as a property.

### 4.4 Active-message handshake

`ActiveMessageHandshakeProofs` proves `TypeOK`, `HandlerKnown` and `PayloadReceived` for
every set of deployments, and `TimelyAgreement`, which has its conditions in it.

* `HandlerInv`: the exchange of a sender is complete only when a persistent receiver has
  been created, and that of a receiver only when the sender has its id.  `PlainInv` says
  that an ordinary side never completes the exchange of its peer.
* `OrderInv`: the payload in the buffer, those that wait at the receiver and those under way
  have consecutive numbers up to the sender's last operation, whatever overtakes them on the
  other communicator; so the next one matched is the one the receiver waits for.
* `ExchangeInv`, for `idFirst` and `ordered`: the acknowledgement of the id is ahead of the
  first payload on the way to the receiver, which therefore has it when it tests.

`Agreement` rests on both conditions: `am_handshake_race` drops the first,
`ActiveMessageHandshakeOvertaken.cfg` the second.  The second is a property of the transport
below MPI that the code takes for granted.

### 4.5 Processes

`RdvProcessProofs` proves `TypeOK` for every application, with any number of processes,
requests and calls.  The types say more here than that a field has its range: `TypeInv`
adds that the lists, the frames of the stack and the rest of every pass hold requests of
their own process only, and that the calls which write to the peer are made on requests
that hold a peer.  A pass nests in any call, so each step has to leave this true of every
frame below it; that it does rests on `DeploymentsAssumption`, by which a process only
makes calls on requests of its own.

`PartnersPaired` is proved for every application with one request on each side of a
channel.  `IInv` says that a handshake message is in the queue of the side and the channel
of its sender, and that a request holds addresses of the other side of its own channel
only; both follow from what a queue is keyed by (`QueueOfOne`: communicator, direction and
tag name one side of one channel), wherever on the stack the search is made.  The
hypothesis `OneRequestPerSide` excludes a second generation of requests on a channel, for
which `LaterPersistent` (3.2) shows that it can fail; the run has one that works.

`RdvProcessMpiProofs` proves, under the same hypothesis and

    UsedInTurn == a request is initialised before its first start, and the starts
                  and the waits of a request alternate

that `ReceivesItsMessage` holds, and that `Spec` implements `Mpi!Spec`, the safety half of
`ImplementsMpi`: the wait of a receive returns with the message of its operation, never
before the matching send is started, and a collective call not before all are in it.  This
is so whatever the calls nest in, for requests that fall back, that meet a peer without
persistent requests, or that are created late.  `UsedInTurn` is what MPI demands (an active
request may not be started), except that MPI also lets a process wait for an inactive one.
53 of the 54 applications of `rdv_process` satisfy both hypotheses (`Generations` has two
requests on a side), and so does `example.c` as in `rdv_clients`: it may hang, but it never
goes on with the wrong message.  `CreatedLate` satisfies them as well.

`MpiInv` is the inductive invariant; TLC has found it true of the applications of the runs
and of `CreatedLate` before it was proved.  Beside `TypeInv` it has

* `PlaceInv`: a process is in the call its outermost frame belongs to, and all frames on
  top of it are blocks of requests which connect from within a pass.
* `CountInv`: the operation number of a request is the number of starts its process has
  called, so that the program and the library agree on which operation it is.
* `ChannelInv`, per channel: `SendInv` and `RecvInv` say what a request of each type holds
  for its operation; `PairInv` that the messages which wait are the last ones
  sent, in order, and how many they can be; `FlagInv` that neither a flag nor a put
  under way says more than the peer has done.

That both sides settle on the same protocol is not needed (and not true, see `rdv_clients`):
a side that is alone with RDMA waits for a flag nobody sets.  Since a pass can progress any
request from any call, every step of a pass is shown to keep the invariants of all channels;
`Outcome(p)` says for each action that it does, and which calls have returned.
The assumptions on constants are `DeploymentsAssumption`, `ProgramsAssumption` (a program
is a sequence) and `NullAssumption` (no request is called `Null`).

In `RdvProcess` data moves at once, so the theorem is about which message is moved.  That
RDMA has finished moving it is `BufferContent` of `RdvTransfer`, with `rdv_nested` as the
exception.

`RdvProcessCallsProofs` is about what the library asserts and what it leaves behind.
Neither follows from a proper use of the requests alone: `CreatedLate` breaks
`AssertionsHold`, and two requests that are created, never started, and freed leave the
addresses of both behind.  So there are hypotheses on the order of the calls:

* `UsedOnce`: a request is created once, and freed when its operations have returned.
* `CreatedFirst`, of an application: all requests are created before a barrier, and started
  behind it.  `CreatedInTime` allows for each application that no process has two requests
  instead.
* `EachStarted`: a persistent request is started at least once.

`AssertionsHoldHolds` needs `OneRequestPerSide`, `UsedInTurn`, `UsedOnce` and
`CreatedInTime`, `HandshakesSettledHolds` and `ConnectsHolds` the first three with
`CreatedFirst`, the former `EachStarted` as well.  53 of the 54 applications of
`rdv_process` satisfy all but `CreatedFirst` (again without `Generations`), 52 that one, too
(`openmpi-patch/example.c` has no barrier, but one request in each process).

The difficulty is the pass over the list in the wait for the flag, the loop of `e_recv`: a
request that connects there would run passes of its own, from which the receive is
progressed behind the back of its wait.  `CallsInv` says that this cannot be:

* `BarrierInv`: who is behind a barrier has left nobody in front of it; so no operation has
  begun while requests are still created (`NotBegun`).
* `ListInv`: a request is on the list of its process once, from its creation on.
* `MeetInv`: when the protocol of a request is settled, no other one on the list has a peer
  whose addresses wait to be taken (`Unmet`).  The wait of the first operation makes a pass
  over the whole list before it settles it, and no new addresses come later: a step either
  creates a request or makes at most one request learn its peer (`Hears`).
* `FlagAlone`: so nothing nests in the wait for a flag.
* `PutsInv`: RDMA operations are outstanding between start and wait only, and, within the
  wait, at its two flushes only.
* `BackupInv`: `backup_request` is set between start and wait only.

`ShakeInv` adds `InfoInv`, that the addresses of a request are with MPI from its creation
until its peer holds them, and are sent once, and `MetInv`, that a request which has begun
finds no addresses in its inbox any more: its first start has looked for them.  At the end
of an application in which everything has been started, all that is left in an inbox
therefore belongs to a request whose peer uses MPI itself: `HandshakesSettled`.  And a
request that falls back has no peer whose addresses it could have taken: `Connects`, which
`rdv_clients` shows to need the barrier.  In `RdvProcess` addresses that have been sent are
seen by the next probe; what their delay can do is in 4.2.

The preservation proofs do not go through the 26 actions again: `AllKinds` shows that every
step of a process is one of six kinds (it creates a request, is a collective call or a
free, starts, ends a wait, goes on within a wait, or progresses others), each stated by what
it does to the stack, the list and the fields the invariants speak about.

### 4.6 Compiler pass

The first part of `MatchingPassProofs` proves of the reference what its recursive function is
meant to compute: the lemma `ClosureIsLeast`, that the closure contains its start, is closed
under the steps, and is contained in every set that is.  The rest only uses these facts.

The second proves `TypeOK`, and for every set of programs:

* `NothingSkipped` and `ReportsReachable`, if `ReturnsBehindHeads`: a block into which a
  function returns is not entered at its head within the same scope.  The walk marks a
  block as checked when it has checked a part of it (`conflict_detection.cpp` 243); the
  hypothesis says that this part is all of it that is reached.  `Covered` is the worklist
  invariant: for some set of positions that were walked, every step from one of them leads
  to another or to one still to be checked, none of them is an alarm, and the head of a
  block that is marked as checked is walked or still to be checked.
* `RequestsKeepLibrary`, if `OneRequestPerVariable` and `CounterpartsExist`: no two init
  calls use one request variable, and what is called on a request has a counterpart in
  the library.  These are the negations of the hazards at `replacement.cpp` 133 and 199,
  where it fails.  `ReplaceInv` relates what is replaced to what was accepted.

Every program of the run `matching_pass` satisfies the three hypotheses.

### 4.7 What TLC alone checks

Liveness: `StartedOperationsComplete`, `MatchedOperationsComplete`, `WalksEnd`,
`ImplementsFairChannel` and the fairness half of `ImplementsMpi` (every call returns when MPI
promises that it does); the provers do not know fairness and ENABLED.  Every invariant and
action property of a passing run is also the subject of a theorem.  Where that has a
hypothesis, the run checks the property of what does not satisfy it as well: of
`Generations`, for example.  In `am_transfer` it checks no more than the hypothesis allows.

## 5. Not modelled, and why

* `USE_LOCKING` and more than one thread per process: off in the sources.
* Errors returned by UCX or MPI: the code asserts that there are none.
* The overflow of `operation_number * 2 + 2`: the model's numbers are unbounded.
* What finalize releases (windows, registered memory, communicators): calls of other
  libraries; the model says which requests and messages are left then.
* In `RdvProcess`, memory that a peer still writes after a free: the code keeps it until
  finalize, and `NothingOutstanding` of `RdvTransfer` is about the time before.
* In the pass: `get_corresponding_wait`, `is_waitall_matching` and the comparisons over
  loop iterations, which it never calls; LLVM's scalar evolution, which can tell two
  buffers apart that are no constants; how LLVM rewrites a call.
* Size, type and address of a message: a channel stands for sender, receiver and tag.
* The benchmarks of `IMB-ASYNC` that use MPI alone, build scripts and plots.

## 6. Plan

1. The pass with values of conditions, so that a guard can change in a loop, and with
   recursion; a bound on the work of the walk in programs without recursion.
2. The theorems of 4.5 for requests that are freed and created again, for which a channel
   needs an invariant per generation.
