# Verification of xiyoulinux

TLA+ models of the programs of this repository, the TLC runs that check them on
small instances, and TLAPS proofs of every safety property the runs check. The
source is the reference; a module names the file it models, and `PROJECT.json`
("map") gives the lines of each definition.

Run a model with `tlc -config MCThreadPool.cfg MCThreadPool.tla`, check proofs
with `tlapm ThreadPoolProofs.tla`.

## 1. Inventory

| part | source | state | operations | hard behaviour |
|---|---|---|---|---|
| thread pool (plan5) | `plan5-thread/thread_pool.hpp` | status, task queue, workers, mutex, waiters | worker loop, `submit`, `init`, `shutdown`, `stop`, destructor | status read and written without the mutex, lost notifications, hand-over of tasks |
| thread pool (wraps) | `plan6-network/wraps/thread_pool.hpp` | the same | the same, with other tests in the worker and guarded `init`/`shutdown` | the worker looks at the queue before the status; waits without predicate |
| epoll reactor | `multi-io-servers/epoll-reactor-model.c` | slots `g_events`, epoll tree, ready list | `epoll_wait`, `acceptconn`, `recvdata`, `senddata` | edge-triggered events, one read and one write per event, slot and fd reuse |
| select server | `multi-io-servers/select-server.c` | `allset`, `rset`, `maxfd` | a round: select, accept, serve | ready bits that go stale within a round, closed descriptors in the set, blocking `Write` |
| select server with array | `multi-io-servers/array-select-server.c` | the same, `client[]`, `maxi` | the same | array, set and descriptors in step, early end of a round, uninitialised `maxi` |
| epoll server | `multi-io-servers/epoll-server.c` | epoll tree, batch | a batch of events | fd closed and reused within a batch |
| fork server | `simple-high-con-servers/mp-server.c` | parent's place, SIGCHLD, children, holders of a connection | accept, fork, sigaction, handler; child loop | ignored and merged signals, EINTR and `errno`, copies of descriptors |
| shell | `plan4-shell/*.c` | descriptors, children, pipes, directory | read line, pipe, run (cd, exit, fork, wait), close | who holds which end of a pipe; the shell waits stage by stage |
| ls | `plan3-ls/main.c` | options, pending objects, recursion, index array, ranges to sort | `analyseArgs`, `printIdxObj`, `quickSort`, `fileCmp` | streams and memory over a recursion with early returns; borders of the scans; a comparison that is no order |
| stream wrappers | `wrap.c` (two copies), `wraps/net.hpp` | static buffer of `my_read` | `Accept`, `Read`, `Write`, `Close`; `Readn`, `Writen`, `Readline` | EINTR, short counts, one read-ahead buffer for all descriptors, errors that end the process |
| NetWork | `NetWork/*.cpp` | length-prefixed messages on a connection | `sendMsg`, `recvMsg` | short reads and writes of headers and data, failure in the middle of a message |
| reactor classes | `wraps/epoll_reactor.hpp` | events, tree, callbacks | add, delete, loop | does not compile (section 7) |
| condition variable example | `plan5-thread/model/condVar_producer_consumer.c` | list head | produce, consume | one message each (section 7) |
| TCP examples | `plan6-network/tcp`, `client.c`, `mt-server.c` | one connection | echo | none to speak of |

How they interact: submitters and the owner of a pool meet the workers through the
queue, `pool_status` and one condition variable. The servers meet their clients
through the kernel (accept queue, socket buffers, epoll ready list, signals). The
shell meets its children through pipes, inherited descriptors and `waitpid`. The
stream functions meet a kernel that cuts a stream anywhere. `ls` is sequential; its
listing and its sort interact through the index array and through attributes that
belong to other entries. `PROJECT.json` ("hazards") lists what can go wrong at which
line and which property is about it.

What would make each part correct:

- pools: a task is in one place and runs at most once; an orderly shutdown runs
  what it found; a closed pool has no thread left; threads end; tasks do not wait
  for ever;
- servers: the single thread never blocks on a client that has nothing to say;
  no client and no descriptor is forgotten; what comes back is what was sent, in
  order; every client is served; children are reaped and connections end;
- streams: no byte is lost or repeated between two functions and two descriptors;
  messages stay whole, apart and in order, and arrive;
- shell: descriptors are neither leaked nor kept open by the wrong process; the
  prompt comes back; stages end;
- ls: the sort keeps every entry, stays in its range and ends; the traversal
  prints what was asked, once, within bounded resources.

## 2. Modules

A module `XProofs` holds the theorems about `X` and an `MCX` its instance for TLC;
`LevelServersProofs` holds those about the three level-triggered servers.

### Thread pools

`TaskService` is the abstract specification: what a caller of `submit()` sees of
its task (none, empty, pending, ready, broken) and what the pool promises (a task
runs at most once, never in a closed pool; an empty future only from a pool that is
not open; a drain ends when nothing is owed).

`ThreadPool` is the plan5 pool. A step is one access to shared state: the test of
`pool_status` in the loop (`Test`), the two halves of the wait predicate
(`PredStatus`, `PredEmpty`), the atomic "release and wait" (`Block`), the exit test
(`ExitStatus`, `ExitEmpty`), `Pop`, `Run`; `SubmitCheck`, `SubmitPush`,
`SubmitNotify`; and the owner's calls cut at each notification and join. It
matters that `shutdown()`, `stop()` and `submit()` never take `m_Mutex`: the model
lets them act between a worker's predicate and its wait. `owed` is a history
variable, the tasks that were enqueued or running when `shutdown()` was called.
Each submitted task is a model value submitted at most once, `init()` may be
repeated while thread identities are left, and no `submit()` starts after the
destructor has been called (a precondition of any object).

`WrapsThreadPool` EXTENDS `ThreadPool` with the steps of the later pool that
differ, and defines its own `WNext`.

### Servers

`EpollReactor`: a handler is one step, since one thread runs it to the end and
nothing else writes the server's state; clients and the kernel act between
handlers. Bytes are numbered, so losses show. The kernel is modelled as an
edge-triggered ready list that is checked again when `epoll_wait` returns.

`LevelSockets` holds what the three level-triggered servers share: the clients, a
kernel with blocking sockets, and the wrappers of `wrap.c`. Bytes are counted. The
only call in which a server gives way is `Write()`, which blocks until the client
has taken everything, so a `Write` under way is state (`op`). `SelectServer` and
`EpollServer` EXTEND it, each with its own set or tree and one action for each part of
its loop; `ArraySelectServer` EXTENDS `SelectServer`, whose sets and round it shares,
with the array of clients. In `ArraySelectServer` the initial `maxi` is any value of a set with one beyond the array; reading there ends the
description (`alive = "wild"`).

`ForkServer`: the parent's loop with a step per system call, SIGCHLD as a pending
bit, the handler as a loop of `waitpid` steps, and a child per connection. `accept()`
that a signal interrupts takes three steps: it is given up and the handler runs
(`SignalDelivered`), it returns with EINTR (`AcceptFails`), and `Accept()` tests `errno`
(`TestErrno`). The handler can run again before each of them, and leaves ECHILD in
`errno` if `waitpid()` finds no child at all. ECONNABORTED, which Linux does not return
for a connection that was reset, is left out.

A reset is modelled as Linux does it: data that arrived is still read; then one
call gets the error, and after that a read gives end of file and a write raises
SIGPIPE.

### Streams

`WrapIO`: `Readn`, `Writen` and `Readline` with a step per `read()` or `write()`,
over streams that the kernel cuts anywhere and ends with an end of file or an error.
`read_buf` of `my_read()` is one variable (`ahead`) for all descriptors, as in the
code. No program of the repository calls these functions, so the caller uses any of
them on any descriptor; `pure` says of a call that nothing of another descriptor was
read ahead when it began, and `OwnBytes` is about such calls.

`MessageSocket`: `sendMsg()` at one end of a connection and `recvMsg()` at the other,
with headers and bytes that arrive in pieces. A header that is read from the middle
of a message is some length of `Garbage`.

`Streams` runs one of the two libraries in a behaviour, so that one run checks both.

### Shell and ls

`ShellPipeline`: a stage that is a program is a process with the descriptors it
inherited and two amounts, what it reads (to the end, or not) and what it writes.
The shell's steps are those of the loop in `main_loop()`.

`LsSort`: `quickSort` as a machine with an explicit stack of ranges: a step moves one
scan, swaps, or ends a partition. `Ls` EXTENDS it with `analyseArgs()`, `main()` and the
recursion of `printIdxObj()`: every directory that is read is sorted by the machine of
`LsSort` on the attributes the code would compare, any allocation may fail, and a
frame holds what one call keeps in local variables.

## 3. Runs

One run per model, which checks its safety and its liveness together under the
fairness of section 4, and two runs that TLC refutes (section 6). `WInv`,
`Consistent`, `PipeEnds`, `Inv`, `ArrayInv` and `EpInv` are conjunctions of the type
invariant of the module and its consistency properties, named one by one in the module.

| run | module | bounds | shows |
|---|---|---|---|
| `thread_pool` | MCThreadPool | 2 workers, 2 submitters, 2 tasks, core size 1 | tasks are handed over once, a drain runs what it found, a closed pool is quiet, `TaskService` is implemented, awake workers end and keep the queue moving |
| `wraps_pool` | MCWrapsThreadPool | the same | the same for the later pool, with the exact window in which it drops tasks |
| `reactor` | MCEpollReactor | 3 clients that send up to 2, 1 and 0 bytes; 2 slots, buffer 2, window 1 | slots and tree agree, no client and no edge is lost, the echo is in order and complete when it fits, everything sent is read |
| `select` | MCSelectServer | the same clients, 2 descriptors, buffer 2, window 1 | never blocks on a stale event, exits only when full, exact echo, clients are served and closed |
| `epoll` | MCEpollServer | the same | never blocks on a stale event, exits only when full (`EpInv`), clients are served and closed |
| `array_select` | MCArraySelectServer | the same, 2 slots, three initial values of `maxi` | array, set and descriptors in step, never blocks, the first client is served |
| `array_select_active` | MCArraySelectServer | `maxi` initially 0 | violation |
| `fork_server` | MCForkServer | 3 clients, one of which sends a message, 2 processes | at most one zombie, the parent ends only with all its processes or without a child, reaping, end of connections |
| `streams` | MCStreams | 2 descriptors of 3 and 2 bytes, read-ahead of 2, 4 calls of size 1 to 3; messages of 2, 0, 1 and 2 bytes with a header of 2 | read-ahead loses and repeats nothing, calls return their own bytes, messages stay in step and arrive until a call fails |
| `shell` | MCShellPipeline | 3 stages on one, two or three lines, 11 commands, pipe of 1 block | descriptors, readers, the prompt returns, stages end |
| `ls` | MCLs | 6 directories, 11 command lines, every weak order of 4 times, every choice of 2 sizes, arrays that first hold 4 | sort inside its arrays, partitions, what is listed, streams and memory, termination |
| `ls_sort_order` | MCLsSort | 3 entries of different times, `-t` | violation |

Why the bounds are enough to be of interest. Pool: with core size 1, two
identities give two sets of workers at once (repeated `init()`) or in turn, and
two tasks of two submitters let one run while the other is queued or pushed late.
Servers: one client more than descriptors or slots makes reuse and refusal happen;
a buffer smaller than what is sent and a window smaller than the buffer make full
reads and short or blocking writes happen, and a client that sends nothing makes
silence and early departure happen. Fork server: two children can die within one
signal, or the second between the return of `accept()` and the test of `errno`, which
ends the parent. Streams: a read-ahead shorter than the stream is filled twice, and
two descriptors are enough for one to take what was read ahead of the other; an
empty message is refused in the middle, and the messages after it show whether the ends
are still in step. Shell: three stages are the first number with a middle one, and three
lines let background stages outlive theirs; a pipe of one block is full after one
write. Ls: four visible entries give partitions with both parts non-empty and pivots
at either border; with "." and ".." a directory has more entries than the arrays
first hold, so `realloc()` runs; hidden, locked, missing and nested names each occur.

Deadlock is not checked (`CHECK_DEADLOCK FALSE`) in any run: each of these programs
really stops, by exiting, by waiting for a client that never comes, or by the hangs
the properties are about; the liveness properties take its place. No run uses
symmetry.

## 4. Fairness

Weak fairness on each thread or process: the scheduler runs whoever can move.
Nobody has to call, type, connect or send; no waiter has to wake up unnotified. In
the server runs clients read the answers they are sent, because the code has no
timeout: a client that does not read stops a blocking server, and the liveness
properties say nothing then. In `streams` the receiver calls `recvMsg()` again and
again; nothing else is fair: `sendMsg()` is called when its user pleases, and no `read()` has to
fail (`ReadFails`).
`ls` is one process. `m_Mutex` needs no strong fairness for the claims made here.

Conditions in the liveness properties are behaviours the code really has:
`OutsideWindow` (a worker between predicate and wait may sleep for good), `PastWait`
(`stop()` and the destructor wake nobody), `Fits` and
`Quiet` (a foreground stage that writes more than a pipe holds blocks the shell for
good), `~alive` (SIGPIPE), `trouble` (a read or write failed, or was cut short).

## 5. Proofs

Every theorem is about every value of the constants that satisfies the module's
named assumptions: sizes are positive naturals, `None` and the like are no values of
the sets beside them. The proofs of one kind go alike: the invariant of the run is
strengthened to an inductive one, with one step per action, lemmas for each handler,
and PTL only in the last step.

`ThreadPoolProofs`:

- `TypeCorrect`: `Spec => []TypeOK`. `TypeOK` ties each thread's local task to its
  place in the code and is inductive.
- `Quiet`: `QuietWhenClosed`. The strengthening `PoolInv` says that every thread
  outside the vector `m_Workers` is unborn or has ended, that the calls and their
  places match the status, and that after the joins every thread of the vector has
  ended.
- `Drains`: `ShutdownDrains`. `DebtInv` follows each owed task: it is ready, in the
  queue, or in the hands of a worker while the drain goes on, and a worker of a
  draining pool ends only with an empty queue. It needs `PoolInv` to know that no
  `init()` or `stop()` interferes.
- `Conserves`: `Conservation`. `HomeInv` says without counting that the queue holds
  a task once, that two threads never hold the same one, and what its future says in
  each place; the cardinalities follow at the end.
- `Implements`: `ImplementsService`, the refinement of `TaskService`. One lemma per
  thread maps each step to a step of the service or a stutter: a push to `Accept`,
  `Run` to `Run`, the status writes to the changes of phase, `ClearQueue` to
  `Drop`. It needs `NothingOwed` (outside a `shutdown()` nothing is owed), and
  `ShutdownDrains` for the end of a drain.

`WrapsThreadPoolProofs` reuses the lemmas of the steps both pools share:

- `WCorrect`: `WInv`; `WImplements`: `WImplementsService`.
- `WDrains`: `OrderlyUnlessSeen`. `SeenInv` adds to `DebtInv` what a worker knew when it
  found the queue empty: no owed task is in the queue, and none comes back to it.

`EpollReactorProofs`:

- `Paired`: `Consistent`, together with `ListenerTrue` (the event of the listening
  descriptor in a batch still has a client behind it). `FdFree` shows by counting
  that `accept()` finds a descriptor: open ones have slots of their own, and there is
  one descriptor more than slots.
- `EdgesKept`: `NoLostEdge`, inductive together with `Consistent`. The case that carries it is
  `Register`: taking the descriptor out and putting it back reports the state it has
  then.
- `Echoes`: `EchoFaithful`. `EchoInv` follows the bytes: a connection is in one place
  (`Placed`), what was written are read bytes in order (`Stream`), a slot buffers
  consecutive bytes behind those (`Pending`, with a base that the code does not
  keep), and a client that fits has lost none (`Exact`).

`LevelServersProofs` first has the invariant of the sockets, `NetInv` (a connection is
on one descriptor or once in the backlog, and unused while it waits), and what each call
of a server does to it. On it rest

- `Responsive` (`Inv`), `EndsWhenFull` (`ExitOnlyWhenFull`) and `Exact` (`EchoExact`) of the
  select server. `Watched` says that every watched descriptor is open; ready bits
  stay true because nobody else reads, and an `accept()` of the same round takes a
  descriptor that was not watched.
- `ArrayConsistent` (`ArrayInv`). `Agree` says without counting that slots, set and open
  descriptors are the same; `Asked` what is known before the round has accepted.
- `EpResponsive` (`EpInv`), for events in any order.

`ForkServerProofs`:

- `Reaping` (`Inv`) and `EndsFullOrAlone` (`ExitOnlyFullOrAlone`). `Family` says why merged signals lose
  no child: before the handler is installed there is one child at most, and with it
  every zombie has a signal pending or a handler that has not ended. `Placed` says
  that a connection is not made, in the backlog once, or given to one child. `Alone`
  says that ECHILD can stand where EINTR is tested only if there is no child left:
  nothing is forked in between.

`ShellPipelineProofs`:

- `ShellLeaksNothing` (`PromptClean`) and `EndsWhereTheyBelong` (`PipeEnds`). `Clean` lists the
  ends of pipes the shell has at each point of a line; what a child inherits
  follows from it, for lines of any length and any mixture of commands.

`StreamsProofs`:

- `EachByteOnce` (`Inv`): the bytes in callers' buffers and in `read_buf` add up to those
  taken, which needs the counting lemmas for a byte in a joined sequence.
- `CallsGetTheirBytes` (`OwnBytes`). `ReadAhead` says that `read_buf` is a piece of one stream,
  `UpToHere` that it ends where the reading stands if the caller uses one function only,
  and `Own` that a call has the bytes in between.
- `MessagesInStep` (`InStep`), which is far from inductive: `LaidOut` gives every message
  that is begun a place on the wire, places what is still to be read of each, and says
  how far the receiver stands in the current one. A sender's step adds a place, a
  `read()` moves all of them.

`LsProofs`:

- `Accounted`: `Inv`. `FrameInv` says what each frame of the recursion waits for, and
  that the running one has sorted as many indices as it read entries; `SortInv` is
  inductive for any outcome of the comparisons.
- `Partitions`: `Partitioned`. `ScanInv` says what the scans have found so far.
- `ListsEverything`: `ListsAll`. `ListInv` keeps an account for each directory (`Account`):
  what was printed of it, what a frame owes (`Owed`) and what the arguments not called
  yet will bring add up to what all arguments bring. A call owes what its
  directory reaches until it has printed it, then what the objects reach that it kept;
  `Once` says that no two frames and no two objects of a frame owe the same directory,
  and `Gathered` that a call that reads has found, or will find, every wanted entry once.
  All this is so because the directories are a tree (`TreeAssumption`: no name twice
  in a directory, one parent, no cycle), which a file system guarantees for
  directories, and the code takes what it lists from `lstat()`, so that it follows no
  link. `Below`, what lies under a directory, is the least set closed under
  wanted subdirectories; the lemmas at the head of the module unfold it by one step and show
  that siblings share nothing and nothing lies under itself.

`EndsWhenFull`, `EndsFullOrAlone` and `ListsEverything` say what holds when a program ends; that it ends is
liveness.

Only model-checked: the liveness properties, since fairness, leads-to and ENABLED are
out of the prover's reach. What a theorem does not show is that the assumptions on
constants have a model; TLC evaluates them in every run.

## 6. Where the code and its comments disagree

Two statements of the source are runs that TLC refutes (`PROJECT.json`, "findings"):

- `array_select_active`: the round ends after the visit of the first slot in use,
  so a ready client in a later slot is never served.
- `ls_sort_order`: under `-t`, files with the times 2, 0, 1 are listed in this order,
  the oldest before a newer one.

The models show the following as well; they follow the code here, and the
properties say what remains true:

- `wraps/thread_pool.hpp` 139: `init()` on a working pool starts more threads
  (`WInitGuard`); 154: a worker that read the status before goes to sleep after
  `notify_all()` and `shutdown()` hangs (`WPredStatus`); 190: a pool that has just
  closed can still take a task (`WSubmit`).
- `epoll-reactor-model.c` 61: a slot keeps status 1 after its client has gone
  (`Close`); 91: a short write loses the tail; 75: a full read loses its last byte
  (`BufLen`).
- `array-select-server.c` 19: `maxi` has no initial value, and garbage leads past
  the array (`alive = "wild"`).
- `mp-server.c` 16: the handler does not save `errno`, so a second SIGCHLD that is handled
  after `accept()` has returned EINTR and before `wrap.c` 12 tests it ends the parent, if
  the handler reaps the last child (`TestErrno`).
- `wrap.c` 138: bytes that `Readline()` read ahead of one descriptor are returned for
  another (`pure` in `OwnBytes`), and 181: a line longer than the buffer is reported one
  byte longer than it is (`Line`).
- `NetWork/socket.cpp`: a header that is read in two pieces, or a message whose
  `write()` is cut short, puts the two ends out of step for good (`trouble`).
- `plan3-ls/main.c` 144: `-s` in a directory compares the sizes of other files
  (`pendingSize`).
- `plan4-shell/run.c` 122: a stage before the last one, in the foreground, that writes
  more than a pipe holds never ends, and neither does the wait for it (`Wait`).

## 7. Not modelled

Within the components: formatting, prompts, colours, columns and dates; addresses and
ports; setting up listening sockets; the unreachable code behind endless loops; memory
ordering beyond "a read returns the last write" for the racy `pool_status`; exceptions
thrown by tasks; `pipe()` failing in the shell, and how a line is cut into words; lines
with more stages than `MAX_PIPES` (the model keeps the limit of the code); directories
that change while they are listed; descriptors beyond `FD_SETSIZE`; the
constructors and destructors of `TcpClient` and `TcpServer`, which close
descriptors and call neither `sendMsg()` nor `recvMsg()`.

Components with status `not_modelled`:

- The reactor classes of `wraps/epoll_reactor.hpp` with `wraps/main.cpp`: the program does
  not compile. `func_wrapper()` is defined in two headers, the constructor repeats its
  default arguments in its definition, `main()` uses the default constructor
  that the class deletes, and `accept_connection()` installs no call-back, as its
  comment says. There is no behaviour a model could be faithful to.
- The condition variable example: its `main()` starts one producer of one message and
  one consumer of one. What is remarkable in it (after `head = new_msg` the new message
  is linked to itself, and the consumer leaves `head` pointing at what it has freed) is
  read by no further thread. The semaphore version has no code.
- The TCP examples: one connection and straight-line code; `mt-server.c` is a stub.

## 8. Plan

Done, in this order: the pools (the repository's most intricate concurrency) and their
abstract service, the reactor, the shell, `ls`, the other servers, the stream
functions and message sockets; then the proofs of section 5.

What could follow: the sort as a function (which inputs `quickSort` leaves sorted in spite
of section 6); `pipe()` failing in the shell, which needs descriptor numbers, since the
shell then goes on with those of the stage before; the reactor classes, once they
compile.
