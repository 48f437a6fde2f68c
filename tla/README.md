# A TLA+ verification of atomspace-cog

atomspace-cog connects a local AtomSpace to one that a CogServer keeps on another
machine. The storage API (store, fetch, load, remove, fence, open, close) becomes
s-expression commands that travel over TCP sockets, and replies that are decoded
into the local AtomSpace. There are two implementations of this: the *production*
backend, with a message buffer, worker threads and one socket per thread, and the
*simple* one, where all threads take turns on one socket.

This directory holds models of both, model-checked on small instances with TLC, and
proofs, for all instances, of the main results about the channel, its sockets, the framing of
replies, both backends and the bindings.

## 1. Inventory

| Part | State | Operations | Talks to |
|---|---|---|---|
| `CogChannel` (`cog-storage/CogChannel.*`) | `_msg_buffer`, `Msg::_sequence_counter`, one `thread_local` socket per thread, shared by all channels, `_servinfo`, `_nsocks` | `open_connection`, `close_connection`, `enqueue`, `enqueue_noreply`, `synchro`, `flush`, `barrier`, `reply_handler` | the buffer calls `reply_handler` from its threads; sockets to the CogServer; callbacks into `CogStorage` |
| `CogStorage` (`cog-storage/CogStorage.*`, `CogIO.cc`, `cog-common/ListUtils.cc`) | none but the channel; it changes local AtomSpaces | the storage API, and the callbacks `decode_value`, `decode_kvp_list`, `decode_atom_list`, `is_ok`, `noop_const` | the channel; callbacks enqueue more messages |
| `CogSimpleStorage` (`cog-simple/*`) | `_sockfd`, `_mtx`, `_multi_space`, `_frame_map`, `_fid_map`, `_mtx_frame` | the storage API with frames | one socket to the CogServer |
| Guile bindings (`CogPersistSCM`, `CogSimplePersistSCM`) | `_as`, `_storage` | `do_open`, `do_close` | create, open, close and extract a storage node |
| `async_buffer` (external) | a set of messages and its writer threads | `insert`, `barrier`, `flush` | `CogChannel` |
| CogServer (external) | an AtomSpace, the frames, one handler per socket | the commands, `cog-barrier` | the sockets |
| Sexpr encoding (external), atom types, Scheme modules, examples, tests | none of their own | | |

What is hard here:

* **order**: the production backend runs messages from four threads over four
  sockets, in no order, and drops duplicates; only `barrier()` orders them, through
  a rendezvous of all worker sockets in the server;
* **callbacks that submit more work** while a `flush` or `barrier` waits for the
  buffer to drain;
* **shared sockets**: replies carry no identifiers, and belong to the oldest
  request that has a reply, if nobody else uses the socket;
* **mutual waiting**: callers wait for workers, workers for room in the sockets and
  for replies, and the server holds sockets at a `cog-barrier`;
* **stale and partial state**: a frame cache that can differ from what the server
  knows, exceptions in the middle of an operation, connections that are dropped;
* **sockets that outlive their use**: a thread keeps its socket, or only the number of it,
  while nodes are opened and closed and servers restart;
* **framing**: replies have no length; a newline at the end of what `recv()` returned
  ends them.

The properties that make each part correct are listed with the runs below.
`PROJECT.json` lists the hazards one by one, each at its line, with the properties
that would catch it, or the reason why none does yet.

## 2. Modules

| Module | What it is |
|---|---|
| `FencedQueue` | abstract: a pool of requests that is run in any order, cut by fences |
| `CogChannel` | the channel on an open connection, with the buffer and the server's sockets |
| `CogStorage` | the production backend: composes `CogChannel` with the operations, the callbacks, local tables and the server's AtomSpace |
| `CogSimpleStorage` | the simple backend |
| `CogConnect` | the per-thread sockets of the production backend, over opens, closes, thread ends and server failures |
| `CogRecv` | `do_recv`, which is the same in both backends, over a stream of bytes |
| `CogPersistSCM` | the Guile bindings |
| `CogChannelProofs`, `CogReplyProofs` | theorems about `CogChannel`: order and fences, and replies; the second also has the lemmas that `CogStorageProofs` rests on |
| `CogStorageProofs` | theorems about `CogStorage` |
| `CogConnectProofs` | theorems about `CogConnect` |
| `CogRecvProofs` | theorems about `CogRecv` |
| `CogSimpleStorageProofs`, `CogSimpleDataProofs` | theorems about `CogSimpleStorage`: the mutex, the socket and Values; loadAtomSpace and the frames |
| `CogPersistSCMProofs` | the theorem about `CogPersistSCM` |
| `MC...` | instances for TLC |

**CogChannel.** `msgq` is the content of `_msg_buffer`, a set: `Insert` drops a message
that `operator<` of `Msg` takes for equal. A worker takes *some* message
(the order of the buffer is that of the strings and not of time), and goes through
`reply_handler`: send, done if `_noreply`, else receive, callback. `synchro` does the
same in the calling thread on the calling thread's socket. `barrier()` first waits for
the buffer to drain (`Drained`: nothing queued and nobody busy), then every worker
sends the message `(cog-barrier NTHREADS id)`. The server runs the messages of a socket in order;
a socket whose next message is a barrier waits until `NTHREADS` sockets have come to
it. A full socket blocks `send()`. The 19-character comparison with an 18-character
literal in the constructor of `Msg` is modelled as it is (`GetsSequence`), so no message
ever gets a sequence number. The stamps `lo` and `hi` of a message, and `bstart`, `bret`,
`sdone`, `exq`, `exu`, are history: they say how many barriers had returned and begun
when the message was made, and how far the server has come.

**CogStorage.** An operation is the sequence of channel calls that the code makes
(`todo`); each call is an action of `CogChannel` composed with what the storage node
does. `kill_data` is `barrier, enqueue, barrier`; `close` is `proxy_close` (barrier,
enqueue, barrier), `barrier`, `close_connection`. `decode_atom_list` takes one step per
Atom, since it puts a message into the buffer for each. `getAtom` reads a field of its
packet that was never set when the server does not know the Atom (`CogIO.cc:184`): `ProbeReply` lets it
go either way, while the code's comment has "Yes, the cogserver knows about this atom". An Atom has one key and the Value there is a number, 0 if there is none: to
store an absent Value removes that of the server. Links hold all Nodes.

**CogSimpleStorage.** An operation is a sequence of lock, send, receive, decode, unlock
and cache steps; other threads may come in between any two. `do_recv` takes what has
arrived, so it can take more than one reply at once, and its caller decodes the first.
A Value is known by the number of changes that the server had seen when it was set,
which makes old and new ones comparable. `ServerDrops` closes the connection at any
moment; `DoSend` and `DoRecvFails` then do what the code does, and `Throw` unwinds the
operation. `do_send` of this backend calls `send()` without `MSG_NOSIGNAL`, unlike that of the channel:
`SendSignals` is a send on a connection that the server has closed, where SIGPIPE, if the program does not
handle it, ends the process (`dead`). On a connection that is just being opened nothing was sent too late yet, so
there `Connect` throws. A node starts just made, or opened since. The key of storeValue and
updateValue may live in any frame, also in one that has nothing to do with that of the Atom.
Replies are taken whole here. `decode_atom_list` says of itself that "this WILL fail if the returned list is large"
(`CogSimpleIO.cc:203-205`), which is when `do_recv` returns a part of the list: `LoadIsSnapshot` is about
loads whose replies come whole, and `WholeReply` of `CogRecv` says when they do.
`Connect` is `open()` from the call of `socket` on: it gets a connection, gets none, or gets
one and loses it before the prompt has come, where the exception leaves `_sockfd` as it was set last.

**CogConnect.** `sockfd` and `owner` are the fields of `s`, one per *thread* and not per channel;
`desc` is the descriptor table of the process. `Open` sets `_servinfo` and goes through
`do_send` and `do_recv` like any other call: `OpenSock` when the thread has no socket, else it uses the
one it has. `Opened` closes the socket and starts the workers, `OpenFailed` is the `catch`
block. `OpenSockBreaks` is a `send()` that fails on a fresh connection, `DoRecvFails` an end of file
(the descriptor is closed and its number kept) or an error. An exception of `synchro` reaches its
caller; one in a worker ends the process (`dead`). `EndThread` is the destructor of `s`. What a
connection carries is reduced to whose reply comes next; messages without a reply end with `do_send`, leave
nothing there, and are left out. While nothing is closed the workers of an open
channel take messages at any time; which ones is the business of `CogChannel`. The workers that the
constructor starts have nothing to do before the first open, and are left out until then.
`lost`, `reused`, `leaked` and `used` are history, and say under what conditions a property is stated.

**CogRecv.** The server appends messages and idle bytes to `wire`; each turn of the loop (`Turn`) takes
some first part of it, of at most `BufLen` bytes. `Skip` is `pbf - buf` after the first
`if`, `LenLeft` is `len` after the second. `rb`, `first_time` and `garbage` are the variables of the
code. `clean` is history: it turns false when a piece ends within the prompt, or within a reply and
behind a newline. The two copies of `do_recv` differ in the size of the buffer and in what they do
with a lost connection, which is modelled in `CogConnect` and `CogSimpleStorage`.

**CogPersistSCM.** `DoOpen` and `DoClose` with every early return and exception; the
environment changes the current AtomSpace and starts and stops servers in between. `do_close` does not look
at what `extract_atom` returns: it may leave the node in the AtomSpace, when a Link holds it, and the bindings
forget it all the same. `kept` is history, and has these nodes.

Assumptions about callers: nobody closes a production storage node while another
thread is in a call, or opens it twice at once (calls on different nodes do overlap in `CogConnect`);
the operations of the simple backend that touch the socket or the
maps without their locks (`Unlocked`: open, close, loadFrameDAG, proxy_open,
proxy_close) are called while no other call is in progress, except in the run that is about
proxy_open. `FramesKnown` leaves out the stores that overlap a `kill_data`, and stores that
overlap each other before `_multi_space` is first set (`raced`): there the code can name
a frame that the server does not have, and no document says what should happen. It also holds only until a
connection is lost (`lost`): a definition that goes down with a connection stays in the cache, which the
next connection counts on. And it is about the frame of a message's Atom and the frames which that one is built on:
`writeFrame` gets the frame of the Atom only, so a key that lives in another frame is encoded with
a frame that the server may never have been sent. No document speaks of such keys; the hazard is listed. SIGPIPE
is taken to have its default disposition, or to be ignored.

Assumptions about external code: `async_buffer` is a set emptied by NTHREADS threads,
its `barrier` hands the block to each thread once everything before it is done, and
one barrier runs at a time; the CogServer runs each socket's commands in order, answers those that
the code waits for and no others, and implements `cog-barrier` as a rendezvous. It ends every reply with a newline, and sends idle bytes between replies and not inside of them. The
barrier's identifier, drawn at random in the code, is taken to be unique.

## 3. Runs

| Run | Result | Question |
|---|---|---|
| `channel` | holds | `Fence`, `BarrierWaits`, `ReplyMatches`, that the channel implements `FencedQueue` (`FencedSpec`), and `CallsReturn`: synchro, flush and barrier return |
| `channel_probe` | violated | `FenceForAll`: the barrier orders *all* reads and writes, as `README.md` of the repository has it; `synchro` on its own socket is not covered |
| `storage_every` | holds | all operations in any combination: `TypeOK` (callbacks write only to Atoms of a table), `NoUpdateTwice` (the server applies no more updates than were called) and `CallsReturn` |
| `storage_order` | holds | `LoadComplete`, `KillIsFinal`, `CloseIsSync` |
| `storage_two_tables` | violated | `LoadComplete` with two threads that load into two AtomSpaces: the second request is dropped as a duplicate |
| `storage_updates` | violated | `EveryUpdateCounts`: two equal updates are merged into one |
| `simple` | holds | any operations, and a connection that is dropped at any moment: `TypeOK` (the mutex is let go on every path), `OwnReply`, `LoadIsSnapshot`, `FramesKnown`, `NeverStale`, `CallsReturn` (every call returns or throws, unless SIGPIPE ends the process) |
| `simple_proxy` | violated | `OwnReply` with proxy_open, which does not take the mutex |
| `scm` | holds | `NoStrayNode` |
| `connect` | holds | `SocketsApart`, `TalksHome`, `NSocksCovers`, `Survives`, `NoLeak`, `TypeOK` (no worker outlives its connection), `CallsReturn` |
| `connect_two_nodes` | violated | `ManyServers`: "you can talk to multiple servers at once" (`README.md` of the repository, line 33), so open and synchro talk to the server of their node; a thread that has a socket uses it for every node, also for the probe by which open is to "find out immediately if a cogserver is actually there" (`CogChannel.cc:130-131`) |
| `recv` | holds | `WholeReply`, `NothingLost`, `InBounds`, `RecvReturns` |

What `connect` shows, and what it does not. Until a server fails no two threads hold one
descriptor and none holds a closed one; after a failure they may, since `do_recv` keeps the number of
what it closed and `open_connection` closes it again. A thread that uses one node talks to that
node's server; a thread that uses two may talk to the wrong one (`connect_two_nodes`). The process
ends only when a server fails, or when `open()` was called by a thread that had a socket: the
probe then went to whatever that socket was connected to, and a worker found
out that there is no server. Every descriptor has a thread that will close it, but for those where the
first `send()` failed. The count that `monitor()` reports is never below the sockets in use; it may be
above, since the socket that `open()` closes stays counted.

What `recv` shows: where do_recv returns something other than one reply, the network had cut the prompt, or a
reply behind a newline inside of it; nothing is lost then, but each later call may get the rest of
an earlier reply.

The five violated runs are disagreements between the code and what its comments or its
documentation say; `PROJECT.json` quotes both sides under "findings".

**Bounds.** Two workers stand for the four of the code: what can go wrong between
sockets goes wrong between two of them, and the order results are proved for any
number. One or two callers; two barriers in `channel`, so that a message can be behind
one and before the other; two to four calls (`MaxCalls`) on the storage nodes (in `simple` two calls of
any operations, or `MaxFew` 3 out of the set `Few`: a store, a fetch and a clear, which is where stale Values
and forgotten frames come from), enough for a
write, a fence, a load or a clear, and a second thread in between. `MaxBarriers` 12 in the
`storage_` runs is more than the calls can use (a close, the longest, needs three, and four
calls at most are made): it never cuts a behaviour off. `SockBuf` 1 makes
every send block on the one before (in `storage_every`, which is about liveness), 2 lets messages queue up
in front of a barrier. One Node and one Link: a Link brings its Node along, and a load
has two lists to work through. `MaxLost` 1: a connection lost at
any moment takes every failure path, up to a new open where the code knows that it is
disconnected. In `connect` two threads, two nodes with one worker each and two servers: three
calls (`MaxCalls`) are enough to open a node, use it and open the other with the same socket, or close it;
messages of the workers are not bounded. `connect_two_nodes` takes three calls, to open a node, use it and open the other, and `MaxLost` 0, since it
needs no failure. `MaxFd` 5 is one descriptor more than threads, for one that leaks.
In `recv` a buffer of 3 bytes stands for 8192: the replies are shorter than it, longer than it, and one
has a newline inside; `MaxMessages` 4 lets a rest be carried through two further calls, and
`MaxIdle` 2 lets a piece consist of idle bytes only, or have one at each end. `MaxVal` bounds Values. TLC checks for deadlock in the channel and the
bindings; in the storage runs the callers stop after `MaxCalls`, so a state without a successor
is the normal end, and `CallsReturn` shows that nobody is stuck in it.

**Symmetry** of the threads is used in safety runs only; initial states and
properties do not tell the threads apart.

**Fairness** is weak, on steps of threads that nothing but the modelled conditions
holds up: the buffer's threads, the handler of each socket in the server, and
(in a call) the calling thread. Callers need never make a call. The channel's and simple
backend's mutexes need no strong fairness because the number of calls is bounded, so no
thread can be passed over for ever; starvation by an unbounded stream of calls is left
out. In `channel`, where calls are not bounded, there is one caller: a second one that
enqueues without end could hold up the `flush` of the first for ever, since `flush` waits for an
empty buffer. `ServerDrops`, `ServerStop` and `ServerStart` have no fairness. In `CogConnect` the steps of a call and the
exit of workers are fair, and so are replies, since a live server answers; in `CogRecv` the
server's answer and the arrival of what was sent. `CogChannel` and `CogStorage` have connections that
do not break: a worker that meets a broken one ends the process.

## 4. Theorems

`CogChannelProofs` proves, for any finite set of workers, any set of callers, any
messages and any socket capacity (assumptions `ThreadAssumption`, `MessageAssumption`,
`BoundAssumption` of `CogChannel`):

* `TypeCorrect`: `Spec => []TypeOK`;
* `FenceHolds`: `Spec => []Fence`. Once the server has run a message that was enqueued after
  a barrier returned, nothing from before that barrier is left to run;
* `BarrierWaitsHolds`: `Spec => []BarrierWaits`. barrier() returns only after the callback
  of everything from before, the messages of callbacks included;
* `ChannelIsFenced`: `Spec => FencedSpec`. The channel implements `FencedQueue`, where the pool
  is the stamps of the messages that the server has still to run.

`Fence` is not inductive: it says nothing about where in the sockets the barrier
messages are. The invariant `IInv` adds

* `Counters`: barriers begin and return in turn, and the server is ahead of the
  returned ones only when every worker has sent the message in progress;
* `BufferWindow`: what waits in the buffer is no older than the last barrier to
  return, nor than the one in progress once the buffer was drained;
* `WorkerWires`: the barriers in a worker's socket are exactly those between the
  last that the server completed and the last that this worker has sent, in order, and each message
  stands behind those that had returned when it was made and before those that had
  not begun;
* `UserWires`: callers send no barrier messages, so that all who meet at one are
  the workers (`AllAtBarrier`);
* `exq <= sdone`.

A message at the head of its socket has no barrier before it, so all the
barriers that had returned when it was made are completed (`exq <= sdone`); every other pending
message is at or beyond `sdone` (`PendingWindow`); `Fence` follows. The steps of the channel map to
steps of `FencedQueue` (`StepRefines`): an insertion to `Submit`, `ServerExec` on a worker's socket to `Run`,
`BarrierBegin` and `BarrierEnd` to the fence, all else to stuttering.

`CogPersistSCMProofs` proves `NoStrayNodeHolds`: `Spec => []NoStrayNode`, for any AtomSpaces and URIs
(`NameAssumption`: `None` is neither). The inductive invariant adds types, and that `_as` is an AtomSpace
whenever there is a node: do_close extracts the node from there. The nodes of `kept`, which `extract_atom` did not
take out, are outside of the statement.

`CogReplyProofs` adds `ReplyMatchesHolds`: `Spec => []ReplyMatches`. Replies carry no identifiers, so the
argument is about what is on a worker's socket. `ReplyInv` says that a worker that is not receiving has neither
a question under way nor a reply to come, and that one that is receiving has exactly one of the two, which
belongs to the message in its hand (`Conversation`); and that a message is sent without waiting for a reply
exactly if the server is silent on it (`Labels`).

`CogConnectProofs` proves `TypeOK`, `SocketsApart`, `TalksHome`, `NSocksCovers`, `Survives` and `NoLeak`, for
any channels, servers, descriptors, calls and failures, and any finite set of threads (assumptions
`ThreadAssumption`, `BoundAssumption`). They share the inductive invariant `Inv`: how far a thread is agrees
with what it is doing (`Calls`); a channel in use has its address, and nobody else uses one that is being opened or
closed (`Nodes`); a thread knows which channel opened its socket (`Hands`); without failures every connection
works and leads to the server of that channel (`Sound`), and that server can be reached (`Reach`).
`SocketsApart` rests on `NoLeak`: a descriptor that the system hands out is free, so that no thread holds it
already. `NSocksCovers` counts sockets, which takes the theorems on the cardinality of finite sets.

`CogRecvProofs` proves `TypeOK`, `InBounds` and `WholeReply` for any buffer size, any replies that end with a
newline and any prompt (`ByteAssumption`, `MessageAssumption`, `BoundAssumption`). `InBounds` is about the loop that
drops idle bytes at the end of a chunk: it stops within the buffer because a chunk of idle bytes
only was skipped by the loop at the front. For `WholeReply` the invariant `InOrder` says that as long
as the stream is `clean` there is at most one message between the server and the caller: its beginning is in `rb`, the rest
on the wire (`Split`), and all else there is idle bytes. A chunk then ends with a newline only where the message ends.

`CogSimpleStorageProofs` and `CogSimpleDataProofs` prove `TypeOK`, `OwnReply`, `NeverStale` (an action property),
`LoadIsSnapshot` and `FramesKnown`, for any threads, Atoms, AtomSpaces, calls and lost connections (`SpaceAssumption`,
`ContentAssumption`, `BoundAssumption`), under the hypothesis `Unlocked \subseteq Alone`: the operations that
use the socket or the maps without the mutex are called while no other call is in progress. It is a hypothesis of the theorems
and not an assumption of the model, since the run `simple_proxy` is about callers who do otherwise, and shows that
`OwnReply` then fails. What is left of an operation is a sequence of
steps that grows and shrinks; the invariant `Inv` says

* `Programs`: which step may follow which (`Follows`), and which may be the last (`MayEnd`); a request is directly
  followed by the receipt of its reply. Every operation starts with such a sequence (`OperationStarts`), and every
  step leaves one, since what replaces a step fits where it stood (`Replaced`);
* `Mutex`: whether a thread holds `_mtx` can be told from its next step alone (`Held`). That there is an unlock to
  come, and no lock before it, follows from `Follows` (`HeldFromStart`);
* `Exclusive`: who bypasses the mutex is alone. With `Mutex`, one thread at a time uses the socket (`OnlyOne`);
* `Exchange`: there is at most one request on the socket that will be answered, or the answer to it; nothing
  comes behind it, a thread waits for it, and the answer still says what the server holds;
* `Fresh`: no Value of the table is newer than that of the server.

`OwnReply` follows from `Exchange`; `NeverStale` from `Exchange` and `Fresh`, since the stamp of a reply that was not yet
received is the server's. `LoadIsSnapshot` takes a second invariant, `LoadInv`: commands that
other threads sent may still be on the socket when loadAtomSpace gets the mutex. Until its first reply has come, it has
still to ask for Atoms of every type (`Unread`); from then on what the server holds is in the table or in the lists yet to be
decoded or asked for, and on the socket there are only commands of this load.

`FramesKnown` takes a third, `FrameInv`. A step of an operation owes frames (it names one in a message, or puts
it in the cache) or covers them (`writeFrame`, and the definition it sends): `Owes` and `Covers`. A frame that a message names counts only
if it is that of the message's Atom or one below (`Own`); the Atom's frame was written before, and a key may
live elsewhere. The invariant says

* what is left of every operation is `Safe`: each frame that a step owes was told to the server, by a definition
  that it has run or that is still on the socket (`Told`), or is covered by a step before it. The messages
  on the socket keep the same order (`Calm`);
* the cache is part of `Told`, except while a kill_data is `Clearing`, between the server's clear and
  the emptying of the cache. Nobody stores then, or `raced` is set and `FramesKnown` promises nothing;
* a frame is told after the frames below it, so one that is in the cache needs no more definitions;
* each operation is left with steps of its own kind only (`Fits`; for kill_data and close, one of the remainders `K1` to `K6` and
  `C1` to `C6`), so the socket is empty whenever it is shut or opened anew;
* while `multi` is not set, at most one store is in progress, or `raced` is set: `_multi_space` does not turn true
  between the `writeFrame` of one store and its message because of another.

`CogStorageProofs` proves, for any finite set of workers, any callers, Atoms, tables and socket capacity
(`ThreadAssumption`, `BoundAssumption`, `AtomAssumption` and `ContentAssumption` of `CogStorage`):

* `StorageIsChannel`: every behaviour of `CogStorage` is one of `CogChannel`, with the commands as
  messages and the server's answers as replies. `Fence`, `BarrierWaits` and `ReplyMatches` thereby hold of the storage node;
* `TypeOKHolds`: `Spec => []TypeOK`;
* `KillIsFinalHolds`: `Spec => []KillIsFinal`;
* `CloseIsSyncHolds`: `Spec /\ []OneOpens => []CloseIsSync`;
* `NoUpdateTwiceHolds`: `Spec => []NoUpdateTwice`;
* `LoadCompleteHolds`: if there is one table (`OneTable`), `Spec => []LoadComplete`.

They share the invariant `Inv`: that of the channel (`CallInv`), and `Kept`, which says that what is left of an
operation consists of the calls that this operation makes, and a thread waits in the call that is next
(`Plans`); that every message brings what its callback needs (`Packets`); that every reply is of the kind that was asked
for (`Replies`); and that callers' own sockets carry probes only (`Probes`).

`KillInv` follows a kill through its three calls. When its first barrier begins, no write is in progress, so what is
made from then on are reads (`Behind`); when that barrier has returned everything older was run, so the clear comes behind
the last write (`Coming`); once the server has run the clear, or at the latest when the second barrier has returned,
it knows no Atom and only reads are left (`OnlyLeft`). If a write is called meanwhile, the kill promises nothing
(`clean` and `killed` in `CogStorage` keep track of this), and the invariant says so.

`CloseInv` does the same for a close, during which no other call is in progress: callbacks of earlier loads may still enqueue
requests for keys, and nothing else is made. When the last barrier has returned only those can be left. Each of them has a
worker waiting for its reply, and `close_connection` waits for the workers, so nothing is pending. `OneOpens` says that no two
threads are in `open()` at once. Without it `CloseIsSync` fails, as TLC shows with the operations open, close and storeAtom:
`open()` tests `connected()` and then connects, without a lock; when the first of two openers already stores,
and the probe of the second fails, the clean-up forgets the server while the store is under way. This is the assumption
on callers stated in section 2, here as a hypothesis of the theorem.

`UpdateInv` counts: `Owed` is the set of places where an update is that was asked for and not yet applied (with the thread that
called, in the buffer, with a worker that is to send it, at a position of that worker's socket), and
`applied + Cardinality(Owed) <= asked`. A step moves one place to another (`OwedMoves`), drops some (the buffer drops an equal
message, which is why it is not an equation: see the run `storage_updates`), or shifts the places on sockets (`OwedShift`, by an
injection). The theorems on finite sets of the library do the counting.

`LoadInv` follows a load that counts: one that begins when all earlier calls were followed by a barrier, and during which no write is called
(`fresh` and `clean` in `CogStorage` keep track of this). When it begins the buffer is empty, and what is still on the sockets was
made before a barrier `k` that has returned; all that is made since are reads (`Cut(k)`). By the `Fence` of the channel, when the server
runs the first of these reads it has run every older message, so from then on what it holds does not change (`Still`), and each
reply that is on its way or with a callback says what it holds (`Currents`). For each of the two requests of the load, nodes and
links, either it was not run yet, or every Atom of that type is `Brought`: by the list that a worker waits for, by the callback that is
decoding the list, by a request for its keys that is in the buffer or with a worker, or it is `Done`, in the table with the
server's Value. A request that the buffer drops leaves an equal one behind, so nothing is lost by that. When the last barrier of the load
begins to fence, the buffer has been drained and no worker has a message in hand, so only `Done` is left (`AllDone`).
`OneTable` is needed for the dropped duplicates: a message for another table is equal to the buffer, whose
comparison of reads looks at the text only, and the one that remains puts the Atom in the other table. The run `storage_two_tables` shows that
behaviour.

Checked by TLC only:

* `NothingLost` of `CogRecv`, which compares concatenations of any number of messages and needs an induction over them;
* `CallsReturn` and `RecvReturns` (liveness is out of the prover's reach).

## 5. Not modelled

* The encoding of Atoms and Values (external), the text of `monitor` and the statistics.
* The watermarks of `async_buffer` (external), other clients of the server, and the
  server's proxies.
* Exceptions of callbacks in workers, and storage nodes that are destroyed while threads still hold
  their sockets (`s._owner` then points to freed memory).
* `barrier()` on a node that is not open, and the parsing of URIs.
* Data races on the containers of the frame cache (undefined behaviour of the library).

## 6. Plan

1. `FencedQueue`, `CogChannel` and its proofs, `CogStorage`, `CogSimpleStorage`,
   `CogPersistSCM`: done, as described above.
2. `CogConnect` and `CogRecv`: done. `NoStrayNode` for `CogPersistSCM`: proved.
3. Proofs of the safety properties of `CogConnect`, `CogRecv` (but for `NothingLost`) and `CogSimpleStorage`, and of `ReplyMatches`: done.
4. `CogStorage` implements `CogChannel`; its `TypeOK`, `KillIsFinal`, `CloseIsSync`, `NoUpdateTwice` and, with one table, `LoadComplete`: done.
