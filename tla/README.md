# nhdfs in TLA+

`nhdfs` is a Node.js addon that gives JavaScript programs access to HDFS. It is
JavaScript (`lib/nhdfs.js`) over C++ (`src/*.cc`) over a vendored copy of the
native client libhdfs3 (`deps/libhdfs3`). This directory specifies its
concurrent parts, checks them with TLC and proves the properties that matter
most with TLAPS. The paths below are those of the repository.

## 1. The system

| Part | State | Operations | Talks to |
|---|---|---|---|
| `FileSystem` (`lib/nhdfs.js`, `filesystem.cc`) | a native handle; in libhdfs3 the working directory and an error text per thread | 18 promise methods; disconnect by the collector | one pool worker per call |
| `HReadStream` + `FileReader` | flags `opened`, `destroyed`, `closed`; the native `file` | Open on construction, `_read`, `close`, `_destroy`, destructor | Node's Readable, the pool |
| `HWriteStream` + `FileWriter` | the same, `bytesWritten` | Open on construction, `_write`, `close`, `_destroy`, destructor | Node's Writable, the pool |
| worker pool (libuv) | two queues, a few threads | queue, execute, call back | everything above |
| output stream (`OutputStreamImpl`, `Pipeline`) | buffer, packets, `lastError`, last block | append, flush, close, `completeFile` | namenode, datanodes, lease renewer |
| input stream (`InputStreamImpl`, block readers) | position, located blocks, dead nodes | read, seek, close | namenode, datanodes |
| `LeaseRenewer` | `maps`, `stop`, a thread | StartRenew, StopRenew, renewer | namenode, all output streams of the process |
| RPC (`RpcClient`, `RpcChannel`) | pending calls, a shared connection, the mutexes `writeMut` and `readMut` | invoke, read for others, shut down, close when idle | namenodes, datanodes |
| `NamenodeProxy` | index of the active namenode, shared by all threads | every namenode call, failover | RPC |
| `ClusterInfo`, configuration, authentication, encryption | | | |

JavaScript runs on one thread. Every native call is a `Napi::AsyncWorker`:
`Queue()` puts it in line, a pool thread runs `Execute()`, and the event loop
later runs `OnOK()`, which calls back into JavaScript. Two workers of one
stream therefore overlap on two threads, share the member `file` without a
lock, and their callbacks run in the order in which they finished.

What makes this hard: a stream's Open, data and Close workers race unless the
JavaScript code orders them; a client may call anything at any time; events
('open', 'finish', 'close', 'error') come in orders that the code decides only
partly; the collector finishes what the client forgot; errors travel through a
buffer that belongs to a thread; the renewing thread comes and goes while
pool threads open and close files; datanodes crash under a pipeline that is
rebuilt, and its packets are sent again; and all threads share one connection to
the namenode, which any of them may tear down under the others. The list, line by line, is under `hazards`
in `PROJECT.json`.

What makes each part correct:

* *write stream*: writes reach the output stream one at a time, in order and
  without a hole; success is reported only for what was taken; the file is
  completed only whole; every end is answered; nothing touches a freed file;
* *read stream*: blocks arrive in order, 'end' only after the last; a closed
  stream reads no more; every reader comes to an end;
* *calls*: each promise is settled, with the truth and with its own error;
* *lease renewer*: an open file's lease is renewed; no deadlock between the
  mutex and the join; no renewal for a client without files;
* *output stream and pipeline*: what was acknowledged stays on every replica the
  namenode counts, through any recovery; no replica gets a hole; every method
  returns; no file is left unfinished without an exception;
* *RPC and failover*: an answer reaches the call it answers, whoever reads it;
  a call that is not idempotent is not made twice; every call returns.

## 2. Modules

| Module | Models | State and actions against the code |
|---|---|---|
| `UvPool` | libuv's queues (external) | `stage[k]` is where worker `k` is, `ahead[k]` who stood in its queue before it. `Turn` is one callback of the event loop with the workers it ends and queues; `Start` and `Finish` are a pool thread's |
| `NativeFile` | `FileReader`, `FileWriter` | `file` is the C++ member, `wild` until Open wrote it; `inside` is who is in the libhdfs3 stream; `connected` that the `FileSystem` still is; `result` what `Execute()` returned; `broken` that undefined behaviour happened. `Enter`/`FinishData` are the two ends of Read and Write, `FinishClose` of `close()`, `Disconnect` is the destructor of `FileSystem` |
| `HStream` | what both stream classes share | `opened`, `destroyed`, `closed` are the fields; `ticks` the `process.nextTick` callbacks of a second `close()` |
| `WriteStream` | `HWriteStream` on Writable, and what the client sees of the output stream | `writing`/`buffered` are the Writable's; `OnOpen`, `OnWritten`, `OnWriteError`, `OnClosed` are the callbacks; `stored`, `poisoned`, `complete` abstract `OutputStreamImpl` |
| `ReadStream` | `HReadStream` on Readable | `reading`, `parked`, `queue` are the Readable's and `_read`'s; `block[k]` the buffer of the `k`-th Read; `patient` records that the client had no bad habit so far |
| `Upload` | the abstract promise of an upload | refined by `WriteStream` and by `OutputStream` |
| `FsCalls` | the promise methods of `FileSystem` and `ClusterInfo` | `last[t]` is thread `t`'s error buffer, `text[c]` what call `c` took from it, `wd` the working directory; `Refuse` is the argument check that throws |
| `LeaseRenewer` | `LeaseRenewer.cpp` and the counter in `FileSystemImpl` | variables have the code's names; `pc` is the thread's line |
| `Cluster` | namenode and datanodes (external), as the writer of one file sees them | `replica[d]` is the last block on datanode `d`; `stamp` its generation stamp at the namenode; `Fault` whatever goes wrong by itself |
| `Pipeline` | `PipelineImpl` | `nodes`, `packets`, `acked`, `sent` are the fields; `link` is how far `buildForNewBlock` or `buildForAppendOrRecovery` has got; `todo` the steps the call has left; `wire` and `got` what was written and what each node has received |
| `OutputStream` | `OutputStreamImpl` | `position`, `written` (`bytesWritten`), `held` (`currentPacket`), `lastFlushed`, `seqno`, `lastError` are the fields; `Append1`, `Flushing`, `Close` begin a method, `Return` and `Rethrow` end it |
| `RpcChannel` | `RpcChannelImpl`, `RpcRemoteCall` | `pending[s]` is `pendingCalls` of the channel to `s`, `reader[s]` the holder of `readMut`, `pc[t]` the place of a thread in `invokeInternal`, `error` its `lastError`, `done` what completed or cancelled its call |
| `NamenodeProxy` | the `NAMENODE_HA_RETRY` loop | `current` is `currentNamenode`, `count[t]` the loop's `__count`; `Over` is the handler of the loop |
| `WriteStreamProofs`, `UploadProofs`, `PromiseProofs` | theorems about `WriteStream` | each extends the one before |
| `ReadStreamProofs`, `FsCallsProofs`, `LeaseRenewerProofs`, `NamenodeProxyProofs` | theorems about the module of that name | |
| `OutputStreamProofs` | theorems about `OutputStream`, `Pipeline` and `Cluster` | |
| `MCLeaseRenewer` | constants for TLC | |

`WriteStream` and `ReadStream` extend `HStream`, which extends `NativeFile`,
which instantiates `UvPool`; `FsCalls` instantiates `UvPool` with calls as
tasks. `OutputStream` extends `Pipeline`, which extends `Cluster`: a method of
the stream puts the pipeline's steps into `todo`, and the pipeline acts on the
cluster. `NamenodeProxy` extends `RpcChannel`. The same abstract `Upload` is
implemented twice: by `WriteStream`, whose units are the chunks of the
JavaScript client and for which the output stream is a few variables, and by
`OutputStream`, whose units are those of `append()`. That is how the two layers
are related: what `WriteStream` takes for granted of the layer below (taken in
order, poisoned by a failure, completed only whole) `OutputStream` shows of it.

**Clients and habits.** The client is part of each specification: it calls
what it likes, when it likes, and may stop for ever. What a reasonable client
would not do is a named *habit*, and the constant `Habits` says which a client
may have. A property is checked for the largest set of habits under which it
holds, or says by itself which clients it is for (`Careful`, `patient`). For
write streams TLC gives, each habit taken alone:

| habit | `NoUndefinedBehaviour` | `CompleteMeansWhole` | `CloseMeansComplete` |
|---|---|---|---|
| `emptyEnd`: end() of an empty stream before 'open' | fails | holds | fails |
| `earlyClose`: close() or destroy() at any time | fails | fails | fails |
| `emptyChunk`: write() of length 0 | holds | holds (excepted) | holds |
| `writeAfterError` | fails | holds | holds |
| `drop`: forget the stream half-way | holds | holds (excepted) | holds |
| `dropFs`: forget the `FileSystem` before 'open' | fails | holds | holds |

*Excepted*: with an empty chunk, or a stream forgotten half-way, the file may
well be completed without being whole, and the property makes no claim of it.
Where undefined behaviour is possible the other columns speak of the time before it.

The file gets a hole only with `emptyChunk` and `writeAfterError` together: an
empty chunk is refused without poisoning the stream, and the next write goes
past the chunks that are still buffered. `StoredInOrder` says that nothing
else does it, for every client. For read streams the habits are `earlyClose`,
`drop` and `dropFs`; close() in the 'end' handler, as the tests do, is safe,
but 'close' then comes before the file is closed. For the calls, a
setWorkingDirectory that is not awaited (`chdirUnawaited`) breaks
`OneDirectory`.

Two habits deserve a note. With `emptyEnd` (a program that creates an empty
file with `createWriteStream(p).end()`) the Close worker runs beside Open, so
that the file may stay open. And `FileReader` and `FileWriter` hold the bare
`hdfsFS` of a `FileSystem` that JavaScript may let go of: with `dropFs` the
collector frees it before the Open worker has used it. Once the file is open
nothing can happen, because the libhdfs3 stream shares the `FileSystemImpl`;
the model has the collector do it at any time after that, and no property
minds. These failures are not listed as findings because no document of the
repository promises otherwise.

**Undefined behaviour** (a worker that follows an uninitialised or freed
`file` or `hdfsFS`, or two threads in one libhdfs3 stream) sets `broken`, after
which nothing moves: nothing is claimed of such a run beyond that point.
Liveness properties checked for every client therefore allow it as an outcome
(`CloseSettles`).

**Abstraction.**

* *Streams.* A chunk or block is a number. An append either is taken or fails.
  The Node streams are modelled from how the code uses them (Node 8): one
  `_write` at a time, `_destroy` at most once, 'finish' after the last chunk
  also if it failed. Callbacks of workers run when no tick is pending. The
  client acts between two turns of the event loop: what it calls inside an
  event handler counts as called right after the callback that emitted it.
* *Output stream.* Lengths are counted in units, several to a checksum chunk. An
  `append()` of one unit stands for all: a longer one is as many of them
  without a return in between. The thread that uses the stream is one at a
  time, which `NoUndefinedBehaviour` of `WriteStream` is about. `lastError` is
  a flag.
* *Pipeline.* A failure blames a node that is down or, like an unreadable ack,
  the first of the chain; after a fault of the network it blames anyone, for
  the error code of an ack, a broken connection and a timeout all look alike
  from there. `createBlockOutputStream` sets `errorIndex` in every failure, so
  that the exit of `buildForNewBlock` that counts `--retry` is never taken and
  is left out. A namenode that offers no datanode for a block is one that
  answered with an error.
* *RPC.* The locks are those of the code; a step is what a thread does between
  two of them. A request is served at most once per send. A connection that is
  refused and a timeout both count as *stalls*, since they are the two that
  end as `HdfsFailoverException`. The retries inside `connect()` are one step.
  A read that fails with nothing outstanding is the RPC timeout (3600 s).

## 3. Runs

| Run | Instance | Shows |
|---|---|---|
| `write_any` | 3 chunks, 2 threads, every habit, 216 351 states | type invariant; `OneWriteInFlight`, `AckedStored`, `FinishMeansStored`, `StoredInOrder`, `CloseSettles` for every client |
| `write_patient` | 5 chunks; habits `emptyChunk`, `drop`, 6 042 states | `NoUndefinedBehaviour`, `CompleteMeansWhole`, `CloseMeansComplete`, `EndSettles`, `FileReleased`, and `KeepsPromise`: the stream implements `Upload`, liveness included |
| `read_any` | files of 0 to 4 blocks, buffer of 2, every habit, 58 126 states | `ReceivedInOrder`, `EndMeansAll`, `NoReadAfterClose` for every client; `NoUndefinedBehaviour`, `ReadEnds` for a patient one |
| `calls_any` | 3 calls of exists, rename, setWorkingDirectory or getWorkingDirectory, 2 threads, setWorkingDirectory awaited, 124 814 states | `OwnException`, `Truthful`, `OneDirectory`, `Settles` |
| `lease` | 4 streams of 2 file systems | `Registered`, `JoinReturns`, `RenewsWatched` |
| `pipeline` | 3 datanodes, 2 replicas, 2 faults, a file of up to two blocks, 243 506 states | `AckedOnCounted`, `NoHole`, `WithinBounds`, `AssertionsHold`, `FlushMeansStored`, `NoSilentOrphan`, `CallReturns`, and `KeepsPromise`: the output stream implements `Upload` |
| `failover` | 2 threads, one of idempotent calls, 2 namenodes, 1 fault, 328 470 states | `AnswersReachTheirCalls`, `OnceUnlessStalled`, `CallsReturn`, no deadlock |
| `calls_text` | violation | a call answered with *false* is rejected with another call's error text (`hdfs.h:68`) |
| `calls_values` | violation | a failed getDefaultBlockSize, getCapacity or getUsed resolves to -1 (`nhdfs.js:281`, `297`), and truncate to null (`nhdfs.js:388`) |
| `lease_race` | violation | a file opened while the renewing thread leaves is never renewed (`Namenode.h:539`) |
| `pipeline_twice` | violation | a packet is written twice after a recovery, and the second ack costs a healthy datanode its place (`Pipeline.cpp:201`, `620`) |
| `rpc_forgotten` | violation | a call taken off the list before its answer is read is cancelled by nobody when the connection fails (`RpcChannel.cpp:368`, `788`) |

What the last two mean. In `pipeline_twice` nothing is lost: the recovery
reaches the same bytes with a datanode fewer, and `AckedOnCounted` holds of
those runs too. In `rpc_forgotten` the call does come back in the end, and
`CallsReturn` holds: its thread becomes the reader itself sooner or later and
times out; but that is the RPC timeout of an hour, begun anew with each answer
that it reads for somebody else.

**Bounds.** Two pool threads are enough for any two workers of a stream to
overlap, and three calls of close() (the client's, 'finish', an error) for the
first, the second and their ticks. Three chunks give one in flight, one
buffered behind it and one written late; a file longer than the Readable's
buffer makes it stop and ask again. In `FsCalls` three calls put two in a row
on one thread beside a third; the kinds of the run are those that differ in
their paths or their answers. In `LeaseRenewer` three streams of one client
give one closed while another is open and one opened after the last; the
fourth makes a round of two clients. In `OutputStream` a block of 10 units is
two full packets of two chunks and one of one chunk, so that the last packet of
a block is not a full one; 11 units begin a second block; a flush after 7 units
finds a chunk half full, and one after 0 finds nothing; three datanodes of
which two are in the chain leave one to add; two faults are a failure during
the recovery of another; and the pool of 2 packets, the smallest that works, is
full as soon as two are on their way. In `NamenodeProxy` two threads are one
that reads and one that waits for it, and one fault is a broken connection, a
timeout or an election in any state the two can reach; the safety properties
also held with two faults and a second round of the namenodes (`MaxRetry` 1).
`Ops`, `MaxTicks`, `Blocks`, `Call`, `Stream`, `MaxFaults`, `Limit`, `FlushAt`
and `MaxSeq` bound what is unbounded in the code and are marked *bound* where
they are declared.

**Deadlock checking** is on in `failover`, where idle threads always may call
again, so that a deadlock is two threads that wait for each other. It is off
elsewhere: a client may stop, and the specifications then stop with it. The
ways of waiting for each other that the other parts could have are stated as
properties (`JoinReturns`, and the liveness of every promise, stream and call).

**Fairness.** The event loop runs callbacks that are due and the pool runs
queued work: weak fairness on their steps. libhdfs3 returns in the end because
its calls time out. A reader that asked for data goes on taking it (needed by
`ReadEnds` only). The renewing thread runs on, and a join whose thread is gone
returns. A thread inside a method of the output stream goes on (`CallStep`), and
a datanode that lives receives what it is sent (`Delivery`). A thread inside an
RPC call goes on (`Acts(t)`; its waits are timed), and a namenode serves what it
receives. Nothing is assumed of the client, of the collector, and of faults,
which never have to happen.

## 4. Proofs

Every safety invariant that a passing run checks is also a theorem, for every
value of the constants: any number of chunks, blocks, threads, calls, streams,
datanodes, namenodes, retries and faults. Where a theorem has a hypothesis it is
named below. The two refinements of `Upload` are proved as far as their steps go.
Each section gives the inductive invariant and what its parts are needed for.

**Write stream** (`WriteStreamProofs`, `UploadProofs`, `PromiseProofs`).

* `TypeCorrect`: `TypeOK`.
* `WritesSerialised`: `OneWriteInFlight`, which is not inductive: a write parked
  on 'open' and one in the buffer are told apart by `writing`. `Serial` says that
  a Write worker in flight is that of the chunk the Writable waits for, and that
  the stream is open by then, so that 'open' cannot come again and queue it twice.
* `SuccessMeansStored`: `AckedStored`, from `Kept`: a worker whose result is
  success has its chunk stored.
* `NoMisuse`: `NoUndefinedBehaviour` for a client that has none of `emptyEnd`,
  `earlyClose`, `writeAfterError` and `dropFs` (the assumption `Patient`).
  `Calm` adds to `Serial` that close() is called only once the stream is open
  and nothing is being written, so that the Close worker is alone in the pool,
  and that the file system is there until Open has called back. The proof says
  why: without `emptyEnd`, end() before 'open' finds a chunk parked, and
  'finish' waits for it.
* `FinishIsTrue`: `FinishMeansStored`, and `InOrder`: `StoredInOrder`, both for
  every client. They need to know where each chunk is. `Entered` says who may be
  inside the native file, and that it is one worker at most until something is
  broken; `Accounted` that every chunk accepted is acknowledged, being written
  or in the buffer, in this order, unless an error has made the stream lose it;
  `Fails` that without an empty chunk a worker fails only when nothing more goes
  into the file.
* `CloseIsTrue`: `CloseMeansComplete`, and `CompleteIsWhole`:
  `CompleteMeansWhole`, under `Patient`. `OpenTold` and `Parking` fix what Open
  has left and which worker the chunk being written has; `Quiet` says that a
  patient client's stream is closed by 'finish' or an error, once; `Closing`
  that the Close worker then finds the file open.
* `StreamIsUpload`: the stream of a patient client starts as an `Upload` and
  every step is a step of one or leaves it alone. `Beginning` is what a step of
  appending needs: the chunks in the file are a beginning of those written.

**Read stream** (`ReadStreamProofs`).

* `TypeCorrect`, `InOrder` (`ReceivedInOrder`), `EndIsTrue` (`EndMeansAll`), for
  every client. `ReceivedInOrder` speaks of what was delivered only; the order is
  decided when a worker reads. `Counted` says that a Read worker in flight is the
  last one made and that the Readable waits for it, `Positioned` that the input
  stream is where the Readable is, but for the block which that worker holds,
  and `Numbered` that each block is where its number says.
* `ClosedIsClosed`: the action property `NoReadAfterClose`.
* `NoLockNeeded`: `NoUndefinedBehaviour`, that is, without a lock no worker meets
  another or an uninitialised `file` as long as the client is patient. The
  invariant is `Calm`: such a client closes when no Read worker is left.

**Calls** (`FsCallsProofs`).

* `TypeCorrect`, `ErrorsAreOwn` (`OwnException`), `PromisesAreTrue` (`Truthful`).
  `Answered` ties the way a promise was settled to the answer, and the text a
  call carries to its own exception: the text is set by the thread that throws in
  the very step that gives the answer.
* `DirectoryIsOne`: `OneDirectory` if `chdirUnawaited` is no habit. `Settled`
  says that a pending setWorkingDirectory has nothing pending beside it and that
  otherwise the directory is the one the client believes in.

**Lease renewer** (`LeaseRenewerProofs`). `TypeCorrect`; `JoinSafe`
(`JoinReturns`) from `Handover`: `stop` is true exactly while no thread is alive
that may want the mutex; `RegisteredAlways` (`Registered`) from `Counted`: the
counter of a client is the number of its open streams.

**RPC and failover** (`NamenodeProxyProofs`).

* `TypeCorrect`, where the bound on `reader[s]` says that `readMut` is a lock;
  `Locked` is what makes it inductive.
* `AnswersArrive`: `AnswersReachTheirCalls`. A call is on the list, or its answer
  is being read by one thread, or it is done, whoever shuts the connection down
  meanwhile: `Listed` and `Awaited`; `Carried` adds that what is answered was
  carried out.
* `CarriedOutOnce`: `OnceUnlessStalled`, from `Once`: without a stall nothing
  ends as `HdfsFailoverException`, and a call that was carried out, if it is not
  idempotent, is neither on its way to a namenode nor about to be sent again.

**Output stream and pipeline** (`OutputStreamProofs`).

* `TypeCorrect` and `NoOrphan` (`NoSilentOrphan`), from `Outer`. `Kinds` contains
  the grammar of `todo`: which step may follow which and which ends the list of
  each method (`Listing`), closed under taking a step, giving up, and the lists
  that methods begin with. `Bounded` says that a full block is being closed by
  the call that filled it.
* `AckedIsCounted` (`AckedOnCounted`) and `BoundsHold` (`WithinBounds`), from
  `Inner`. `Placed` and `Handed` tie the step the thread is at to the state of
  the connection and the packet in hand; `Numbered` says that a sequence number
  stands for one packet, so that the ack of a packet sent before a recovery
  means the same as that of its copy; `Queued` that `bytesSent` covers the queue
  but for the packet not yet written; `Stored` that the replicas of the
  namenode's stamp are those of the chain and hold what was acknowledged, and
  that those of the chain hold no more than was sent. Its part `Staged` is the
  heart: between the datanodes' new stamp and the namenode's (`update`) exactly
  the nodes of the chain have the new one, so that telling the namenode never
  makes a stale replica count.
* `NoHoleArises` (`NoHole`), from `Chained`: packets in the queue and on the
  connection overlap or touch, beginning at `bytesAcked`. It is kept by resending
  all of the queue, and lost by leaving one out.
* `FlushIsStored` (`FlushMeansStored`), from `Flow`: a pipeline that is being
  closed sends its last packet and goes (`Shut`); the packet in hand reaches as
  far as the units appended once it is sent (`Filling`); the queue reaches as
  far as the next packet begins, and what was flushed or closed has nothing
  outstanding (`Edge`); and the units passed are those of the closed blocks and
  the current one (`Tally`).
* `AssertionsAreTrue` (`AssertionsHold`), for `PoolSize >= 2`. `LastLeft` says
  that a recovery while the pipeline is being closed finds only the last packet
  in the queue. With a pool of one, which `SessionConfig.cpp:118` accepts,
  `send` waits for the ack of the very packet that it has yet to write, and the
  assertion of `processAck` fails (`Pipeline.cpp:733`); the hypothesis says so.
* `StreamIsUpload`: the output stream starts as an `Upload`, and every step is one
  of an `Upload` or leaves it alone. The step that matters is `Complete`: the
  length the namenode has agreed to is all that was passed to append(). `Spent`
  says that no more is in the file or on its way than was passed, and when
  close() has only `completeFile` left no less; it rests on `Even` (a packet
  ends where its chunks do), `Paid` (each append() but the one under way has
  succeeded), `Whole` (a call that ends a block leaves no chunk begun) and
  `Settled` (only close() completes a file).

The two theorems `StreamIsUpload` are how the layers meet: what `WriteStream`
takes for granted of the layer below is proved of `OutputStream`.

**Assumptions.** The theorems rest on the assumptions named in the modules that
declare the constants, all of which TLC evaluates on the runs:
`NativeAssumption`, `ReadAssumption`, `CallAssumption` and `LeaseAssumption`
(numbers are naturals, a stream has one client, a file has one Read worker per
block and one for the end); `ChannelAssumption` and `ProxyAssumption` (at least
one namenode); `ClusterAssumption`, `PipelineAssumption` and `OutputAssumption`
(at least one replica and one retry; a packet and a block are whole numbers of
chunks, as `computePacketChunkSize` and the check at `OutputStreamImpl.cpp:246`
make sure).

**Only model-checked.** Liveness (`CloseSettles`, `EndSettles`, `FileReleased`,
`ReadEnds`, `Settles`, `RenewsWatched`, `CallReturns`, `CallsReturn`) and the
fairness of `Upload`, because the prover has no means for fairness and ENABLED.
The runs that expect a violation are counterexamples, which need no proof.

## 5. Not modelled

* *Input stream and block readers*: one thread at a time that tries the
  datanodes of a block one after the other; `ReadStream` has what its callers
  see (a read gives the next block, the end, or an error).
* *Append mode* of the output stream (`initAppend`, `PIPELINE_SETUP_APPEND`):
  `FileWriter` opens with `O_WRONLY` only. Heartbeats are commented out in the
  source. `Flush`, `HFlush` and `Sync` of `FileWriter` (`filewriter.cc:80`) are
  called by nothing in `nhdfs.js`; what they would call is `Flushing` of
  `OutputStream`. Checksums, packet layout and block tokens carry no state.
* *RPC*: the cleaner of idle channels, which touches only a channel that nobody
  uses; pings; the SASL exchange; errors after which the server closes the
  connection; the end of the process. `NamenodeProxy::close` is not reachable
  while calls are made.
* *Lease renewer*: the destructor at process exit, and an exit of the renewing
  thread for want of memory.
* *File system client*: connect() and the canonical form of paths.
* Below the model: bytes that a reader has read ahead when its connection is
  closed (`BufferedSocketReader.cpp:98`), and the assertion of a Debug build on
  a socket closed by another thread (`TcpSocket.cpp:329`).
* The stubs, conversion of arguments, marshalling, authentication, encryption
  and configuration are pure functions or external exchanges; protocol buffers
  are generated.

## 6. Plan

Every safety property is proved; what is left is to model more:

1. The input stream's choice of datanodes (`InputStreamImpl`): which nodes are
   tried, when the located blocks are fetched again, and that a block with a
   live replica is read in the end.
2. `CanonicalizePath` against a reference definition of the path it means.

And to shorten the proofs: `ListTail`, `ListConcat` and the facts about the end
of a list could serve any specification whose processes carry a list of steps.
