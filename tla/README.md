# Verification of cpp-epoll-tcp-server

TLA+ modules, TLC runs and TLAPS proofs about the server under `src/`: one IO thread on an
edge-triggered epoll, a pool of worker threads, two blocking queues between them, the
handlers with their counters and access log, and the JSON library the handlers use. The
modules are translated from the C++ code, not from its documents. Section 5 lists where the two
disagree: five disagreements have a run that shows them, the others were noticed while reading.

All commands run in this directory: `tlc -config X.cfg M` for a run, `tlapm M.tla` for a
module of proofs. `PROJECT.json` lists the runs, the lines each definition stands for, the
hazards, and for every property a slip in the code that would break it.

## 1. The system

| Component | State | Operations | Interacts with |
|---|---|---|---|
| `TcpServer` (`src/src/net/TcpServer.cpp`) | `connections_` by descriptor (`conn_id`, `input_buffer`, `output_buffer`), `next_conn_id_`, `running_`, listening and epoll descriptors, worker threads, two queues | `start`, `loop`, `handleAccept`, `handleRead`, `decodeAndEnqueue`, `handleWrite`, `drainResponseQueue`, `modifyConnectionEvents`, `closeConnection`, `stop`, the worker's loop, the SIGINT handler | clients through sockets and epoll; workers through the queues; `StatsManager` |
| `BlockQueue<T>` (`src/include/concurrent/BlockQueue.hpp`) | `q_`, `stop_`, `mtx_`, `cv_` | `push`, `pop`, `Try_pop`, `stop`, `size` | all threads of the server |
| `ProtocolCodec` (`src/src/protocol/ProtocolCodec.cpp`) | none; works on a buffer | `encode`, `decode` | the IO thread's input and output buffers |
| `Dispatcher`, `Handlers` | none | `dispatch` and one handler per message type | called by workers; read `StatsManager`, write `LogStorage` |
| `StatsManager` | counters | increments, decrement, getters | IO thread and workers |
| `LogStorage` | `m_ofs`, a stream with a buffer, the file behind it, `m_mutex` | construction by the first `getInstance`, `append` | workers |
| nlohmann json (`src/include/nlohmann/json.hpp`) | lexer: the byte put back, position, token buffer; parser: stack of states, references into the value; serializer: a buffer; reader: the current byte | `parse`, `dump`, `to_cbor`/`from_cbor` and four more formats, pointers, `patch`, `diff`, `merge_patch`, comparison | `handleLogPush` calls `parse` and looks at the type and three members of the result; the server calls nothing else of it |
| `SocketUtil`, `Logger`, `main` | – | `setNonBlocking`, log lines, start-up | – |

How a request travels: the IO thread reads bytes into `input_buffer` until `EAGAIN`, decodes
whole frames and pushes one `Request` per frame, tagged with the descriptor and the
`conn_id` of its connection. A worker pops it, dispatches it and pushes a `Response` with
the same tag. The IO thread pops responses after each batch of events (at the latest after
`epoll_wait`'s timeout), looks the descriptor up, drops the response if the connection is gone
or has another `conn_id`, else appends the encoded response to `output_buffer` and asks for
`EPOLLOUT`.

What is hard, and hard to test:

* **Reuse of descriptors.** A response may come back after its descriptor was closed and
  given to another client; an event in the current batch may be for a descriptor that an
  earlier event closed.
* **Edge triggering.** An edge is reported once. Each handler has to go on until `EAGAIN`,
  and registering has to report what is pending already.
* **Condition variables.** Lost, stolen and spurious wake-ups; stopping while a thread is
  between its test and its wait.
* **Failing system calls** in a handler that has done a part of its work; `accept` may fail for
  any reason and ends the loop that accepts.
* **Stopping** while requests are queued, with workers, or on their way back; SIGINT at any time.
* **Streams cut anywhere**, also behind or within an invalid frame.
* **Counters without a lock**, of which a STATS answer reads five one after the other.
* **A log that several workers append to**, in two pieces per record, of which a long one goes
  to the file at once, over full disks, files that do not open, and crashes.
* **Bytes put back, buffers flushed half way, numbers at the bounds of a width** in the JSON
  library, and documents that are edited by operations of which one may fail.

What makes each component correct is stated in its module of properties, and the hazards are
listed line by line in `PROJECT.json`.

## 2. The modules

| Module | Models |
|---|---|
| `ClosableQueue` | what `BlockQueue` promises, as operators on a record: `Push`, `Pop`, `Stop`, ... |
| `QueueSpec` | the same as a state machine in which each call of each thread takes effect in one step: the abstract specification |
| `BlockQueue` | the class itself, one step per lock, test, wait, append, notification and unlock, with spurious wake-ups |
| `MCBlockQueue` | instance for TLC, with the refinement mapping as the property `Linearizable` |
| `BlockQueueProofs` | proofs about `BlockQueue` for any threads, items and bound |
| `Network` | not code of the repository: clients, the two directions of a connection, the backlog and an edge-triggered epoll, as far as the server's system calls show them |
| `TcpServer` | the server: one step per system call of the IO thread, one per queue operation of a worker, and the signal |
| `ServiceSpec` | the abstract specification of the server for one client: it asks, whole responses are put on its stream, it reads, the connection ends |
| `TcpServerProps` | its type invariant, safety and liveness properties, and the refinement of `ServiceSpec` |
| `MCTcpServer` | instances for TLC |
| `TcpServerProofs` | the inductive invariant of `TcpServer`, with the proofs of its types, tables, events and drained stop, that no client reads another one's answers, that no edge is lost, no output left without `EPOLLOUT` and no waiting client overlooked but for an error of `accept`, that streams are whole responses, that every request is in one place, and that `ServiceSpec` is implemented |
| `ProtocolCodec` | `encode` and `decode` on bytes, fed with a stream cut in pieces, with its properties |
| `ProtocolCodecProofs` | proofs of these properties for streams and pieces of any length |
| `Induction` | induction and recursion over natural numbers and over data of a size, as lemmas about sets; for the proofs about the codec, the lexer and the parser |
| `DurableLog` | the abstract specification of the access log: records are added once and never go away, and only what is there is acknowledged |
| `LogStorage` | the stream, its buffer, its mutex and the file, as actions that `Business` composes |
| `Business` | `dispatch`, all handlers, all counters, the two byte counters of the IO thread, and crashes |
| `BusinessProps` | its type invariant and properties, with the refinement mapping to `DurableLog` |
| `MCBusiness` | instances for TLC |
| `BusinessProofs` | proofs about the log, the counters and the answers of `handleStats` |
| `JsonGrammar`, `JsonLexer`, `JsonLexerProps` | what a number is (RFC 8259), the lexer with one step per `get()`, its properties |
| `JsonTextProofs` | what the lexer's own proof needs of texts: numbers by the labels of `scan_number()`, UTF-8 by its table of bytes, strings by what may still come of their beginnings |
| `JsonLexerProofs` | the inductive invariants of `JsonLexer`, with the proofs of both its properties |
| `JsonValues`, `JsonParser` | values, the parser with one step per token and the consumers of its events with and without a callback |
| `JsonSyntax`, `JsonParserProps` | the grammar over types of tokens and what the parser makes of it (`Verdict`); what values it builds |
| `JsonParserProofs` | the inductive invariant of `JsonParser`, with the proof of `Verdict` |
| `JsonDump`, `JsonDumpProps` | the serializer: strings byte by byte, integers and values as functions |
| `JsonNumbers`, `JsonBinaryReader`, `JsonBinaryWriter` | 64-bit numbers and floats as their bytes; CBOR, MessagePack, UBJSON, BJData and BSON as functions from bytes to values and back |
| `JsonBinary`, `JsonBinaryProps` | a value that is read from one format and written in another, and what must be kept of it |
| `JsonPointer`, `JsonPatch` | JSON pointers with the four ways to follow them, `flatten` and `unflatten`; comparison, patches, `diff`, `merge_patch` |
| `JsonDocument`, `JsonDocumentProps` | a value that its owner edits by these operations |
| `MCJson` | the instance for TLC of all parts of the library, one at a time |

An operator whose name ends in `Wrong` is a slip the definition after it could contain (a
dropped guard, a missing step). Nothing uses it; putting its body in place of the definition
must make a property fail, which is how it is known that the property says something.

### BlockQueue

A thread's `pc` runs through the statements of the call it is in: waiting for the mutex,
holding it, waiting on the condition variable. `Entry` is the first statement of a call;
`PopWait`, `PopReady` and `SpuriousWake` are `cv_.wait` with its predicate; `NotifyOne` moves one
waiter, chosen freely, to the mutex and does nothing when there is none; `StopNotify` moves
all. The mutex is not fair. `MaxCalls` bounds how many calls are made in all.

`QueueSpec` is linearizability stated as refinement: the abstract queue is the
detailed one's `q` and `stopped`, and a thread's abstract outcome appears at the step where
its call takes effect under the mutex, and goes when the call has returned.

### TcpServer over Network

The IO thread's `pc` says where it is: in `epoll_wait` (`wait`), in the loop of
`handleAccept`, `handleRead` or `handleWrite` for the event at the head of `batch`, in
`drainResponseQueue` (`drain`), or in `stop`. Each step is one system call with what the code
does up to the next one; between two steps clients, workers and the signal may do anything. Two things are one step
though they make several calls: `Accept` (`accept`, `epoll_ctl(ADD)`, the insertion and the count) and
`closeConnection` (`epoll_ctl(DEL)`, `close`, the erasure and the count). In between only the IO thread could see the
tables differ, but for the count, which a STATS answer may read a moment early or late.

* A stream is a sequence of units. A request is two units, so that a read can end inside it;
  a response is `RespLen[n]` units; frame number 0 is one with an invalid `body_length`.
  A unit carries who sent the request and its number, which stand for `request_id` and
  payload; the server looks at neither.
* The codec appears as `Decoded`, `Rest`, `Invalid` and `Encoded`; `ProtocolCodec` justifies
  them on bytes.
* The queues are records of `ClosableQueue`; `BlockQueue` with its refinement justifies that a
  call is one step. Responses of a worker and pushes of the IO thread are separate steps; the
  pushes of one `decodeAndEnqueue` are one step, since the IO thread does nothing
  else in between and workers take items from the other end.
* `Faults` lists the system calls that may fail for no reason of a client's: then
  `epoll_ctl(ADD)` turns a client away, `epoll_ctl(MOD)`, `recv` and `send` close the connection,
  `accept` ends the loop of `handleAccept` with clients in the backlog (`AcceptFails`, which also comes without
  a descriptor left), `epoll_wait` ends the loop. When `epoll_ctl(MOD)` fails after the last `send`, what was sent
  is with the kernel and the client may read it (`SendRestClose`); when `send` fails, nothing of it is (`SendFails`). `Faulty` are the requests whose dispatch throws.
* A peer that reset is seen as an error of `send`; unread input can still be received, then
  `recv` fails. A client that half-closes is treated as gone, as in the code.
* `Accept` leaves the descriptor free to choose: the kernel gives the lowest one,
  which is one of the choices. `connections_.insert` does not overwrite (`Insert`).

`ServiceSpec` is what all this comes to for one client, with no descriptor, event, queue or
worker left. `ImplementsService` says it of every client: `stream` is what the client has read, what is
in the socket and what is in `output_buffer`, in this order; `asked` counts what was sent to its end; and
the connection is `ended` when the server has closed it or the client has reset it. A response may take
any way through the queues, workers, the buffer and partial sends, and its descriptor may have been another
client's: for this client it is one step, `Answer`, in `drainResponseQueue`; for all others it is none.
The specification does not say why the server ends a connection, nor that it ever answers: the former is in the actions
of `TcpServer`, the latter is `EveryRequestAnswered`.

### ProtocolCodec

Frames are byte sequences with a length field in front; the sizes of the fields are
parameters, the check of `body_length` keeps its unsigned arithmetic. `Iteration` is one round of the loop of
`decode`, `From(buf)` the recursive function that gives, for each offset, what the loop does from there on
(the messages put out, the status and `read_index` at the end), `Loop` its value at offset 0. Numbers are read and
written digit by digit by recursive functions too (`Value`, `Bytes`). The run feeds every
stream of bits up to a length, cut in every way.

### Business over LogStorage

A worker's `job` says what it has and how far it is: each access to something that another
thread can see is a step of its own, with what the handler does to its own request and
response up to the next one. `handleLogPush` goes through `log` (the first one constructs the
`LogStorage`, which may fail to open its file), `lock`, `text`, `end`, `flush`, `unlock` and `ack`;
`handleStats` through one load after the other, in the order of the source (`Loads`).

* A request is its kind, which stands for its payload: `LOG` is a record, `INVALID` is empty, too
  long, no JSON or no record, `RANGE` is JSON with a number that overflows a double, so that
  `parse` throws what `handleLogPush` does not catch.
* The IO thread counts bytes received before it queues a request, and bytes sent after `send`;
  a message is one unit.
* A record is written to the stream in two pieces, its text and the end of its line. What the stream does with
  them is libstdc++'s (g++ 11, which the repository documents): `std::filebuf` keeps a piece of less than 1024 bytes in its buffer
  until `flush`, and writes a longer one to the file at once. `handleLogPush` takes payloads of up to 4096 bytes, so that both
  happen; `Long` are the requests with a long text (`Direct`). A crash between the two pieces of a long record leaves its text in the file
  without an end, and the next process appends its first record to it, on the same line.
* `Store` writes all there is to write, or, when the disk is full, a part of it, after which the stream is
  bad. `append` looks at `is_open` only, as the code does.
* `Crash` may come between any two steps: file and acknowledgements stay, all else begins
  anew. `acked`, `given` and the `seen` of a request are history variables; no action reads them to decide anything.

### The JSON library

`JsonLexer`, `JsonParser` and the string part of `JsonDump` are state machines, because the
code is one: what is right depends on the byte that was put back, on the stack of states and on when the
buffer was flushed. Their input is chosen step by step, so that TLC sees every text up to a
length. Pure functions of the code are operators: integers, the tree
walk of `dump`, the binary formats, pointers, patches.

* Each property compares with a definition that is not the code's: `Meanings` says what
  the bytes between two quotes stand for, `IsNumber` what a number is, `IsValue` (by `Grammar`) and `Meant` what a sequence of
  tokens is and means, without a stack.
* `BeginsValue` and `BeginsNumber` say what may still become one, which is how a refusal that comes too soon
  or too late is noticed.
* An "add" below a scalar comes to `JSON_ASSERT(false)` (`NeverReached`). What happens then is up to the build, so `ndebug` is either:
  with assertions the process ends (`Abort`; the document is gone, and another process makes its own), with `NDEBUG`
  the "add" is done, has added nothing, and the patch goes on.
* A 64-bit number is eight bytes, so that widths and signs are those of the code (`JsonNumbers`). The
  decoding of half and single precision floats is done on their bits.
* In `MCJson` the variable `unit` says which part is running; the others stay where they begin.
  The library is sequential and its parts share no state: the composition that matters, dump after
  parse and writing after reading, is made inside a property (`DumpFaithful`, `RoundTrip`).
* All properties but `Verdict` are conjunctions, whose parts have names and comments of their own in the module.

## 3. The runs

| Run | Checks | Bounds |
|---|---|---|
| `queue` | `TypeOK`, `NoLostWakeup` (items and sleepers are never left alone together unless somebody awake will see to it), `NoSleepAfterStop`, `Linearizable` (the refinement of `QueueSpec`), `NobodyStarves`, `CallsReturn` (every call, once the queue is stopped) | 3 threads, so that a waker, a thief and a sleeper meet; 2 items, 4 calls, 1 spurious wake-up |
| `responses` | `TypeOK`, `NoCrossTalk`, `StreamIntact`, `NothingLost`, `GracefulDrain`, `ImplementsService` (the refinement of `ServiceSpec`) | 2 clients of 2 requests, 1 descriptor (so it is reused), 2 workers (so responses overtake), a send buffer of 1 (so sends are partial), responses of 1 and 2 units against an output limit of 2 (so the limit strikes) |
| `events` | `Mirror`, `EventsAreCurrent`, `OutArmed`, `NoLostEdge`, `NoLostClient` (who waits in the backlog has an edge to come, until an error of `accept` takes it), `EveryClientReached` (and is accepted, turned away or closed in the end) | 2 clients with a descriptor each, batches of 2 events, and every system call of `loop` and its handlers may fail at any time, but `close` |
| `live_requests` | `EveryRequestAnswered`, `DeadConnectionsClosed` (of clients that left and of clients that sent an invalid frame), `ShutdownCompletes` | 1 client of 3 requests of which the second throws, 2 workers |
| `business` | `TypeOK`, `AckedWritten`, `LinesWhole`, `ImplementsDurableLog` (the log), `StatsPlausible`, `StatsCurrent`, `CountersAgree` (the counters), `RequestsEnd` | 2 workers, 3 requests of any of 5 kinds (two records and a STATS, or three records that overlap), of which the first and the third have long texts and the second a short one, 1 crash, a file that may not open |
| `json` | by part: `WholeTokens`, `NothingSkipped` (lexer); `Verdict`, `BuiltAsMeant` (parser); `WrittenIsRead` (serializer); `BytesExact` (binary formats); `PathsExact`, `PatchesExact` (documents) | below |
| `codec_stream` | `Lossless`, `PiecesDoNotMatter`, `Prompt` | every stream of up to 16 bits (a digit is a bit, a length field 4 of them, so that lengths are too short, valid and too long), in every cut into pieces of up to 7 bits; two messages fit |
| `sigint`, `emfile`, `cutoff`, `log_ack`, `throw` | see *Disagreements* | the smallest instance that shows it |

Why these bounds are enough to be interesting: every action and every disjunct of the
next-state relations fires in some passing run, and for every property a slip of the code is
known that makes it fail within the same bounds.

The bounds of `json`:

* Lexer: five alphabets, each with every byte that one part of it tells apart (the classes of
  UTF-8 with their bounds; escapes; numbers; blanks and comments; byte order mark and literal),
  in every order up to 6 to 8 bytes, and 15 for escapes, where a pair of surrogates needs 12.
  `MaxUnsigned` and `MaxInteger` are 15 and 7 in place of 2^64-1 and 2^63-1, so that numbers of
  two digits overflow; the comparison is the only thing they occur in.
* Parser: every sequence of up to 9 tokens, with two keys (so that one is repeated) and one
  scalar, and nested containers of both kinds; the callback rejects nothing, or one or two kinds of event, key or value.
* Serializer: strings of up to 4 bytes from each class of UTF-8 and each bound between classes; a
  buffer of 16 in place of 512 bytes, with the same 13 bytes of reserve, so that it is flushed before
  and within a character. Integers around every power of ten and all up to 1100.
* Binary formats: every sequence of up to 3 to 16 bytes (the first ones fixed where a format has a
  header) from those a format tells apart; and written values with every number around the bounds
  of each width, floats of each kind, strings and containers around the bounds of each length.
* Documents: up to 3 values in a document that any sequence of operations can make,
  from every operation with every pair of a few pointers, good and bad ones; targets of
  every type, with keys that need escaping and keys that look like indices.

`LinesWhole` says what the file looks like: every end of a line comes right after the text of its own record, and
there is at most one text without an end for each crash, and one for the worker that is about to
write it. `ImplementsDurableLog` maps the abstract log to the records whose lines were ended (`Records`), each of them once: a torn text is none of them.

`PathsExact` compares `contains` with `at`: they find the same, and `contains` throws in two cases only, at a token
that meets an array and is empty or is an index no `size_t` holds. `PatchesExact` says of operations that throw that nothing has changed,
or, of a "move", that exactly the value it had taken out is missing; of an "add" below a scalar what each build
does; and that `diff` finds nothing exactly between equal documents.

The deadlock check is off for the server (it ends when `stop` has returned, and
clients need not do anything), where calls or requests are bounded, and where an input comes to its end.

### Fairness

* Queue: weak fairness of each thread's steps other than calls and spurious wake-ups. A
  `std::mutex` promises no more than that some thread gets it; with the number of calls bounded every
  holder lets go in the end and no thread can overtake another for ever, so weak
  fairness of each thread is enough and strong fairness is not assumed.
* Server: weak fairness of the IO thread and of each worker, that is, the operating system
  runs every thread that can run, and `epoll_wait` returns, at the latest by its timeout. Clients are
  assumed to read what they are sent; without that a server owes nobody an answer. No fairness
  for requests, resets or SIGINT.
* Business: weak fairness of the IO thread's steps and of each worker. `m_mutex` is not fair, but a
  worker holds it for a few steps, and requests are bounded. Nobody has to send, and no crash has to come.
* JSON: none; only safety is stated.

## 4. What is proved

### BlockQueue (`BlockQueueProofs`)

For any set of threads, any items and any bound on calls:

* `TypeCorrect`, `Exclusion`: the type invariant and mutual exclusion, which the other proofs rest on and no run
  checks on its own.
* `Refinement`: the class implements `QueueSpec`, which is `Linearizable` of the run.
* `StopWakesAll`: nobody sleeps through a stop, `NoSleepAfterStop`.
* `WakeupsSuffice`: no wake-up is lost, `NoLostWakeup`.

The inductive invariant `IInv` is the type invariant, mutual exclusion and, for each `pc`, what the
statements before it have established about the queue (for instance that a thread about to take
an item holds the mutex and the queue is not empty). Without the last part the refinement
fails at `Take`, which would have no item to give.
`StepNoSleep` adds that a sleeper with the stop flag set has the notifier still
to come, `StepNoLostWakeup` that sleepers and items never outnumber the threads on their way
to them; the latter counts threads and uses the finite-set theorems.

### TcpServer (`TcpServerProofs`)

For any clients, descriptors, workers, batch and buffer sizes, lengths of responses, requests that throw and system
calls that fail. The assumptions are those the modules name, `NetworkAssumption`
and `ServerAssumption`: the numbers are naturals, the listening descriptor is no client's, the
sets of clients, descriptors and workers are finite, there is a worker, and responses, batches and send
buffers are not empty.

* `TypeCorrect`, `CurrentEvents`. The inductive invariant `IInv` has four parts:
  `TypeOK`; `Tables` (`connections_`, descriptors and interest list have one domain); `Batch` (the
  IO thread is in a handler exactly while there are events left, at the one the first
  event asks for, and no two events are for one descriptor); and
  `EventsAreCurrent`. They need one another. That an event is current survives the closing of
  another event's connection only because no two events share a descriptor. `handleRead`'s use
  of an iterator is justified only because the event at hand is current. And that `epoll_wait`
  reports only descriptors in `connections_` is what `Tables` says.
* `TablesAgree`. `Counted` adds that the count of active connections is the size
  of the table; each step that inserts or removes changes both.
* `DrainedAtTheEnd`. `Draining` says that a worker that has exited saw the queue
  stopped and empty, after which nothing can be pushed, and that the IO thread is past `Join`
  only when all have exited.
* `OwnAnswersOnly`. What `drainResponseQueue` compares is descriptor and `conn_id`; what has to be
  shown is that these then belong to the client that asked. `Talk` says so: each direction of a connection
  and both its buffers hold units of that client only (`Wires`, `Buffered`), `conn_id`s in use
  are below `next_conn_id` (`Fresh`), and a message in either queue or with a worker
  is `Tagged`: if a connection answers to its tag, it is the sender's. `Fresh` keeps a new connection
  from answering to an old message.
* `OutputArmed`. With `Registered` (`EPOLLIN` is always asked for) the statement is
  inductive over `IInv`. `Registration` lists the steps that change a registration or an output at all.
* `EdgesKept`. Clients put a descriptor on the ready list when they make it readable or
  writable (`ClientsEdges`); the server's own steps make nothing readable or writable (`Calm`); and
  a step takes an event from the batch only at `EAGAIN`, when the socket is not ready
  for it, or with the connection (`StaysDue`, `Follow`). `Registered` and `OutArmed` are needed where edges arise and are reported
  (`ClientsEdges`, `WaitEdges`): a descriptor is readied and its event carries `EPOLLOUT` only if that
  is asked for. `DrainAppend` makes output where there was none: `epoll_ctl(MOD)` then readies
  a writable socket.
* `ClientsNoticed`. `NoLostClient` says of every step that whoever waits in the backlog keeps an edge to come, unless the step is an
  error of `accept`, which ends `handleAccept` with the backlog as it is (run `emfile`). It is proved for all descriptors, clients and
  failing calls: a step takes the listening socket's event from the batch only when the backlog is empty or `accept` failed, and
  a client that comes readies the socket. `BacklogWatched` concludes that without such errors nobody is ever overlooked: with no
  fewer descriptors than clients, and `"accept" \notin Faults`, `Awaited` holds always. `Sockets` (every client has at most one
  descriptor, and who waits in the backlog has none) leaves a free descriptor for who waits, by the pigeonhole principle.
* `WholeStreams`, `NoRequestLost`. One invariant for both, `FInv`, over `IInv` and `Talk`. `Flow` keeps an account per
  connection: there is a `d` such that the first `d` requests of the client were decoded and the rest is in
  the input, in order (`Incoming`; behind an invalid frame the input may hold anything), that each of the first `d`
  is counted once over the request queue, the workers, the response queue and the stream (`Onward`), or was dropped with
  an exception or a reset (`Excused`), and that nothing of the others is further than the input. `Whole` says that each
  client's stream (what it has read, what is in the socket and what is in `output_buffer`, in this order) is whole
  responses in order without a repetition, and ends with one as long as more may be appended. They need each other:
  that `drainResponseQueue` never appends a response twice is an account of `Flow`, and that an answered request is counted
  once is `Whole`. `Unserved` says that a client begins with nothing read and all it sent still there,
  `Stops` that the queues are stopped only when there is no connection left, so that no push is refused that an
  open connection would miss. Connections that share a descriptor one after the other are told apart by
  `conn_id` through `Talk`.
* `ServiceImplemented`. The refinement: for any client, every step of `TcpServer` is a step of `ServiceSpec` or a stutter.
  `StreamStep` divides the steps of the server by what they do to one client's stream: nothing (accepting, sending and
  reading move units within it), a prefix is left (the client resets, or its connection goes), or the response that is
  popped is put behind it. In the last case `FInv` gives what `Answer` asks for: the response is
  to a request that was wholly sent and has no answer (`Unanswered`), and by `Talk` it is to this client. In the second case the
  connection has to be over: `Owned`, the converse of a part of `Sockets`, says that an open connection has a descriptor, so
  one that lost its descriptor is closed (or was never accepted, and its stream is empty). `StaysOver` and `Silence`
  are the rest: nothing revives a connection, and only the client itself asks and reads.

### Business (`BusinessProofs`)

For any workers, kinds of request, requests and crashes, under `LogAssumption` and
`BusinessAssumption`:

* `TypeCorrect`.
* `LinesStayWhole`, `AcknowledgedIsWritten` and `LogRefines` (the log implements `DurableLog`,
  which is `ImplementsDurableLog` of the run) while writes do not fail: `"write" \notin Faults`. Run
  `log_ack` shows that this hypothesis is needed. Texts may have any length, and `Long` is any set. The inductive invariant says that at most
  one worker is between `lock` and `unlock`, which pieces are in the buffer and at the end of the file at each of its steps
  (`Buffered`, by `Begun` and `Kept`: a long text is the last piece of the file, a short one is in the buffer), that a
  record that was not yet written is nobody else's, and that a worker at `ack`
  has its record in the file. `AddText`, `AddEnd` and `AddLine` say what each way to write does to `Ended`, `Torn`, `Whole` and `Records`; the
  number of torn texts is bounded by counting crashes and the one worker in `Tearing`. `Records` is a recursive
  function, of which `RecordsUpto` shows that it exists and satisfies its equation, by `Recursion` of `Induction`.
* `AnswersArePlausible`, whatever fails: `Tally` says where every request that was counted is (in the queue, with a
  worker that has yet to count its outcome, or done), `Snapshots` what the loads made so far
  have in common with the counters by now. It is the order of the loads in `handleStats` that makes `Snapshots`
  inductive.
* `AnswersAreCurrent`, `CountersAddUp`, whatever fails. `LInv` adds four parts to that invariant: `Distinct` (no request is in two
  places), `Outcomes` (a worker that has not come to its answer would refuse), `Balance` (the answers that were given,
  those on their way and those a worker is about to make are together what the counters say; `sent` differs
  by the message that is not counted yet) and `Current` (what a client had received when it sent
  a request has been counted, and each load of a STATS answer saw it). `Balance` is what a crash resets as a
  whole and what makes `CountersAgree` follow when nothing is on its way; `Current` needs it, since a client's
  `seen` is compared with what was given, and a load with a counter.

### ProtocolCodec (`ProtocolCodecProofs`, `Induction`)

For any base, sizes of the fields and of a payload, and streams and pieces of any length, under `CodecAssumption`:
a byte has at least two values, and the longest message has a length that `body_length` can hold (in the
code 4 + 4 MB + 10 and 2^32 - 1).

* `NothingOfTheStreamLost`, `CutsDoNotMatter`, `NoMessageWaits`: `Lossless`, `PiecesDoNotMatter` and `Prompt` of the run.

The definitions recurse over data, and the induction theorems of the library cannot be instantiated. Induction is therefore made
over sets: `Reaches` says that a set of numbers up to `n` that contains 0 and with each number the next one contains `n`, because a finite set
has no injection onto a part of itself (`FS_Injection`); `Upwards`, `Downwards` and `Recursion` (a function
defined from its value before exists) follow. With them:

* `BytesOfValue`: a number written with as many digits as it was read from has the same digits.
* `EncodeParse`: what `decode` makes of a complete message, `encode` makes it of again. `Fits` is where the assumption on
  sizes comes in: no sum wraps.
* `Unfold`: `From(buf)` satisfies its own equation, which holds since `Iteration` looks at later offsets only (`Local`).
* `Decodes`: the messages put out from an offset on, encoded, are the bytes up to `read_index`, where nothing complete stands.
* `Passes`: decoding goes the same way in a buffer and in the longer stream of which that is a part.

The inductive invariant `DInv` says of an open connection (`Open`) that the buffer is the end of the stream, from an offset
`p` on; that the requests, encoded, are the first `p` bytes; that at `p` stands no complete message and no invalid
length; and that, *whatever still comes*, decoding it all from the start would put out the requests and go
on from `p` (`Ahead`). The last part is what makes the invariant inductive: without the bytes to come nothing could be said of
the next piece. `Piece` is the step.

### JSON lexer (`JsonTextProofs`, `JsonLexerProofs`, `Induction`)

For texts of any length and any kinds of input (which bytes, with comments or without), under `LexerAssumption`: bytes are below 256, and a
digit fits an unsigned number (`MaxUnsigned >= 9`; the run has 15, the code 2^64 - 1).

* `NothingSkippedHolds`: `NothingSkipped` of the run. The inductive invariant `LexerInv` has three parts. `TextOK`: what is put back
  was read. `Located`: the position is that of the bytes read and not put back, and the column is exact but for a line feed that was put
  back. `Gaps`: what lies before the token or comment at hand, or up to the last byte, can be cut into blanks and comments (`GapOK`),
  the tokens told end within the bytes that are read for good (`TokensOK`), and at each place in a comment or in the byte order
  mark the text is what that place stands for (`CommentOK`, `BomOK`). Without `CommentOK` the byte that is
  put back in `/***/` could close a comment at its own beginning; without `TokensOK` a byte put back could be in two tokens.
* `WholeTokensHolds`: `WholeTokens` of the run, in both directions: what is told is right, and what is refused begins nothing. `WholeInv` adds
  `ToldOK` (the tokens told so far) and `Hand`, what the token at hand is by now: the beginning of a number in the shape of its label
  (`NumberOK`), the beginning of a literal with the rest of it expected (`LiteralOK`), or a quote and a text (`StringOK`).

What is true of the beginning of a token has to decide what every continuation means; that is what `JsonTextProofs` is about:

* Numbers. `IsNumberAt` puts the grammar in terms of places. `Shape` says for each label of `scan_number()` what was
  read before it; `ShapeAppend` follows the jumps, `ShapeNumber` says that a number is complete exactly at the labels where the code lets it
  end, `ShapeEnds` that where the code has no jump no number goes on, whatever follows.
* UTF-8. `WellFormed` is arithmetic: decode and encode again. `WellFormedSpells` and `SpellsWellFormed` show it to be the
  table of bytes that the standard gives, `TailLengths` that `next_byte_in_range()` is given that table.
* Strings. `MeaningsAre`: the recursive function `Meanings` exists and satisfies its equation, by `WellFounded` of `Induction`, since a rest of a text is
  shorter. `Unambiguous`: a text begins with one character at most. `Reads(p, c)` says that *wherever* a text begins with `p`, `p` stands for `c`;
  `Dead(r)` that no text begins with `r`. `StringOK` cuts what is read into `P` and `r` (`Cut`): `Reads(P, B)`, where `B` is the
  token buffer (but for the bytes of a character at hand), and `r` is the beginning of a character, an escape or a pair of surrogates, in the form that `pc`,
  `expected` and `codepoint` give it (`Partial`). Each byte either makes `r` longer, or complete (`CharReads`, `UnitReads`, `PairReads`), or hopeless
  (`Hopeless`, from which `DeadWhere` concludes). `Reads` quantifies over all continuations, which is why no induction over the text is needed.

`Induction` adds to the lemmas named above `WellFounded`: an equation that gives the value at an argument from the values at
arguments of smaller size has a solution.

### JSON parser (`JsonParserProofs`, `Induction`)

For any scalars and strings, and texts of any length and nesting. `VerdictHolds`: `Verdict` of the run, that is, a text is accepted exactly when
it is one value, and refused at the first token that no JSON text has there. The grammar (`Grammar`, `Beginning` of `JsonSyntax`) knows no stack, and the
parser (`sax_parse_internal()`) knows nothing but its stack, so the invariant has to say what a stack stands for.

* A *language* is a set of sequences of types of tokens. `Expects(open, L)` says that `L` is what follows a value that ends inside the containers `open`: nothing
  at all if there are none, otherwise a bracket and what the containers around expect, or a comma and another item (`Behind`). The
  languages of the containers form a chain from the outermost one inwards (`Chain`).
* `Rest(place, L)` is what follows at each place of the loop: behind a comma, where a key must come, where an array may still be empty, and so on.
* The invariant `InvParser`: the sequences `e` that make a value of what was read, followed by `e`, are *exactly* those of `Rest(at, L)` (`Reading`). In one direction it
  says that nothing is accepted in vain, in the other that nothing is refused in vain.
* A step reads a token `u`: the sequences of the new rest are those that, with `u` before them, are in the old one (`Onward`). There is one lemma for each place
  (`OnValue`, `OnFirstElement`, `OnKey`, ...), about languages only, and one for each action, which adds what the action does to the stack.
* `ParserReads` is the invariance. For `Verdict` there remains that what can be completed is what `Beginning` says: `CutBegins` in one direction, by cutting
  the sequence (`ValueCut`, `MemberCut`, `ListCut`), `BeginsCompletes` in the other, by completing it; both by induction on the length, where the
  contents of a container count for more than an item of the same length.

`GrammarIs` and `BeginningIs` say that the two recursive functions exist and satisfy their equations (`WellFounded`), and `ValueForms`,
`MemberForms`, `ListForms` restate them without indices.

### Only model-checked

* Liveness under fairness, which the prover does not reach.
* `EveryClientReached` of `events`, a liveness property; its safe half is `NoLostClient`, which is proved.
* `BuiltAsMeant` of the parser: `Meant`, the value that a sequence of tokens stands for, builds nested values by a `RECURSIVE` operator.
* Most of the library's own functions (`dump`, the binary formats, pointers, patches: `WrittenIsRead`, `BytesExact`, `PathsExact`, `PatchesExact`), which
  are `RECURSIVE` operators over nested values, of which the prover can say nothing.

## 5. Disagreements between the code and what is said of it

| Run | The code | What says otherwise |
|---|---|---|
| `sigint` | the handler is installed before `initServer()`, and `start()` sets `running_ = true` after it: a SIGINT in between is lost | `src/README.md:142`: Ctrl+C shuts down gracefully |
| `emfile` | `accept` failing for lack of a descriptor, or for any other reason, ends the loop as `EAGAIN` does; the edge does not come back, so a client waits although a descriptor is free again, until another connects | `src/README.md:92`: all pending connections are accepted at once |
| `cutoff` | the limit on `output_buffer` counts the response itself: a legal ECHO of more than 2 MB cuts off a client that has read everything | `src/README.md:113`: the limit is for slow clients |
| `log_ack` | `append` returns true without a look at the stream: when the disk is full the client gets a LOG_ACK for a record that is not in the file | `src/docs/protocol.md:138`: a failed write is answered with status 500, "log write failed."; `:94`: LOG_ACK comes after the record was written |
| `throw` | an exception of `dispatch` leaves a request without any response | `src/docs/protocol.md:123`: a request that cannot be handled gets `ERROR_RESP` |

Noticed while reading, without a run of their own:

* `DecodeStatus::OK` is never returned; a caller that waited for it would wait for ever. The
  only caller does not.
* `body_length` may be up to 4 MB + 10, since the maximum is added to the fixed part, while
  `src/docs/error_handling.md:37` says 4 MB + 1 is refused.
* `version` is read and never compared with anything.
* The bytes of frames that stand before an invalid one in the same buffer are decoded and then
  dropped with the connection; had they come in a read of their own they would have been answered.
* Responses of one connection come in the order in which workers finish, while
  `src/scripts/test_sticky_packet.py:68` expects the order of the requests.
* The answer to PING has the payload `{"status":0,"message":"pong"}`; `src/docs/protocol.md`, 4.1, says it is empty.
* The answer to an unknown type is an ERROR_RESP that is not counted in `total_errors`.
* In one STATS answer `total_logs` and `total_errors` together may exceed `total_requests`, since they are loaded
  later; they never exceed what the byte counter loaded after them covers (`StatsPlausible`).
* A record with raw line feeds makes several lines of the log. A failed write, or a crash between the text and the end of a record of
  1024 bytes or more, leaves a torn line, to which the next run of the server appends.

In the JSON library (the server only parses with it: all but the first two of these concern code it never runs):

* A NUL byte ends the input of `parse`, whatever follows it, and a line comment.
* After a line feed was put back, the column is 0: an error at a number directly before a line feed is reported there.
* With a callback, discarded members may be left in an object, since `end_object` erases one of its parent's only. The
  server uses no callback.
* An "add" below a scalar reaches `JSON_ASSERT(false)`, although `json.hpp:24092` says that a parent cannot
  be primitive: the process ends, or with `NDEBUG` the "add" counts as done; a "remove" there does nothing. A "move" that finds no place for
  its value throws after it has taken the value out, which `patch_inplace` leaves so and `patch` does not.
* `operator[]` of a pointer may turn a null into an empty array and then throw.
* `contains` of a pointer throws `out_of_range`, 404 for an empty token at an array (the text "/") and for an index that `strtoull` cannot
  read, 410 for one that no `size_t` holds. Its comment (`json.hpp:14379`) lists none of these but `parse_error` 106 and
  109, which it never throws: an index that begins with 0 or is no number gives false.
* `dump` with an indentation of more than 1024 blanks reads past the end of `indent_string`, which has 512 and is doubled once.
* An unsigned number above the largest signed one equals a negative one under `==`, so equality is not transitive.
* `unflatten` takes a key "0" for an index, and empty containers become null.
* The BSON reader checks neither the size of a document nor the end of a string; a CBOR length of all ones is taken
  for an indefinite one; an object of BJData that looks like an array of one row is read back as a plain array.

## 6. The plan

Done: the queue with its refinement and proofs; the server with proofs of all safety properties its runs check, and of its refinement of `ServiceSpec`;
the codec with proofs of its properties; the handlers, the counters and the log with their refinement and proofs of
all their safety properties; the JSON library's lexer with proofs of both its properties, its parser with a
proof of what it accepts and refuses; its serializer, binary formats and documents, which are model-checked.

What is left:

1. **What the parser builds.** `BuiltAsMeant` needs `Meant` as a recursive function, as `Grammar` is now, and an invariant that says of
   the stack of references which parts of the value are complete.
2. **Failures the models leave out** (see below), should the code come to handle them.

## 7. Not modelled, and why

* Failures inside `initServer()`: the process ends before there is any concurrency.
* `SocketUtil`: two calls of `fcntl` on a descriptor that was just opened. Sockets of the model are non-blocking.
* `Logger`: nothing reads what it writes.
* A thread constructor that throws in `start()`: nothing catches it, and the process is terminated.
* Of nlohmann json: `indent_string`, from which `dump` copies its indentation: it is long enough up to 1024 blanks per
  level, since it is doubled at each level that needs it, and not beyond; the digits of floats (Grisu2) and the value `strtod` makes of them; input adapters for wide
  characters and files; conversions to and from C++ types, initializer lists and iterators; user-defined
  consumers of events; counts above 2^30 in binary formats. They are sequential, and
  what they compute is arithmetic or template code, which TLC has nothing to say about. To `TcpServer` the library is what may throw
  (`Faulty`), to `Business` what tells `LOG`, `INVALID` and `RANGE` apart.
* The scripts: clients for manual tests; the clients of `Network` do all they do.
* Memory and time: the queues and buffers have no limit in the code; bounds in the models
  (`MaxReq`, `MaxCalls`) are bounds on what clients and callers do.
