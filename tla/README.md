# Camille in TLA+

Models, model checks and proofs of [Camille](../src/README.md), a header-only
C++23 HTTP framework on standalone asio. Its own code is about 1,800 lines under
`include/camille/*.h` and `src/camille.cc`; everything below
`include/camille/utils/` (asio, spdlog, json, httplib) is third-party.

The commit does not build as it stands: `infra.h:29-50` holds unresolved merge
conflict markers. The constants and `MethodEnum` that the parser uses are outside
the conflict, so the models read the rest of the code as it is written.

## The system

`Camille::Run` creates a `Server` and runs it. The `Server` owns a `ContextPool`
(one `io_context` and one thread per worker) and an acceptor on the first context;
each accepted socket is given the next context in turn and becomes a `Session`. A
`Session` reads up to a blank line, hands the bytes to a `RequestHandler`, which
runs a `Parser` over them and logs the result, writes back whatever else the buffer
holds, and reads again. Routers and middleware are declared but not yet called.

| component | state | operations | interacts through | what makes it correct |
|---|---|---|---|---|
| `parser::Parser` (`parser.h`) | `current_state_`, `used_`, `error_`, the cursor `rocky_`, `total_consumed_`; the message is a local of `Parse` | `Parse`, `SetUsed`, `GetErrorCode`, `operator bool` | called by the handlers | one message per parser; a returned message is complete and framed by its one valid length; every call returns; the recorded error is the returned one |
| `ValidateContentLength` (`parser.h`) | the accumulator | one call | called by `Parse` | accepts digits only, exactly, within the body limit |
| `Request`, `Response` | members written by `Parse`; headers as a list | setters, `GetHeader` | filled by `Parse`, printed by `Session` | `GetHeader` finds a header that occurs once |
| `RequestHandler`, `ResponseHandler` (`handler.h`) | a `Parser` | `Parse` | held by `Session`, copied into every read handler | empty unless the parser completed |
| `Session` (`network.h`) | `stream_buffer_`, the operation in flight, handlers | `Start`, `DoRead`, `DoWrite`, the two completion handlers | asio callbacks on the session's context | bytes handled once and in order; no head left behind; ends with the client |
| `Server` (`server.h`) | acceptor, pool, `state_` | constructor, `Run`, `StartAccept`, `SetState`, destructor | accept handler on context 0 starts sessions on others | every accepted connection is served; the loop goes on |
| `ContextPool` (`pool.h`) | contexts, work guards, threads, `is_running_`, `next_io_context_` | `Run`, `Wait`, `Stop`, `GetIOContext` | used by `Server`, threads run the contexts | one thread per context, run once, joined |
| `Camille` (`client.h`, `camille.cc`) | settings, the server | `Run`, setters, `AddRouter`, `AddMiddleware` | creates the server | no call before `Run` reaches a server that is not there |
| asio scheduler | queue, reactor task, work count, event, interrupter | `run`, `stop`, posting, `wake_one` | runs the handlers of every session | no wake-up lost; stops when told to or out of work, not before |
| asio epoll reactor | a descriptor's registered events, operations, speculation | `register`, `start_op`, `run`, `perform_io` | the scheduler's task | no edge spent while an operation needs it |
| asio streambuf, `read_until` | an array with offsets; the search position | `prepare`, `commit`, `consume`; the read loop | a session's buffer and its reads | the first delimiter; nothing lost |
| `LruCache`, `ConnectionManager`, logging, routing, DI | - | - | unused, stubs or output | - |

Hard behaviours: a parser that is called with parts of a message, or again; loops
that make no progress; arithmetic at the edge of `size_t`; TCP segmentation, since
what is done with the bytes behind a head depends on which read brought them;
resets and closes in the middle of an operation; an exception in a handler, which
ends the process; the order of construction, running, stopping and destruction of
server, acceptor and threads. `PROJECT.json` lists the hazards with their lines.

## Modules

| module | models |
|---|---|
| `Parser` | a `Parser` object and its client |
| `MCParser` | messages and their parts as inputs |
| `ParserProofs` | the proofs about `Parser` |
| `ContentLength`, `MCContentLength` | `ValidateContentLength`; all short texts, an 8-bit `size_t` |
| `ContentLengthProofs` | the proofs about `ContentLength` |
| `HandlerProofs`, `SessionProofs`, `ServerProofs` | the proofs about `Handler`, `Session` and `Server` |
| `SchedulerProofs`, `ReactorProofs`, `ReadUntilProofs` | the proofs about `Scheduler`, `Reactor`, `ReadUntil` and `StreamBuf` |
| `Handler`, `MCHandler` | `ReadHandler`, `RequestHandler` and `Parser` composed; every piece of two messages back to back |
| `Session`, `MCSession` | one connection: client, socket, buffer, operation in flight, process; streams of one to three heads |
| `ByteStream` | what a session promises about the bytes (abstract) |
| `Server`, `MCServer` | `Camille`, `Server` and `ContextPool` with their threads and clients |
| `Scheduler`, `MCScheduler` | asio's scheduler as an `io_context` of the pool uses it |
| `IoContext` | what an `io_context` promises (abstract) |
| `Reactor`, `MCReactor` | asio's epoll reactor for a session's descriptor |
| `StreamBuf`, `ReadUntil`, `MCReadUntil` | `asio::basic_streambuf` as operators; `async_read_until` on it |

They fit together in two ways. `Handler` EXTENDS `Parser` and checks that the outcome
`Session` takes for granted is the one the parser computes; `ReadUntil` uses
`StreamBuf`. And what one module assumes another one checks: `Session` assumes the
read of `ReadUntil` (the first delimiter, nothing lost), the completions of `Reactor`
(no event missed) and the handlers of an `IoContext`; `Reactor` assumes that a
`descriptor_state` is not queued twice, which is `DescriptorsDequeued` of
`Scheduler`; `Session`'s handlers share nothing and are not locked, which is safe
because of `OneThreadPerContext` in `Server`. `Session` implements `ByteStream` and
`Scheduler` implements `IoContext`, each by a refinement mapping (`Implements`).

### Parser

The input is a sequence of lexemes: what one of the `Parse...` helpers consumes or
rejects as a whole (a method word, a URI, a header line, CR, LF, a unit of body).
Which characters make a method or a URI is left out; which helper accepts, how far
the cursor moves, and what happens where the data ends are kept. Each `case` of the
`while` in `Parse` is an action, named like the state; `Field`, `FieldBad`,
`HostWithoutPort` and `FieldsEnd` are the loop in `ParseHeaders` and what `kHeaders`
does after it. `phase` says where the call stands, `dtype` is the local message and
is forgotten when a call returns anything but a message. Outcomes that are no
return value are states too: `HostWithoutPort` and an invalid length throw,
`Spinning` is a pass that changes nothing, and `phase = "overrun"` is the read of
`*end` in `ParseVersion` that found a slash, behind which nothing is known.

The client may call `Parse` with any input, call it again in any state, pass empty
data, and set the parser used. `calls`, `stale` and `completions` are history.
`kBodyChunked` is never entered (the code sets `kGarbage` right after it), so it is
a state without an action. `error_`'s codes that nothing sets are left out.

### ContentLength

One pass of the loop is one action and arithmetic is modulo `SizeMax + 1`. `exact`
is the number the text denotes, computed without wrapping, beside the program.

### Session

The stream is a sequence of units: start and end of a head, the end holding the
blank line `async_read_until` looks for, and units of body. `Receive` moves any
part of what has arrived into the buffer, so every segmentation occurs.
`ReadHandler` is the whole handler: parse, consume, start the write of all that is
left. `WriteHandler` is the completion of `async_write` (which consumes what it
wrote) with the handler's own `consume` and the next `DoRead`. Each read handler
has its own copy of a fresh `RequestHandler`, so a piece's outcome depends on the
piece alone: a whole head gives what `OutcomeOf` says of its kind, and anything else
is refused by `ParseMethod`. A head with one Content-Length is always refused here,
because the piece ends with the blank line and the parser wants the body. For a
refused piece the handler dereferences an empty optional: it either goes on or the
process terminates. A thrown exception terminates it. asio is modelled from its
source, as far as these two operations need it: `read_until` finds the first
terminator and keeps its search position across partial matches, `write` loops
until all is sent, and an empty write succeeds.

Assumed: a body holds no blank line of its own, and the tail of a head does not
begin with a method. Whether the client pipelines is chosen in `Init`.

The refinement mapping to `ByteStream`: sent is what is no longer in `toSend`,
handled is `log`, alive is an operation in flight, gone a client that closed or reset.
`ByteStream` says that units are taken up in order, each once, that a piece that is
parsed ends with the first end of a head, and that the session ends after its client.

### Handler

`Deliver` hands a piece to a handler with a fresh copy of the parser: any part of the
client's stream that ends with the first blank line behind its beginning, which is
every piece a session can cut. Then the parser's own steps run, and `Reply` is
`RequestHandler::Parse`'s three returns. `Expected` reads the outcome off the piece,
independently of the parser.

### Server

Variables are the members of `Camille`, `Server` and `ContextPool`; `main` and `step`
say where the owner's thread is, `worker[c]` where the thread of context `c` is. The
accept handler is three steps (its session, `is_open`, `StartAccept`), because the
destructor runs beside it: `stop()` on each context, `close`, the destruction of
`acceptor_`, and only then the join of `threads_`. An accept needs a descriptor
before it can wait for a connection, so exhaustion fails at once. Using the destroyed
acceptor, and `SetDebug` without a server, lead to `process = "undefined"`, behind
which nothing is known; an exception of the parser leads to `"terminated"`. Threads
that cannot be created, an address in use and a second `Run` are modelled, as is the
Run that an owner calls after another one has failed.

`state_` is a plain bool written by `SetState` and read by the accept handler: a data
race. The read's value goes to a session that never uses it, so the model has no
variable for what was read, and either value gives the same behaviours.

`next_io_context_` is kept modulo the number of contexts. That loses only its wrap at
2^64, where the rotation shifts once.

### Scheduler and IoContext

What is done under `mutex_` is one step, and so are the signal after the unlock, the
change of the work count before the lock, a handler, and `epoll_wait`. `Turn` is one
round of `do_run_one`'s loop; `task_cleanup`, `work_cleanup`, the private queue and
the private count of work are there, as is the compensation for a
`descriptor_state` that performed nothing. Condition variables wake spuriously. Both
ways of completing at once are there, posted and as a continuation of the handler that
runs. `IoContext` is the promise: an operation is completed at most once, by a thread
that runs the context; the context stops when told to or out of work and not before;
a thread returns only then.

### Reactor

One `descriptor_state` through successive connections: registration, edges that are
reported once, operations tried speculatively and then left to wait, `EPOLLOUT`
registered by the first write that waits (when `epoll_ctl` fails, that write completes
with the error), short reads and writes, FIN, RST, and the state that returns to the
pool while still queued with the events of the connection before. The session at the
other end reads and writes in turn and closes after an error, as `Session` does. When
the first registration fails, the accept does, and there is no connection; so
`registered_events_` is never 0 when an operation starts.

### StreamBuf and ReadUntil

The array and its three offsets with `prepare`, `commit` and `consume`, the memmove
and the growth of `reserve` included, and the composed read operation with its search
position and the size of its next read.

## Runs

| run | question | bounds | distinct states |
|---|---|---|---|
| `parser` | safety and `Returns` for any client | 18 messages, all their prefixes and suffixes, 3 calls | 37,883 |
| `parser_stale`, `parser_contested_length`, `parser_partial_body` | a sentence of the source against the code, see Findings | 1 to 3 messages, 1 to 2 calls | |
| `content_length` | all properties of the loop | texts up to 4 characters, `SizeMax` 255, limit 40 | 63,570 |
| `content_length_wrap` | is an accepted length the number written | texts up to 3 | |
| `handler` | is the outcome that `Session` assumes the parser's | 19 messages first, 3 second, every piece | 1,402 |
| `session` | conservation, fresh reads, whole heads for a client that waits, refinement of `ByteStream`, liveness | 1 or 2 heads of 3 kinds with 0 or 1 unit of body, or 3 heads; pipelined or not | 12,816 |
| `server` | threads, accept loop, undefined behaviour, repeated and failed `Run`s, liveness | 2 clients, 1 descriptor, pools of 1 and 3 | 235,864 |
| `scheduler` | task, work count, wake-ups, refinement of `IoContext`, liveness | 2 threads in `run()`, 1 outside, 1 socket, 2 operations | 187,953 |
| `reactor` | is an edge ever spent on nothing | 2 connections, 3 bytes received, room for 2, writes up to 3, reads of 2 | 9,434 |
| `read_until` | the first delimiter, the buffer's content, its limit | 7 bytes of buffer, all streams of 5 bytes and of 9 of CR and LF | 64,730 |

Why the bounds are enough. The parser's behaviour depends on the state at the
beginning of a call and on one message: three calls reach "cut, resumed, called
again after the end", and the messages reach every branch (TLC reports every action
taken). A width of 8 bits has the same edge as 64: `255 \div 10 = 25` and the
digits 6 to 9 after `25` wrap, as those after `1844674407370955161` do. Between two
reads of a session nothing is kept but the buffer, and three heads allow two of
them behind the first in one segment. With one descriptor the second client is the
one that meets exhaustion; a pool of three has a context that the accept loop does not
run on and that is not the acceptor's neighbour, a pool of one puts everything on one
thread. The pool gives each context one thread; the second one in `scheduler` is
there for `IoContext`, since wake-ups are lost, if at all, between two threads. Two
operations allow one to be queued while the other is executed. Reads of two from
three bytes are short and full in turn; writes of three into room for two have to wait
with the descriptor exhausted. A buffer of seven is smaller than two delimiters and
lets the array move and grow before it is full.

`CHECK_DEADLOCK FALSE` is set everywhere: a client may stop calling, a text is
answered once, a session ends, a server is destroyed.

Fairness. `Parser`: weak fairness of the parser's own step, since the calling thread
runs `Parse` to its end. `ContentLength`: of the loop. `Session`: of the session's
steps, since a thread runs its `io_context` and, for `WriteSome`, the client is
assumed to read while it is connected; the code has no timeout that would bound
that. `Server`: weak fairness of each thread's handlers and of what the owner is in
the middle of, and strong fairness of the session handlers in context 0, which share
a thread with an accept loop that may spin on errors: the context's queue is FIFO
with the reactor in it, so a session that is ready is not passed over for ever
(`Scheduler` has that queue). A client that was accepted sends a request.
`Scheduler`: each thread in `run()` gets the mutex and its handlers return; outside
threads finish a post or a stop that they have begun. `Reactor`: the context's
thread polls, performs and runs the session. No client is ever obliged to connect,
send, read, close or reset, and no owner to call anything.

What they show:

- Whatever a client does, one `Parser` returns at most one message
  (`OneTransaction`), never reads the uninitialised `content_length_`
  (`LengthKnown`), and what it returns has a host (`HostKnown`) and the body its one
  valid Content-Length announces, no Transfer-Encoding standing alone beside it
  (`Framing`; several may, see Findings). On a first call it also has its whole
  request line, and the cursor has passed that line, the fields, the blank line and the
  body, nothing more or less; the only heads that pass without their blank line are
  those whose data ends behind a field or its line (`FirstCallComplete`). A rejection
  has a cause, and the recorded code is the returned one but after `kPartialMessage`
  (`Diagnosed`), which is returned without being recorded.
- Every call returns (`Returns`) except when it spins or overruns; a first call
  spins only in `kBodyIdentify` (`FirstCallSpin`). A piece of a session reaches
  neither (`NeverStuck`), and gets the answer that `Session` assumes (`Answered`).
- An accepted Content-Length is exact when it fits `size_t` (`AcceptedExact`), no
  admissible one is refused (`RejectedTooBig`), and one accumulator alone lets a
  digit wrap (`WrapsOnlyAtTenth`).
- A session handles every byte once and in order (`Conservation`, `Implements`),
  starts each read on an empty buffer (`FreshRead`), drops the connection only after
  the client did (`Implements`) and then always does (`SessionEnds`), and leaves
  no head behind (`HeadsHandled`). "Handled" includes being written back unparsed:
  with pipelining or bodies the fate of a byte depends on segmentation. Without them
  every head is parsed whole (`PacedIntact`).
- A context never has two threads (`OneThreadPerContext`), the accept loop is always
  alive while the acceptor is open (`AcceptLoop`), through failures for want of
  descriptors, and lets clients in once descriptors remain (`Accepted`); accepted
  connections are served, in whatever context (`Served`). A `Run` that failed to
  create a thread, or `SetDebug` before `Run`, is the only way to undefined behaviour
  (`UndefinedOnly`): the destructor that follows such a `Run` destroys the acceptor
  beside a worker. Otherwise the destructor always ends (`DestroyEnds`).
- The scheduler runs its task with every descriptor out of the queue
  (`DescriptorsDequeued`), keeps an exact count of work in three places
  (`WorkCounted`), loses no wake-up (`NoLostWakeup`), and so completes what is ready
  (`Performed`) and returns once stopped (`RunReturns`).
- No edge is spent while an operation that needs it waits (`NoMissedEvent`), also
  when a recycled `descriptor_state` brings stale events, and a reset closes the
  connection whatever it is doing (`ResetNoticed`).
- `async_read_until` announces the first delimiter however it was cut
  (`FirstDelimiter`), keeps the content intact through moves and growth (`Intact`),
  and asks for no byte that `prepare` would throw on (`NeverThrows`).

A session never sends a response; the only bytes it writes are the ones left behind
a head. That is how far the framework has come, and no property asks for more.

## Findings

Each is a run that must find its property violated.

1. `parser_stale`: `parser.h:411-415`. `kReady` sets `kGarbage` for a used parser and
   then `kMethod`, so `kStaleParser` (`error.h:15`, "one parser per transaction") is
   never reported. No second message comes out all the same: `kComplete` is final.
2. `parser_contested_length`: `parser.h:491` and `parser.h:506`. `GetHeader` answers a
   field that occurs twice as if there were none. Two Content-Length fields: the
   message is returned without a body. One Content-Length and two Transfer-Encoding
   fields: the message is returned, framed by its length. `parser.h:18-20` says to throw,
   never to guess, and to prevent request smuggling. TLC stops at the first kind; with
   `MessageSet = {"plain", "twoEncodings"}` the same run shows the second. (A message
   with a Transfer-Encoding and no Content-Length is returned without a body as
   well, since `kHeaders` looks for the length only: `encoding` in `MCParser`.)
3. `parser_partial_body`: `parser.h:530`. A body cut short loops for ever in place of
   being reported as partial.
4. `content_length_wrap`: `parser.h:100`. From `max / 10` a digit above `max % 10`
   wraps: `18446744073709551619` is accepted as 3.

Seen while modelling, without a run of their own: after `kPartialMessage`
(`parser.h:398`) the parser remembers its state but not the message, so the completing
call returns one without method and path; `pool.h:47` says that `Wait` comes before
the "listening at" log, and `server.h:41-45` logs first; `SetDebug` before `Run`
writes through a null pointer (`client.h:46`); a `Host`
without a port makes `Parse` throw `std::length_error`; an invalid Content-Length
makes it throw `bad_expected_access` although an error was recorded; a head that
ends behind a field is taken for complete; `Host` is matched in any case for the
host and exactly for the check that it exists.

## Proofs

`ParserProofs`, `ContentLengthProofs`, `HandlerProofs`, `SessionProofs`,
`ServerProofs`, `SchedulerProofs`, `ReactorProofs` and `ReadUntilProofs` prove every
safety invariant, every action property and both refinements that the passing runs
check, for every value of the constants that the named assumptions allow. Those
assumptions say that inputs and streams are sequences of the right elements, that the
special values (`Error`, `Task`, `NoOp`, `Blank`, `NotFound`, ...) are not ordinary
ones, and that bounds are natural numbers, positive where the code needs something to
be there: a growth of the streambuf, a size of a read, one descriptor for the
acceptor. TLC evaluates each of them in the runs. None of the models' bounds is a
number in a proof: streams, pools, threads, operations, connections and sizes are
arbitrary.

None of the invariants of `Parser`, `Handler`, `Session`, `Server`, `Scheduler`,
`Reactor` and `ReadUntil` is inductive as the runs state it. What each needed beside
it says how the code keeps its promise:

- `ParserProofs`: `IInv` adds `Machine` (which states go with which phases, where the
  cursor has data before it, that a call in progress has no outcome), `Length` and
  `Validation` (what `kHeaders` and `kBodyValidation` established before
  `kBodyIdentify` runs, which is why the body cannot be read with an unknown length,
  and which a resumed call cannot fake because its message is empty), `Hosts`,
  `NoBodyYet`, `Once`, `Returned` and `FirstCall` (how far the first call has come
  says what its message holds, and `Position` how many lexemes the cursor has passed in
  each state, from which the consumption in `FirstCallComplete` follows). `StepType`
  needs `Length` and `Machine`, the reason why types and invariant are proved together.
- `ContentLengthProofs`: `Congruent`, and `WrappedStep`: a digit may be read before or
  after wrapping.
- `HandlerProofs`: `HInv` says at which position of the piece the machine stands in
  each state and what the lexemes in front of it are (`Place`), that the fields
  of the message are those lines in order, each with a host that could be parsed
  (`FieldsRead`), and that the terminator ends
  the piece and nothing before it (`Terminated`). With the answer read off a finished
  piece (`Over`) it gives `Answered` and `NeverStuck` for all streams, not those of
  the run.
- `SessionProofs`: every part of a connection (log, buffer, socket, unsent) holds its
  own stretch of the stream (`InOrder`), the stretches are adjacent, and together they
  are the stream, or less after a reset (`Amount`). `Conservation` follows, and each
  step maps to a step of `ByteStream` or to a stutter (`Refinement`). `FreshReads`
  is an action property from the same invariant. A client that waits is never more
  than one head ahead of the session (`HeadAhead`), which is why the piece that is cut
  is that head and nothing is left to write back (`PacedHeadsIntact`).
- `ServerProofs`: `Phases` (which server and pool go with each place of the owner's
  thread), `Spawned` (contexts before `step` have their thread, the others none) and
  `Settled`: unless a thread could not be created, none is left when `Run` has
  returned or the destructor works. That is the reason why `UndefinedOnly` has just
  two ways, and it is a theorem of its own (`NoThreadLeft`).
- `SchedulerProofs`, in three stages. `IInv` says where the task is and what is queued
  behind it (`OnePoller`, `TaskQueued`, `Kept`), that an interrupted poll ends
  (`Interrupts`), that the event is signalled whenever there is something to find
  (`Signalled`), and that while the task is blocked somebody is coming to the queue
  (`PollerCovered`); with it come `DescriptorsAreDequeued` and `NoWakeupIsLost`. `WInv`
  adds that an operation is in one place at most (`Once`), that a thread has a private
  queue and count only from its handler to the lock that hands them over (`Own`) and
  that all sets are finite, so that sums of counts are cardinalities of
  disjoint sets: `WorkIsCounted`. `RInv` adds `Funded`: each unit of work that a thread
  has counted privately stands for an operation it keeps, or is the one it made up for
  a descriptor that performed nothing. Then a count of zero means that nothing is left
  (`NoWorkIsLeft`), which is the step of `Refinement` that is not obvious:
  `IoContext` may stop only without work.
- `ReactorProofs`: an operation is tried at once unless the socket was exhausted
  (`ReadTried`, `WriteTried`), and a write that waits has `EPOLLOUT` registered and the
  socket knows that a send wanted room (`WriteWaits`); so the edge that it needs is
  still to come (`NoEventIsMissed`, `ClearedWritesCome`).
- `ReadUntilProofs`: the offsets are in order and the bytes between them were written
  (`Sound`), the read in flight has room (`Prepared`), and no match starts before the
  search position, not even a partial one at the end of the data (`Searching`). The
  lemmas `PrepareKeeps`, `CommitAppends` and `ConsumeTakes` say what the streambuf's
  operations do to its content, through moves and growth.

Each invariant was checked with TLC on the instance of its run before it was proved.
Each step of a preservation proof is one action of the model, with a case for each
conjunct that it can disturb.

Only model-checked is liveness, which this prover does not reach: `Returns`,
`SessionEnds`, `HeadsHandled`, `Accepted`, `Served`, `DestroyEnds`, `Performed`,
`RunReturns` and `ResetNoticed`. So are the properties that must be found violated.
Nothing is proved about asio's own operators outside these modules, and what one module
assumes of another (see Modules) is an argument in this file, not a theorem.

## Plan

1. Done: the modules above, their runs, and the proofs of all their safety properties
   and refinements.
2. Open: to state as theorems what holds between modules, `Session` over the
   read operation of `ReadUntil` first; more actions of what is "partly" modelled in
   `PROJECT.json`.
3. Possible: a run for `parser.h:398` (resumed calls).

## Not modelled

`LruCache` (never instantiated; the hit path of `put` does not compile for ordinary
types, and its test file is empty), `ConnectionManager` (one unused atomic counter),
routers, middleware and DI (declarations), response parsing apart from what it shares
with requests (never called), a `Camille` that is moved, log output with `TrimPath`,
and the wrap of `next_io_context_`.

Of the 240,000 lines under `include/camille/`, all but 1,800 are third-party and most
of them are never reached: JSON, httplib and spdlog's formatting, and asio's timers,
signals, resolvers, serial ports, SSL, coroutines and platforms other than Linux with
epoll. The models cover the parts of asio that carry a connection: scheduler, epoll
reactor, socket operations, streambuf, `read_until` and, within `Session`, `write`.
