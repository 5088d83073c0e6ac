# A TLA+ model of the multi-threaded web server

The repository is a small HTTP/1.0 server in C: a main thread accepts
connections and a fixed pool of worker threads serves them. This directory
models its concurrent core, checks it with TLC and proves its safety with
TLAPS. Line numbers refer to the sources under `src/`.

## The system

| part | state | operations | interacts through |
|---|---|---|---|
| request queue and thread pool (`server.c`) | ring `buffer`, `size`, `front`, `rear`, `dequeueing_size`, one mutex, conditions `not_full` and `not_empty` | `main`'s accept loop, `enqueue`, `dequeue`, `finishHandling`, `worker_thread` | shared memory under the mutex; descriptors handed from main to a worker |
| server log (`log.c`) | growing text `buffer`, `size`, `capacity`; `lock`, `readers_cond`, `writers_cond`; counters `readers`, `writers`, `waiting_writers` | `get_log`, `add_to_log` with their four lock functions | called by every worker |
| request handler (`request.c`) | the counters of each thread (`Threads_stats`), locals of a request | `requestHandle`, `requestError`, `requestServeStatic`, `requestServeDynamic`, `requestServePost`, `append_stats` | the client's socket, the log, files, a forked CGI child |
| buffered input (`segel.c` `rio_*`, `requestReadhdrs`) | `rio_buf`, `rio_cnt`, the line being read | `rio_read`, `rio_readlineb` | the client's socket |
| system call wrappers (`segel.c`) | none | a system call each; a failure ends the process (`unix_error` calls `exit(0)`) | everything |
| client (`client.c`), CGI program (`output.c`) | none | send a request and print the answer; print a header and a page | sockets, the environment |

What is hard about it:

- **Two counters, one ring.** `size` counts the requests that wait *and* the
  ones being handled; `dequeueing_size` only those in the ring. The bound and
  the wakeups of main rest on the first, the ring indices on the second, and a
  request leaves them at different moments.
- **A test before the use.** Main waits for room, gives the mutex back, stamps
  the arrival and takes the mutex again in `enqueue`.
- **Single signals.** Each of the four conditions is mostly signalled once, for
  one sleeper, and other threads may get the mutex first.
- **A log that is read without its lock.** Readers are only counted in; a
  writer may free the buffer. A writer keeps the lock while it writes, so the
  next writer cannot yet say that it waits.
- **Order of effects.** Response, log entry, `Close` and `finishHandling` come
  in this order, seen by clients and by other workers.
- **Input in pieces.** The network, `rio_buf` and the line buffer cut the
  request at different places, and the client may stop anywhere.
- **Processes that share.** A forked child has every descriptor of the server
  and its unflushed output; a script may be stopped, killed or fail to start.
- **Failure is exit.** A wrapper that fails ends the process in the middle of
  everybody else's requests.
- **No timeout.** A client that stays silent, stops inside its headers or does
  not read its response takes a worker and its place in the queue for ever.
- **What is not looked at.** The result of `Rio_readlineb` in the headers, the
  status of `WaitPid` and the content of what `printf("%s")` prints are not.
- **Arrays that outlive a request.** `method` and `uri` are not initialised,
  and `requestParseURI` writes into its caller's array.

The hazards of `PROJECT.json` list these at their lines.

## Modules

| module | role |
|---|---|
| `AdmissionQueue` | abstract: connections are admitted, dispatched oldest first and completed, never more than `Capacity` at once |
| `RequestQueue` | `server.c`: implements `AdmissionQueue` |
| `AtomicLog` | abstract: an append-only sequence with atomic append and read |
| `ServerLog` | `log.c`: implements `AtomicLog` |
| `LogPriority` | `ServerLog` with a history variable: the writers a write made wait |
| `RequestHandler` | `requestHandle` of several workers, with their counters, responses and the log |
| `RequestHistory` | `RequestHandler` with a history variable: what was closed when a connection was dequeued |
| `RioReader` | the line reader under `requestHandle` and `requestReadhdrs` |
| `RequestLine` | `sscanf`, `requestParseURI` and `requestGetFiletype` over the request lines of one thread |
| `CgiChild` | `requestServeDynamic` with its processes: fork, `output.c`, signals, `WaitPid`, the exit of the server |
| `WebServer` | the composition: `AdmissionQueue` around `RequestHandler`, with main |
| `Exchange` | `client.c` and the worker that answers it, over a socket, with the end of the server process |
| `RequestQueueProofs`, `ServerLogProofs`, `RioReaderProofs`, `ExchangeProofs`, `RequestLineProofs`, `CgiChildProofs` | theorems about the module of that name |
| `RequestHandlerProofs` | theorems about `RequestHandler`, `RequestHistory` and `WebServer` |
| `FlattenSeqProofs` | lemmas about sequences of texts, for the reader, the exchange and the request line |
| `MC*` | instances for TLC |

An operator marked `MUTANT of X` is `X` with a plausible bug in it. No
specification uses it: putting it in the place of `X` has to break the property
`PROJECT.json` pairs it with, which shows that the property depends on that
line of the code.

### RequestQueue

A critical section is the step that takes the mutex (`RoomLock`,
`EnqueueLock`, `DequeueLock`, `FinishLock`), the steps inside, and the release
in the last of them. `enqueue` and `dequeue` are cut in two inside the section
(the slot, then the indices), so that a wrong use of the ring outside of the
mutex would show. `pthread_cond_wait` is `WaitForRoom`/`WaitForRequest`
(release and sleep in one step), leaving the set of sleepers by a signal or by
`SpuriousWake`, and `WakeForRoom`/`WakeForRequest` (take the mutex, go back to
the test). `pthread_cond_signal` picks any sleeper. Main waits for room at
two places with the same code; `RoomWaits` names both.

A connection is its number in the order of acceptance, which makes order and
identity visible; `open` holds those whose descriptor is not closed. `Handle`
is all of `requestHandle`, which touches none of this state.

### ServerLog

The same grain. `get_log` reads `size` three times and the buffer once, each in
a step of its own without the lock (`AllocSnapshot`, `CopySnapshot`,
`SizeSnapshot`); `log_start_write` keeps the lock and `log_end_write` gives it
back, so everything between them is inside the critical section but still cut
in steps, because a reader does not need the lock to read. The heap block is a
function on offsets; `Malloc` fills it with `Junk`, `Grow` copies `size` bytes
and not the terminator, as the code does. A byte outside of a block reads as
`Junk`.

### RequestHandler

A request is what `requestHandle` tells apart: nothing read, no such file, not
a readable regular file, an empty file, a file that vanishes between `stat` and
`Open` (`gone`: the wrapper ends the process, `alive` becomes false and nobody
takes another step), a static file, a script, a POST, another method, and the
three clients that keep their worker for ever (its `pc` is `lost`): `silent`
sends no request line and does not close; `cut` stops inside its headers, and
the worker stays in `requestReadhdrs` whether it closes (see `rio_spin`) or not;
`deaf` asks for a file the socket cannot hold and does not read it. When a
script's `WaitPid` returns, the script is done and has written its page, has
failed without one (killed, or `Execve` did not find it executable), or is
stopped (`RunScript`); the worker does not look which, and logs. A stopped
script may go on at any later time (`ContinueScript`). `CgiChild` has the
processes behind this in detail. A text is a sequence of lines, and a line
says which line it is; the `Stat-*` lines of a response are one record with the
thread, the connection (in place of the times) and the counters. One step is
everything up to the next moment another thread can notice: reading and
counting, writing the response, running the script, appending to the log,
copying it, closing. `add_to_log` and `get_log` are atomic here, which
`ServerLog` justifies (`ImplementsAtomicLog`). `RequestHistory` remembers what
was closed when a connection was dequeued, the order that clients can confirm
to each other.

### RioReader

The client sends its stream in pieces of any size and may close; a `read`
returns any part of what arrived that fits into `rio_buf`; `rio_readlineb`
takes it byte by byte. The uninitialised `buf` of `requestReadhdrs` is the
blank line (the stack of an earlier request) or something else. `polls` counts,
modulo two, the reads that returned 0, so that reading for ever is a behaviour
of its own and not the end of one. The headers end at the line that is CR LF:
the first blank line of the stream, or what is left of a line whose first
`MAXLINE - 1` characters filled the buffer right before its CR LF.

### Exchange

`client.c` at one end (`Connect`, `Send`, then `clientPrint` line by line), a
worker at the other. The worker reads the request, passes the texts of a
response to `Rio_writen` one after the other, and closes; `rio_writen` writes
what the socket has room for (`WriteSome`) until nothing is left
(`WriteReturns`). A client may be interrupted at any moment (`Leave`). A write
to a client that is gone is taken by the kernel or ends the server process, by
SIGPIPE or by the `unix_error` of `Rio_writen` (`WriteToNobody`), and with the
process all its connections end. Closing a connection while bytes of the
request are unread resets it (`Reset`), which ends the client's read with an
error: a GET is read to its end, of a POST only the first line is. A response
is a sequence of texts of characters, of which `\r`, `\n` and NUL mean
something. The client reads lines that its buffer cuts (`MaxLine` is `MAXBUF`)
and prints each up to its first NUL (`CString`), all but the blank line; `taken`
is what it read, `head` and `body` are what it printed of it. (The words
"Header: " and "Length = " it prints in between are left out.) Responses that a
script completes are `CgiChild`'s.

### RequestLine

One thread handles one request line after the other (`RequestHandle`). A URI is
a sequence of symbols, a run of letters being one of them. The arrays `method`
and `uri` are locals that nobody initialises; what a line with too few words
leaves in them is what the thread's last request left there. This is what the
build produces, not what C promises: every call of `requestHandle` has its frame
at the same place of the thread's stack, and `uri` lies 40 KiB down in it, below
what `dequeue`, `Close` and `finishHandling` reach. The stack of a new thread is
zeros. `unparsed` remembers whether some GET has parsed the array since a
client's URI got there: `requestParseURI` cuts the arguments off, but a POST
does not call it, so that after `POST /output.cgi?secret` a bare `GET` line runs
the script with these arguments. `Remaining` is the write of `requestParseURI`
into its caller's array. `RequestParseURI` and `RequestGetFiletype` are
operators on sequences; `ServedIsAsked` says what they must satisfy without
computing it the same way: what was taken apart, put together again, is the URI.

### CgiChild

Processes are the server (its number is 0) and one child for each connection.
`holders` says which processes have a descriptor of a connection open: for the
client the connection ends when nobody has. `Fork` gives the child what the
server has at that moment, the other threads' connections included, and a copy
of the text `requestError` printed and stdio did not flush (`stdout`; stdio may
flush at any `printf`, hence the choice in `RefuseConn`). `Exec` keeps the
descriptors and loses the copy; when it fails, `unix_error` calls `exit`, which
flushes the copy into the client's socket. A script runs for any time, writes
when it flushes (`Output`) and exits; signals may kill, stop and continue it.
`WaitPid` also returns for a stopped script, because of `WUNTRACED`, and looks
at no status. `ServerExits` stands for the failure of any wrapper in any thread.

### WebServer

`RequestHandler` and an instance of `AdmissionQueue`, each of which the detailed
modules stand for, with main: `AcceptConn` (line 166) is not guarded by the
room, `EnqueueConn` is. A worker dequeues (`Queue!Dispatch` and `Dequeue` in one
step), handles, closes, and gives its place back in a step of its own
(`finishing` holds the connection between `Close` and `finishHandling`).

## What the runs check

Every entry of `runs` in `PROJECT.json` is one configuration.

| run | instance | shows |
|---|---|---|
| `queue` | 3 workers, 2 slots, 6 connections | the bound, first in first out, one owner per descriptor, no lost wakeup, `enqueue` never waits; every accepted connection is closed; refinement of `AdmissionQueue` |
| `log` | 3 threads, 3 appends of 1 or 5 bytes, capacity 3 | exclusion, bounds, termination, whole snapshots, no lost wakeup; `add_to_log` and `get_log` return; refinement of `AtomicLog` |
| `handler_safety` | 2 workers, 3 connections, all requests | counters, what is in the log and when (a script that failed or is stopped is there without its page), a POST shows the GETs closed before it, the log is in an order clients can confirm |
| `rio_reader` | 10 streams, `rio_buf` of 3, lines of at most 5 | no byte lost, lines, where the headers end, complete requests are read |
| `exchange` | 2 clients, 2 responses of two texts, a socket that holds 2 characters, lines of at most 3 | the response is whole and in order; a client that comes to its end read all of it unless another one left and ended the server, and printed it whole if and only if it has no NUL; the client of a GET comes to its end |
| `cgi_child` | 3 connections: a refused one, a script that cannot be executed and one that can; two scripts and a refused one | a logged request was reaped unless stopped; a client gets its own texts except from a script that cannot be executed; nothing after the end of the stream; a stopped script frees its worker; streams end |
| `web_server` | 2 workers, 2 places, 4 connections, requests `nothing`, `silent`, `cut`, `deaf`, `gone`, `cgi` | no place of the queue leaks, at most one connection is outside of the queue; one worker with one place left serves everybody |
| `request_line` | every URI of 1 to 4 symbols from `/ ? . cgi html`, two longer ones; GET and POST; lines of no, one and two words | what is served is what was asked; a line without a URI runs a script with arguments only if they are those of a POST that no GET has parsed since |

and four that find a statement of the repository about the program violated
(each a finding in `PROJECT.json`):

| run | statement | what happens |
|---|---|---|
| `log_priority` | a waiting writer blocks new readers (`log.h`) | a writer that a write blocks is not yet counted, a reader overtakes it |
| `handler_entry` | the log holds the `Stat` lines of the responses (`request.h`, `test_server.py`) | an empty file is answered 403 and logged with the counters of a served request |
| `server_accept` | "Queue.wait, Accept, Arrival, Queue.enqueue" (`test_server.py`) | `main` accepts first: with all places taken it holds one connection more |
| `rio_spin` | no busy waiting (`test.c`) | a client that closes inside its headers leaves a worker reading 0 bytes for ever |

### Bounds

- *Queue.* With more workers than slots, workers compete for a request, several
  sleep, and main waits for room while requests pile up in the ring; six
  connections go round the two slots three times. What depends on the size of
  the pool or of the ring (more slots than workers, one of either) is proved
  below and needs no bound at all.
- *Log.* Three threads are the least for a reader, a writer that writes and one
  that waits. With capacity 3, the entries of 1 and 5 bytes fit, grow the
  buffer once, fill it exactly but for the terminator, and make the doubling
  loop go round. `MaxAppends` bounds the appends; reads are unbounded.
- *Handler.* Three connections give every pair of requests on two workers and a
  third that comes after either.
- *Reader.* The streams have lines that are shorter than, as long as and longer
  than either buffer, and end at every kind of place: whole, inside a line,
  between `\r` and `\n`, between lines. One has a header line that fills the
  buffer right before its CR LF.
- *Exchange.* Two clients are the least for one to suffer from the other. The
  socket holds less than a text. One response has an empty body; the other has a
  header line that the client's buffer cuts before its CR LF, which then passes
  for the blank line, and a NUL in a line of the body. A third connection adds
  nothing: connections meet only in the end of the process.
- *CGI.* Three connections are the least for a text printed for one, copied by
  the child of another, beside a third whose descriptors both hold. A script is
  stopped at most once, so that a behaviour cannot be stopped and continued for
  ever.
- *Server.* Two workers and two places: one lost worker leaves a worker and a
  place, and the next one lost leaves neither. Four connections are one more
  than main and two places hold. One place and three connections are enough for
  `server_accept`.
- *Request lines.* Four symbols let every two of `/`, `?`, `.`, `..` and `cgi`
  stand in either order with something before, between or after them; the
  longer URIs have the arguments with a second question mark, and another type.

`SpuriousWake` keeps a state with sleepers from being a deadlock in TLC's sense;
that threads sleep for ever for want of a signal is excluded by the liveness
properties (no fairness on `SpuriousWake`) and by the wakeup invariants. The
handler, reader, exchange, CGI and server runs switch the deadlock check off
because their behaviours end: all the connections are done, a client falls
silent, or the process exits.

### Fairness

Weak fairness for each thread: a runnable thread is eventually scheduled.
Strong fairness on the steps that take the mutex: a thread that keeps finding
it free eventually gets it. POSIX does not promise this of a mutex, but a
mutex on which a thread starves although it is released again and again is not
one the server could work with. Nobody has to connect or to call the log. In
`RioReader` a client sends what it has, which may be less than a request, and
need not close; `CompleteRequestIsRead` is about streams that have a blank line.
`Handle` of `RequestQueue` is one step, so `AcceptedIsClosed` assumes that
`requestHandle` returns; where it does not (silent, cut and deaf clients) is the
subject of `WebServer` and of `rio_spin`.

In `Exchange` the client that runs and its worker take their steps;
`GetIsPrinted` says so for the time in which no client is interrupted.

In `CgiChild` threads and processes run (`WorkerStep`, `ChildStep`; a script
comes to its end); no signal, connection or failure has to happen. `StreamEnds`
is about behaviours in which no script stays stopped for ever. In `WebServer`
main puts in the queue what it accepted and workers run; nobody has to connect.
Weak fairness of a worker's steps asks nothing of a client: a read or a write
that never returns because the client does not send, close or read is the step
of a `silent`, `cut` or `deaf` request, after which the worker takes none, and
`OneWorkerIsEnough` promises nothing to those connections, nor to anybody once
such clients hold every worker or every place. A script does exit, fail or get
stopped.

`AddToLogReturns` holds although the other threads may call `get_log` for ever.
`GetLogReturns` depends on the bounded number of appends: with writers that
keep coming, a reader may wait for ever, as the strict priority asks for.

## What is proved

Every safety property the passing runs check, for every value of the constants:
every pool of workers, capacity, number of connections, workload, set of
entries, stream, response, URI and size of a buffer or a socket.

| theorem | says |
|---|---|
| **`RequestQueue`** | |
| `AdmissionBound` | the requests that wait and the ones being handled are `size`, at most the capacity |
| `EnqueueIsImmediate` | main never sleeps inside `enqueue` |
| `MainIsWoken` | main sleeps on `not_full` only while the queue is full |
| `WorkersAreWoken` | while a worker sleeps, every waiting request has a worker coming for it |
| `FirstInFirstOut` | the ring holds the untaken connections, in order |
| `OpenIsOwned` | every open descriptor is main's, in the ring or one worker's |
| `QueueAdmits` | the queue takes only the steps of `AdmissionQueue` |
| **`ServerLog`** | |
| `MutualExclusion` | the log's counters are right, and a writer is alone |
| `NoOverflow`, `TextIsTerminated` | `add_to_log` stays inside the buffer, and leaves a terminated text |
| `NoLostWakeup` | no sleeping reader or writer is forgotten |
| `SnapshotIsWhole` | `get_log`, which reads without the lock, returns the whole log |
| `LogIsAtomic` | the log takes only the steps of `AtomicLog` |
| **`RequestHandler`, `RequestHistory`** | |
| `CountersAreAccurate` | a thread's counters are what it answered, and its responses show 1, 2, ... |
| `ClosedAreLogged` | a successful GET that was closed is in the log once, as it was answered |
| `LogIsBehindResponses` | the log shows only what was answered, of a script that failed or is stopped the header at least |
| `PostsShowClosedGets` | a POST shows every GET that was closed before it was dequeued |
| `LogIsInRealTime` | the log is in an order clients can confirm |
| **`WebServer`** | |
| `ServerHandles` | the server implements `RequestHandler`: the theorems above hold of it |
| `PlacesHeld` | no place of the queue leaks, and main holds one connection besides |
| **`RioReader`** | |
| `NoByteIsLost` | lines, line buffer, `rio_buf` and network make up what was sent |
| `LinesAreWhole` | a line is cut at its newline, at the buffer's end or at the end of the input |
| `HeadersEnd` | nothing behind the first blank line is read, and the headers end before it only behind a line that was cut |
| **`Exchange`** | |
| `ResponsesStayInOrder` | what is taken, being read, in the socket and left to write is the response |
| `PrintedWhole` | a client that came to its end read all of it, printed it whole if and only if it has no NUL, and nothing behind a blank line as header |
| **`RequestLine`** | |
| `WhatIsServed` | file, arguments and type are what the URI says |
| `ArgsAreOwn` | a line without a URI runs a script with arguments only if no GET has parsed them: those of a POST |
| **`CgiChild`** | |
| `LogFollowsScript` | a logged script was reaped, or stopped by a signal |
| `TextsAreOwn` | only a script that cannot be executed brings another client's text |
| `EndIsTheEnd` | nothing comes after the end of a connection |
| `QueueTypes`, `LogTypes`, `HandlerTypes` | type correctness |

The assumptions are those the modules declare, and each is something the code
has: a finite pool (of at least one worker for the queue and the server), at
least one slot or byte, entries that are not empty and free of the terminator,
`\r`, `\n` and NUL different, line buffers that hold two characters besides
their terminator, and that the streams, responses and URIs given to a module are
sequences of symbols, those of a URI at least one. Nothing is assumed about the
workers of `RequestHandler`, who may even be infinitely many.

### The invariants behind the theorems

None of the properties above is inductive as it stands. What each needs:

- *Queue.* The bound needs to know that the mutex is held exactly inside the
  critical sections (`MutexOwned`), that the room main saw is kept until
  `enqueue` uses it (`RoomKept`: only main adds), and that a worker that
  advances `front` has something to take (`TakesPending`). With the types this
  is `BoundInv`. `WakeInv` adds that sleepers are in their waits, and counts the
  workers on their way (`Coming`): a signalled worker is one of them until it
  has taken a request. `FifoInv` adds what `enqueue` has stored between its two
  steps; the proof is arithmetic modulo the capacity (`Wrap`, `WrapInjective`).
  `OwnInv` adds that connections leave the ring in the order of their numbers,
  so that a worker's are below those that wait, and that no two workers have
  the same one.
- *Log.* `LockInv`: the lock is held exactly inside the critical sections, a
  write being one, and a sleeping writer has a reader, a writer or an awake
  waiting writer before it; that a reader finds no writer inside when it gets
  the lock follows. `TextInv` follows the bytes: the text is in the buffer at
  all times and its terminator except while an entry is written, the entry is in
  place before `size` moves, and a reader's block stays a copy of the buffer
  because nobody writes while it is inside.
- *Refinements.* From `OwnInv`, each step of the threads is an `Admit` (the
  indices of `enqueue`), a `Dispatch` (those of `dequeue`), a `Complete` or a
  stutter of `AdmissionQueue`; from `TextInv`, an append (`size` moves), a read
  (the reader notes the last size) or a stutter of `AtomicLog`.
- *Handler.* `HandlerInv` says who has a connection (`ConnsOwned`), which
  requests can be where (`AtRequest`), that a response begins with the counters
  of the thread that gives it (`Responded`), that the entry composed before the
  response carries the same ones unless the file is empty (`Composed`), that
  what is in the log is over, has its page or a script that explains why not,
  and the other way round (`LogOfOver`, `OverIsLogged`), and that the counters
  are the sizes of the sets of requests a thread answered, the one in its hands
  from the moment it is counted (`CountsKept`). `HistoryInv` adds that a POST's
  copy of the log has the entries it has to show already before it is sent.
- *Server.* `ServerInv`: connections are numbered through main, the queue and
  the workers, and what a worker closed counts until it is taken out.
- *Reader.* `ReaderInv`: the line being read holds no newline, a line that the
  end of the stream cut off is the last. `HeadersInv` adds where the lines lie
  in the stream: while headers are read, no blank line lies behind the worker,
  and a line begins behind a newline or behind a line that was cut, so that a
  line that is CR LF is a blank line or such a rest.
- *Exchange.* `ExchangeInv`: a worker that closed has written everything unless
  its client left; a client fails only where the worker closed; the server ends
  only if some client left; while the client reads the header no line starts
  inside a blank line (`BlankIsOneLine`: a lone CR does not fill the buffer),
  and what it printed is shorter than what it took, free of NUL and, if the text
  is, all of it but the blank line (`PrintInv`). The statement about one client
  is disturbed by its own steps and the end of the process only
  (`ClientStepKeeps`, `OthersKeep`).
- *Request line.* `LineInv`: the array holds a text, and unless it was left
  `unparsed` it runs no script with arguments, as `requestParseURI` cut it
  there. The rest
  is about the operators: `ParsedStatic` and `ParsedDynamic` name the path
  inside the file name, `DotsOfFile` and `TypeOfFile` what `strstr` finds in it.
- *CGI.* `ChildInv`: a worker leaves `WaitPid` behind a child that was collected
  or stopped, holds its connection until it closes it, and everything stdio
  keeps is the answer to a refused request.

The texts of `RioReader` and `Exchange` are joined with `FlattenSeq` of the
community modules, a recursion over its argument. The provers cannot use the
library's induction theorems, which take an operator; `FlattenSeqProofs` proves
what is needed from the least-number principle, which follows from `<` on `Nat`
being well-founded: what one text more, at the end or at the front, does to the
texts joined.

TLC checked the invariants on small instances before they were proved; the runs
check the properties they imply and not the invariants themselves.

### Only model-checked

Everything that needs fairness, which is beyond the prover: that accepted
connections are closed, that `add_to_log` and `get_log` return, that complete
requests are read, GETs printed and streams ended, that a stopped script frees
its worker and that one worker is enough. `ImplementsAdmission` and
`ImplementsAtomicLog` state fairness of the abstract specifications too;
`QueueAdmits` and `LogIsAtomic` are their initial states and steps. The four
statements that the runs find violated have counterexamples and no theorem.

## Not modelled

- Which wrapper fails, and when, except for `Rio_writen` (`Exchange`), `Open`
  and `Mmap` (`RequestHandler`) and `Execve` (`CgiChild`): every failure is the
  same exit of the process, `ServerExits`. In the modules without it a behaviour
  may stop anywhere, and the properties hold of what happened before.
- Whether entries of the log are delimited: `test_server.py` (line 652) asks
  for a delimiter, and `add_to_log` puts none between the blank line that ends
  an entry and the next one. No property is about it.
- Where the header of a script's response ends for a client:
  `append_stats` puts a blank line behind the server's part of it, so that the
  lines `output.c` writes as header, which `request.c` (line 132) calls the end
  of the header, are body. The texts of `RequestHandler` show it; no property
  is about it.
- The end of a request word or a URI at `MAXLINE`: `RioReader` cuts lines there,
  `RequestLine` has no lengths.
- The times in the `Stat` lines, the formatting of numbers, `getargs` beyond the
  assumptions it guarantees, `destroy_log` and the code after main's endless
  loop, `rio_readn` and `rio_readnb`, which nobody calls.
- The smoke test `test.c` and the Python tests: these are read for what they
  say of the server.

## Plan

Done: every part of the server, alone and composed, with the failures its code
handles or ignores; every safety property proved for all values of the
constants, and the safety part of both refinements.

What is left:

1. The composition: that `RequestHandler`'s atomic log may be replaced by
   `ServerLog` step by step, as `LogIsAtomic` says of the log alone.
2. What else the code does with the lengths of its arrays (`MAXLINE`): the
   words of a request line, which `RequestLine` leaves without a length.
