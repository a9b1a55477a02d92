# A TLA+ model of imitating_mudou_httpserver

The repository is an HTTP server in C++ in the style of muduo: one loop accepts
connections, several IO loops serve them, a timing wheel closes the idle ones, a
logger writes on its own thread, users live in MySQL behind a connection pool,
and buffers take their blocks from a memory pool of their own. This directory
models the parts where threads, order and boundaries make the code hard to test,
checks them with TLC, and with TLAPS proves, for every size, all of it but liveness.

## The system and its parts

| Part | Source | State | Operations | Modelled in |
|---|---|---|---|---|
| Time wheel | `timer/TimeWheel` | a list of timer nodes per slot, a map from descriptor to list iterator, the current slot, the thread | add, update, remove, start, stop, the tick every interval | `TimeWheel`, abstractly `IdleTimer` |
| Connection life cycle | `reactor/tcpserver`, `Connection`, `Channel`, `Epoll` | `conns_`, the epoll trees, each connection's callbacks, buffers and owners | accept and set up, read, renew, respond, write, close, error, time out | `TcpServer` on `TimeWheel` |
| Event loop | `reactor/Eventloop` | task queue, eventfd, stop flag | `run`, `stop`, `queueinloop`, `wakeup`, `handlewakeup` | `EventLoop` |
| Thread pool | `reactor/ThreadPool` | task queue, stop flag, idle count | constructor, `addtask`, worker loop, `stop` | `ThreadPool` |
| Logger | `logger/logger`, `logger/log_fac` | work queue, worker, format, output | `LogFac::Init`, `Write`, worker, destructor | `Logger`, in `HttpServer` |
| MySQL pool | `mysql/sqlconnpool`, `sqlConnRAII.h` | queue of connections, semaphore | `Init`, `GetConn`, `FreeConn`, `ClosePool` | `SqlConnPool` |
| Users | `mysql/User` | the table `user` (external) | `Register`, `Login` | `UserDao` on `SqlConnPool` |
| Buffer | `reactor/Buffer` | blocks, read and write positions, size | `append`, `consumeBytes`, `readBytes`, `erase`, `clear`, `peekFromBlock`, `getIOVecs` | `BufferBlock`, `Buffer`, abstractly `ByteQueue` |
| HTTP parser, handlers | `http/httprequest`, `reactor/Connection` | parser state, headers, body, form fields, input and output buffers | `parse`, `urlDecode`, `onmessage`, `writecallback`, `IsKeepAlive` | `FormData`, `HttpRequest`, `HttpConnection` on `BufferBlock` |
| HTTP response | `http/httpresponse` | status, mapped file, flags | `Init`, `MakeResponse`, `UnmapFile` | `HttpResponse`, in `HttpConnection` |
| Memory pool | `memory_pool2/` | free lists and counts per thread, shared lists, spans | `allocate`, `deallocate` | `MemoryPool` |
| Server glue, shutdown | `reactor/HttpServer`, `main.cpp`, `tcpserver` | the members of `TcpServer`, the threads, what the main thread is in the middle of | constructors, `start`, callbacks that log; `Stop(int)` from a signal handler, destructors, `exit` | `HttpServer` on `ThreadPool` and `Logger` |
| Sockets, addresses, timestamps, log formats, configuration, heap timer | rest | none the above depend on | wrappers, formatting, unused timers | not modelled |

How they interact:

* `TcpServer`'s main thread accepts in the main loop, constructs a `Connection`,
  gives it its six callbacks, a timer and an entry in `conns_`. The constructor of
  `Connection` already adds the descriptor to the epoll tree of an IO loop.
* An IO loop is a task of the thread pool that never returns. It waits in
  `epoll_wait` and calls the handlers of its connections; `onmessage` calls back to
  renew the timer, `closecallback` and `errorcallback` call back to remove the timer
  and the entry in `conns_`.
* The time wheel's thread takes the expired connections under its mutex and calls
  their `closecallback` after releasing it, on its own thread.
* A connection is owned by `shared_ptr`s: `conns_`, locals of the callbacks, and
  what the tick makes of its `weak_ptr`s. The destructor closes the descriptor, and
  only then can the kernel give it to another connection.
* Handlers call `UserDao`, which takes a connection from the MySQL pool for the
  duration of one operation.
* Every thread logs.
* SIGTERM and SIGINT run `Stop(int)` on the main thread, on top of what that thread was
  doing: it closes the MySQL pool, stops the loops and joins the IO threads, deletes the
  server, whose wheel joins its own thread, and calls `exit`, which destroys the logger.

What is hard about it: the three registries of a connection (`conns_`, epoll, the
wheel) are changed one after the other by three kinds of threads without a common
lock; descriptors are reused; wakeups go through condition variables, an eventfd
and a semaphore; requests are cut and joined by the network; positions run over
block boundaries. `PROJECT.json` lists the hazards line by line.

What makes each part correct:

* *Time wheel*: a node is in the list its slot field names; no iterator dangles; a
  connection expires after exactly the ticks it was given, the last renewal counting.
* *Connections*: the registries agree between registering and closing; output that
  is left is watched; every connection ends; a timeout is a normal close.
* *Event loop, thread pool, logger*: nothing is lost, doubled or reordered, no
  wakeup is lost, stopping stops.
* *MySQL pool, users*: a connection has one user; permits and queue agree; calls
  return; a name is registered once and can then log in.
* *Buffer*: a FIFO of bytes. *HTTP*: each request is answered once, as it was sent,
  with the file it names; nothing of an earlier request shows in a later response.
* *Memory pool*: no memory has two owners, none is lost, counts are lengths.
* *Shutdown*: no thread uses an object before its constructor or after its destructor;
  the process ends.

## Modules

Names of definitions are those of the code. A definition called "a bug for
comparison" is no part of the model: it is a broken form of the one that follows,
used to see that a property notices it.

**`IdleTimer`, `TimeWheel`.** Every member function of `TimeWheel` holds its mutex
for its whole body and is one action. `tick()` is two: `tick` collects under the
mutex, `close_expired` is the call after it, for one connection at a time. `stop()`
is two: the flag, and `clear` after the join. A `TimerNode` is an address of
`Nodes`; `timer_map_` keeps addresses, so that an erased node really dangles and an
address can be used again. `IdleTimer` is what the wheel promises: per timer the
ticks left, per descriptor the timer an update acts on. `TimeWheel` defines the
mapping (`Left`: slots ahead plus whole turns) and the property
`ImplementsIdleTimer`.

**`TcpServer`** composes the wheel (`INSTANCE TimeWheel`) with the main thread
(`main`), the IO loops and the tick thread (`thr`), the object of each connection
and its client. A step is what a thread does between two points where another
thread can interfere: one epoll call, one call of the wheel, one assignment of a
callback (`setup` counts them, in the order of the code), one change of `conns_`.
`batch` is what `epoll_wait` has returned and the loop has not dispatched yet: raw
pointers. Ownership is not a variable; `OwnedAfter` reads it off the steps, and an
object without owner is destroyed in the step that drops it. What ends the process
is an action that sets `status`: `exit` (epoll_ctl failed), `terminate` (an empty
`std::function`, `shared_from_this` without owner, or what `parse()` throws), `uaf` (use of
a destroyed object), `overrun` (a read behind a block). A client sends segments; what
`parse()` makes of one is a choice: a response, or no complete request yet, which puts the
connection in `partial`. With more of a request of which a part was left, `parse_breaks` may
end the process; `HttpConnection` has what happens in the parser then.

**`EventLoop`.** `push` and `wakeup` are separate, as in `queueinloop`. The loop
reads the eventfd, takes the mutex, and runs the queue task by task with the mutex
held, during which no push happens. A time-out or another descriptor wakes the
loop as well.

**`ThreadPool`.** The worker's `wait(lock, pred)` is unrolled: test the predicate,
block, be woken by a notification or spuriously, test again. The mutex is held
between test and block, so that `push` waits and `stop_set`, which does not take the
mutex, does not. `Endless` names the tasks that never return: the loops.

**`Logger`.** `LogFac::Init` starts the worker first and gives the logger its
format and output later; `Write` drops lines before that. The worker and the
destructor wait and notify as in `ThreadPool`.

**`HttpServer`** is the life of the process. It extends `Logger` and uses the
`ThreadPool` of the IO threads (`Pool`), every action of which appears here where the
code calls it, and adds the main thread, `Stop(int)`, the thread of the wheel and the
members of `TcpServer`. `frame` is what the main thread is in, below the handler:
`pool`, `log`, `tasks` are places in the constructors, `starting` and `spawned` in
`TimeWheel::start`, `loop` is the main loop. `held` are the mutexes it holds there (of
the logger, of the wheel, of `conns_`; `Takes` says which one is taken under which). After
SIGTERM the main thread is the handler alone, with `held` as it was: the kernel gives
a signal for the process to its main thread when that does not block it, and the
handler ends in `exit`, so the frame never goes on. `members` are the members of
`TcpServer` other threads use, in the order of `tcpserver.h`; the constructor adds
them, `delete` takes them off the end. The IO threads and the thread of the wheel are
kept as far as they take these mutexes, queue lines and use these members; `TcpServer`
and `TimeWheel` have what they do with connections. A mutex that is free is taken and
given back within a step; one that the main thread holds is waited for, which is what
a handler that joins cannot survive. `mainloop_`, `acceptor_` and `mmutex_` as a member
are left out: no other thread uses the first two, and the third lives next to `conns_`.

**`SqlConnPool`, `UserDao`.** `connque_.empty()` is called without the mutex and reads the
two ends of the queue, in either order, while others move them: two steps. `SqlConnPool`
gives the steps, `UserDao` the threads that take them, in `Register` and `Login`: one step
per SQL statement. A statement may fail, an `INSERT` may fail for the caller and still leave
its row. MySQL itself and the schema are external; the repository has no schema, so whether
`username` has a unique key is open: `unique_key` is chosen at the start. `contested`
remembers the names that two threads were about to insert at a time, or one after a check it
could not read. Connection `i` is the one opened in turn `i`, and 0 is the null pointer.

**`ByteQueue`, `BufferBlock`, `Buffer`.** `BufferBlock` defines each operation as
an operator on a record of the members, with the loops over blocks in closed form;
`total_size_` wraps as `size_t` does. `Buffer` is the state machine of these
operations, and implements the sequence of bytes of `ByteQueue`.

**`FormData`, `HttpRequest`, `HttpResponse`, `HttpConnection`.** `FormData` is the decoding
of a form, on the one kind of strings the model keeps character by character: fields,
separators and escapes. The parser works on the blocks, and puts `read_pos_` back as the
code does. A byte is CR, LF or a token for the rest of a line; `Lines` says what a request
line reads as, `Headers` which name a header has (a later header replaces an earlier one of
its name), `Named` what a JSON body does. `HttpResponse` has the members of the response
object and follows `stat`, `open`, `mmap` and their failures over the files of `Files`. Each
`open` fails or not, whatever `stat` said (`granted`: a permission, or no descriptor left);
a file with something in it that was opened can be mapped. A body is a sequence of parts (a
file or a message), and a length is the part it is the length of. `HttpConnection` adds the
client, the network that cuts its stream, and the two handlers. They run on one thread, so a
handler is one step. Whether a login succeeds is left open here and is the subject of
`UserDao`. The form is written as the browser writes it for `URLSearchParams` in
`build/html/login.html:229` (`Encoded`, external).

**`MemoryPool`.** `next` is memory: the pointer stored at each address. Free lists are
what follows from their heads, so a wrong pointer runs into whatever is there, user
data included (`junk`). An operation works on the caller's own lists and enters at
most one critical section, that of its class, so it is one action. `cut` remembers
which blocks spans were cut into, and `short` whether a list has been returned with a
`Block` of no bytes. The users are the `Block`s of the buffers, which take by capacity
and give back by size, on the thread that destroys them.

`MC*` modules extend these for TLC and give the function-valued constants.
`*_proofs` modules hold the theorems.

## What the runs check

| Run | Asks | Result |
|---|---|---|
| `TimeWheelRefines` | Do lists, slot fields and iterators stay consistent, and is the wheel an exact countdown? | holds |
| `TcpServerRegistries` | Do `conns_`, epoll and the wheel agree, with descriptor reuse, timeouts, a client that acts too early, a request in one part or in two? Is output watched? Does nothing else than an early client, a timeout or a request in parts end the process? Is the wheel used as `TimeWheel` describes? Does every connection end? | holds |
| `TcpServerTimeout` | Is a timeout a normal close? | violated |
| `ThreadPoolTasks` | Order, no stranded task, every task starts while a worker is left | holds |
| `EventLoopTasks` | Order, no lost wakeup, every task runs | holds |
| `ServerShutdown` | SIGTERM at any point: does every thread use only what lives, do all lines come out in order, does the process end unless it is in a deadlock we name? | holds |
| `ServerStop` | Does `Stop()` stop a server that only waits for events? | violated |
| `UserDao` | Exclusive connections, permits, returns; one registration per name and login after it, with a unique key or as long as the name is not contested | holds |
| `MemoryPoolLists` | Has every byte one owner and every block a place, and are the counts right, whatever sizes come back on whichever thread? (A place only until a list is returned with a `Block` of no bytes.) | holds |
| `BufferQueue` | Are the blocks a queue of bytes? Is there something to write while there are bytes? | holds |
| `HttpWhole` | Is every request that arrives whole answered once, as sent, a form with the fields as entered, with its file, the page of the error or the message of a file that cannot be opened, keep-alive honoured, lengths right, mappings returned? | holds |
| `HttpSegmentPartial` | The same of a request that arrives in segments | violated |

### Bounds

* *Time wheel*: three slots of two seconds, timeouts of 9 and 14 seconds: a timeout
  that is not a multiple of the interval, one and two whole turns, a slot that wraps.
  Three connections, two of which have the same descriptor one after the other,
  and two nodes, so that an address is used again. There is no bound on steps: the
  state space is finite.
* *TcpServer*: two connections that have the same descriptor one after the other,
  one IO loop, two nodes, two slots, timeouts of one and two ticks. The first client sends one
  segment, the second two, so that a request comes in parts. Every
  disagreement known to us needs one connection and the next owner of its
  descriptor. A second loop would serve other connections, with which the threads
  of this one share only the wheel, whose three connections are checked above.
  `Hasty` are the clients that may send or close before `newconnection()` is done: the
  first owner of the descriptor may, the second does not.
* *ThreadPool*: three workers and three tasks, two of them endless, so that in the
  end one worker serves the rest. *EventLoop*: three tasks, one `stop`.
* *HttpServer*: two IO threads and loops, `threadnum_` = 2 for the 6 of `HttpServer.h`: one
  may have ended, be in a handler or sleep on its condition variable while the other does
  something else; more of them meet only in the three mutexes and in `join`. Two lines:
  that of `Stop()`, and one that whichever thread comes first logs, at any time. So
  every thread can be the one that logs, and two lines can be in the queue.
* *UserDao*: three threads, two connections: two are inside their statements while the third
  waits for a permit. With a unique key and without. One name, two passwords. `MaxCalls` = 1
  call per thread; a thread that calls again is in the place of another.
* *Buffer*: blocks of 2 and 4 bytes, chunks of up to 7: chunks that span three
  blocks, blocks exactly full and exactly consumed. `Positions` bounds the bytes by
  wrapping their names, `MaxContent` the content. `SizeMod` = 256 stands for 2^64;
  sizes stay far below it unless they underflow.
* *HTTP*: up to three requests of eleven shapes: both versions, both connection headers,
  none, and both in either order, two headers of another name, bodies of zero, one and three
  pieces, for files that are there, missing, empty or not for others, downloads that name a
  file or nothing, and logins whose fields hold a blank, the separators, and an escape at
  their end.
* *MemoryPool*: two threads; spans of 8 bytes that hold four, two or one block, a class of
  10 bytes that is larger than a span, and requests beyond all classes. (The numbers stay
  too small for a cache to keep more than one block when it returns a list; the theorems
  cover it.) `Memory` = 16 bytes bounds what the system gives out: two spans, or one and a
  larger block, after which everything is recycled. A cache gives back above `ShouldReturn`
  = 2 blocks instead of 64, and a pointer takes 2 bytes instead of 8. `MCFewAfterShort` goes
  on after blocks may have been lost with one `Block` in use at a time only; the theorems
  have no such bound.

### Fairness

`TcpServerRegistries`: weak fairness of the main thread, of each IO loop and of the tick
thread, which are threads the operating system schedules and that wait only with time-outs
or for events that are there. Nothing is assumed of clients, which is the point: a silent
client must end by its timer. `ThreadPoolTasks`, `EventLoopTasks`: weak fairness of each
thread's own steps and of a call that has begun; nobody has to call `addtask`, `queueinloop`
or `stop`. Endless tasks never end. `ServerShutdown`, `ServerStop`: weak fairness of each
thread; the main thread need not take a mutex, since it may wait for events instead, but
gives back what it took; SIGTERM need not come. The handler has strong fairness, for one
reason: before it queues its line it needs the mutex of the logger, which is free again and
again, but not always if the worker is woken spuriously for ever. `UserDao`: weak fairness
of each thread, which includes that MySQL answers, and strong fairness of `sem_wait`: a post
wakes some waiting thread, and the kernel passes none over for ever.

### Deadlock

It is checked for `TimeWheelRefines` and `BufferQueue`, which never stop. The others
switch it off: their processes end (server stopped, all calls made, process ended by
a failure), and what must happen before that is stated as a liveness property.
`MemoryPoolLists` stops where the bounded memory is used up.

### Where the code and its comments disagree

Three runs are expected to fail and show it; `findings` in `PROJECT.json` quotes
the lines.

* `TcpServerTimeout`: the tick thread runs `closecallback` while the IO thread
  serves the connection. The removed descriptor makes the IO thread's next
  `epoll_ctl` fail and the process exit, or the object is destroyed under it.
* `ServerStop`: `stop_` is set and notified outside the mutex. An IO worker between
  its test and its wait sleeps on, and `Stop(int)`, which joins it, never returns, though
  the main thread held nothing when the signal came.
* `HttpSegmentPartial`: `parse()` returns true when nothing is left to read,
  whatever state it is in, so a request cut at the end of a line is answered.

Others met while modelling. The properties are conditioned on their absence where
they would hide everything else, and each can be seen by changing a constant:

* *A client that acts during `newconnection()`* (`Hasty`): a callback not set
  yet ends the process (`Connection.cpp:13` enables reading first); a connection that
  closes before `tcpserver.cpp:63` is stored afterwards and never destroyed.
  `RegistriesAgree` and `ConnectionsEnd` are about descriptors whose clients waited
  (`Patient`); `WheelSpec`, `OutputIsWatched` and the types are about all, and
  `EndsAreKnown` says that this, a timeout, and a request in parts (below) are the only ways
  to end the process.
* *A renewal after the tick has collected the connection* finds no entry
  (`TimeWheel.cpp:95`), and the connection is closed with its request unanswered or
  just answered.
* *A connection that failed to open* is queued as a null pointer with a permit
  (`sqlconnpool.cpp:25`); the permit is gone once it has been handed out, and a
  thread that has seen the queue non-empty may then wait for ever. `GetConnReturns` is
  about pools that opened all; `Exclusive` and `PermitsCover` are about all.
* *The other deadlocks of `Stop(int)`*: the handler waits for a mutex of the frame it
  interrupted, or joins a thread that waits for one (`main.cpp:25`), or `~Logger` misses
  its worker as `ThreadPool::stop` does (`logger.cpp:8`). `EndsOrHangs` names them all in
  `Hung`, and says there are no others.
* *A signal before the constructor has returned* finds `httpserver` null
  (`main.cpp:35` and `38`; status "segv").
* *A signal between the creation of the thread of the wheel and the assignment of
  `thread_`* (`TimeWheel.cpp:19`; frame "spawned") finds nothing to join, and the thread
  goes on in a wheel that is destroyed (status "undefined"; `UsesOnlyWhatLives` excepts
  this frame).
* *`ClosePool`* leaves the permits of the connections it closes: `front()` of an
  empty queue is reachable while IO threads run (`pop_empty`).
* *Without a unique key* (`unique_key` false) two concurrent `Register` may both return
  true, and the name cannot log in any more, because `Login` wants exactly one row
  (`User.cpp:100`). `RegistersOnce` and `RegisteredCanLogin` say that this is the only way
  to it: two threads that had both found no row before one was inserted, or one that could
  not read the result of its check (`User.cpp:37`).
* *Segments*: `parse()` restores `read_pos_` and not `total_size_`
  (`httprequest.cpp:33`), which wraps when the rest of the request has come and its lines
  are consumed again; `bufferToString()` then asks for that many bytes and throws, which
  nobody catches (`Segmented = TRUE` and `status` "throws" in `HttpConnection`, where the
  position may also be read behind its block, "overrun"). In `TcpServer` this is
  `parse_breaks`: a client that waits for everything and whose request arrives in two
  segments ends the process, and `EndsAreKnown` counts it among the known ends.
* *Pipelining* (`Pipelined = TRUE`): `writecallback` asks the `request_` that
  `onmessage` has reset for the next request whether to keep the connection
  (`Connection.cpp:99` and `134`). `KeepAliveKept` is checked without it only.
* *A login that succeeds is answered as one that failed.* `onmessage` calls
  `response_.Init` with (js, success, download, keep-alive) where it declares
  (keep-alive, js, success, download) (`Connection.cpp:147`, `httpresponse.h:18`), and
  `IsDownload()` is never true. `respond` passes them in the order of the call, and in
  the reachable states of `HttpWhole` no response has the part `success: true`, which
  the page waits for (`build/html/login.html:246`); a failed login gets the page as a
  file, and the header `Connection` says keep-alive for forms only
  (`says_keep_alive`).
* *A file that cannot be opened or mapped after `stat`* is answered with the code 200 and
  the text of an error (`httpresponse.cpp:174` and `186`): when `open` fails, as it does for want
  of a descriptor or a permission, or when the file is empty. Of an empty file the descriptor
  is never closed either (`srcFds`), so that after enough of them every `open` fails.
  `AnswersTheFile` says which of the bodies goes with which code, and `FilesReturned` that no
  other file leaves a descriptor.
* *Classes larger than a span* are cut into no block: `RealIncrease - 1` is subtracted
  from the count of the cache, which wraps (`threadcache.cpp:61`), and the next block
  that comes back finds a count of zero. `CountsAgree` is about the other classes;
  `NoOverlap` and `NothingLost` are about all.
* *A `Block` that was never written* is given back with size 0 (`Buffer.h:27`; a buffer
  starts with such a block, and `clear()` leaves one). `getIndex` takes 0 for one byte
  and `roundUp` does not, so when this makes the list of the smallest class too long,
  `returnRange` is told 0 bytes and moves one block (`threadcache.cpp:115`,
  `centralCache.cpp:136`); the others, "the remaining part" of the comment at
  `threadcache.cpp:112`, are in no list any more. `short` marks this; `NothingLost` is
  about behaviours without it, the other properties about all.

## What is proved

With TLAPS, for every value of the constants that meets the named assumptions.

*Time wheel* (`TimeWheel_proofs`; assumptions: each connection has a descriptor,
positive interval and number of slots, timeouts in `Nat`, `None` is no node). The
three invariants are proved through `WheelInv`, which adds what they do not say by
themselves: `FdFieldAgrees` (an unexpired node carries the descriptor of its
connection), since the tick erases map entries by that field, and the types. There
is a lemma per list helper (add, remove, renew, collect), so a step of the wheel is
one of them plus bookkeeping. `Refinement` shows that every step is a step of
`IdleTimer` or none: the number of ticks left is `slots ahead + rotation * Slots`,
and the lemmas `LeftAtNew`, `LeftAtZero` and `LeftAtTick` are the arithmetic: a new
node has exactly `timeout \div interval`, the current slot with rotation 0 is exactly
"none left", and moving the slot takes one from every other.

*Thread pool* (`ThreadPool_proofs`; the workers are a finite non-empty set). Neither
`TypeOK` (which bounds the idle count) nor `NoTaskStranded` is inductive. `PoolInv`
adds `IdleCount` (the counter is the number of workers that are not running a task,
up to the one the constructor has created and not counted), `ConstructedFirst` and
`WaitsOnEmpty` (a worker about to wait has seen an empty queue and holds the mutex, so
that it is still empty). One lemma per conjunct, one step per action.

*Event loop* (the last part of `TcpServer_proofs`; no assumption). `LoopTypeOK`, `RunInOrder`
and `NoLostWakeup`, each with the type invariant, are inductive as they stand. The type
invariants of `ThreadPool` and `EventLoop` are proved and no longer checked by a run.
The definitions of `EventLoop` have names of their own (`LoopInit`, `RunStep`, `LoopSpec`)
because this module extends both.

*Logger* (no assumption) and *the process*, both in `HttpServer_proofs`.
`OutputInOrder` needs `LineInHand`: the line the worker takes does not cover another one.
`DrainedAtExit` needs `LeavesNothing`: the worker leaves an empty queue, and since only
the destructor stops it and nobody writes once the destructor has begun, the queue stays
empty. `LoggerInv` is their conjunction with the types, which say that the worker
finds an output (`InitFirst`). `ImplementsLogger` shows that every step of the process, for
every number of threads, is a step of `Logger` or none, so both hold of the process with
the signal at any point.

`UsesOnlyWhatLives` (assumption: at least one IO thread) relates the members to three kinds
of threads, so `ServerInv` has a part for each. `IoBetween`: no task exists until all
members do, and the deletion begins when `join` has seen all IO threads exit, after which
none can move. `WheelRuns` and `WheelJoined`: `running_` is true exactly when `~TimeWheel`
has a thread to join, and `time_wheel_`, which is the last member and goes first
(`WheelIsLast`), does not go before that thread has ended, except in the frame "spawned".
`LoggerLast`: `exit` comes after the last member. `MembersFit` says which members there are
until the deletion. One lemma per kind of thread, one step per action.

*Connections* (`TcpServer_proofs`; assumptions: each connection has a descriptor and each
descriptor a loop, the tick thread is no loop, positive interval and number of slots,
timeouts and `MaxRequests` in `Nat`, `None` is no node, connection or timer). None of the
invariants is inductive. `LifeInv` says where a connection can be at each step: `Sockets`
(two existing connections have different descriptors, and `conns_` owns what it stores),
`Registration` (`newconnection()` owns the connection it works on, and only that one lacks
callbacks), `LoopHands` and `TickHands` (what a thread has in hand, in its batch or among
the collected connections, and that it is of the thread's own loop), `QuietUntilDone`
(before it is registered, a connection of a silent client is in nobody's hands) and `Served`
(what a loop is about to handle is registered, unless the client came early or the tick
collected it). From it follow `EndsAreKnown` (with one lemma per way to end: each needs an
early client, an expired connection or one in `partial`) and, with `Watched`,
`OutputIsWatched`. `ImplementsWheelSpec` shows that every step of the three kinds of threads
is a step of `TimeWheel` or none; the step lemmas proved for the wheel alone are cited
through `INSTANCE TimeWheel_proofs`, and `ListsInv` of the wheel is a conjunct of `LifeInv`.
`RegistriesAgree` needs `RegInv`: `NodesKept` (a node belongs to an existing connection and
is the one its map entry names), `NodeLifetime` (no node before `add_new_conn_timernode`,
none after the channel is removed) and `Registers` (what is registered at each step of
`newconnection()` and of closing). Its hypothesis about clients is the one of the property,
`Patient`; that `tick` collects nobody inside `newconnection()` is a guard of the model
(`RegisteredInTime`: a timeout is longer than `newconnection()`).

*MySQL pool and users* (`UserDao_proofs`; assumptions: finitely many threads, `MaxConn`
positive, `MaxCalls` in `Nat`, some user and some password). `Exclusive` and `PermitsCover`
need what `GetConn` does between its steps: `EndsCount` (the queue is as long as its two
ends are apart), `HeldInside` (only a thread inside its operation has a connection) and
`PermitsBounded` (the semaphore and the threads that have a permit, together, are at most
`MaxConn`, by the cardinality of `Permitted`). `OnlyClosedBreaks` is the action property
that `front()` of an empty queue happens only after `ClosePool`. `AlwaysRegistersOnce` and
`RegisteredLogsIn` (a registered name and its password log in from then on) assume nothing
of the schema: they need `InsertsAlone` (a thread about to insert an uncontested name is the
only one that is, and the name has no row) and `RowsAsRegistered` (with a key, or
uncontested, a name has at most one row, and that one is what `Register` succeeded with, if
it did).

*Memory pool* (`MemoryPool_proofs`; assumptions: sizes are positive, classes and pages are
multiples of `ALIGNMENT`, a batch of more than one block fits into a span, and `size_t`
counts the bytes of memory). The properties follow pointers; the proof has the lists as
sequences. `PoolInv` says that there are sequences `L`, one per free list, that the state
describes: `HeadsOf` and `LinksOf` (heads and pointers are those of `L`), `CountsOf`,
`Owned` (no block twice in a list, in two lists, or in a list and in use), `Apart` (each
block, of the size of its class, ends before the next one and before `brk`; a block in use
is taken to have the size it was given out with, though it may come back as a smaller one)
and `SavedBy` (what a span was cut into is in a list or in use). `ListOf` shows that
following the pointers finds just the sequence. There is a lemma for every way to change
lists (`Slice`, `Join`, `Cutting` a span, `Parting` a list that is returned, `Giving` and
taking a block) and one per action. `NoOverlap`, `CountsAgree` and the types hold with no
further condition. `NothingIsLost` assumes `FewLargeBlocks`: `returnRange` takes bytes for
blocks, which is more than enough unless the count of the cache is far too low, and it is
too low only for classes larger than a span. With the real numbers (spans of 32 KB, a
threshold of 64 blocks) the assumption holds up to 32 GB of memory in such blocks.

*Buffer* (`Buffer_proofs`; `BlockSizeAssumption`: block sizes and `SizeMod` are positive;
`BufferAssumption`: less content than `SizeMod`, and positions are bytes, of which there may be
other kinds too, so that the lemmas serve the HTTP connection as well). `BufferInv` is
`BufferWellformed` with the types and the bound of the content, without which `total_size_`
wraps. Its last conjunct, that no block is empty and the first is not used up, is the one
everything leans on: it keeps `read_pos_` a position in a block that exists, makes the closed forms
of the code's loops right, and gives `SomethingOffered`, since otherwise `getIOVecs` could
offer only an empty block. A content is a concatenation of blocks, so the
proof is about sequences: `FlattenConcat` and `BytesSplit` take a list of blocks apart,
`DropExtended` and `DropTwice` say what is left after a prefix, `FlatExists` and `FlatAgrees`
replace the library's fold by one function per list, by the smallest index at which two would
differ. There is one lemma per operation (`AppendKeeps`, `ConsumeKeeps`, `IOVecsAre` ...) that
says what it does to the content, and `BufferImplementsByteQueue` puts them together: every
step is a step of `ByteQueue` or none.

*HTTP connection* (`HttpConnection_proofs`; assumptions: tokens of lines and headers hold no
CR (`TokensAssumption`), the header tokens the code asks for are there and the two of
`Connection` have one name (`NamesAssumption`), different characters have different codes of
one byte (`CodesAssumption`), the pages of the errors exist and are not empty
(`FilesAssumption`), and a client sends what login.html sends, of a size the server can
count (`MenuAssumption`)). The theorems about requests have the hypotheses `~Segmented` and
`~Pipelined`, those of the run `HttpWhole`; `HttpSegmentPartial` shows that without the
first they are false. Their invariant is `WholeInv`: between steps the input buffer is
empty, all that has arrived is the first `Len(handled)` requests, each was read as it was
sent (`Taken`), `request_` is the last of them, the one response that may wait is the answer
to it (`Answer`, a function of the request alone: nothing of an earlier response is in it),
and the status is what the last `IsKeepAlive` said. What the parser has stored of the first
j headers is `Effective` of that prefix, the last header of each name. The step is
`ParseWhole`, a proof of the parser round by round: `Reading` says which headers have been
stored and which bytes are left after j rounds, with lemmas for the request line, a header,
the blank line and the body; `readLine` finds the end of a token and of nothing else
(`ReadToken`, `ReadBlank`); and `FineConsume` and `FineAppend` are the lemmas of
`Buffer_proofs`, cited through `INSTANCE`, so that where a request is cut into blocks does
not matter. `FieldsArrive` is the decoding of forms: `DecodesAll` (`urlDecode(Encoded(str))
= str`, for every string and every code) round by round, since after j rounds j characters
are decoded and the image of the others follows; then the same for fields, where `SafeBytes`
(no escape holds a separator) gives that `Find` stops at the right place, and distinct keys
that no value is overwritten. `Framed` and `FilesReturned` have no hypothesis: `ResponseInv`
is about the response alone, so it holds however the requests are cut.

In this component and in `Buffer` the loops of the code are recursive functions of the
number of rounds or closed forms, not `RECURSIVE` operators, which the provers cannot unfold.

Only model-checked: the liveness properties (`ConnectionsEnd`, `TasksStart`, `TasksRun`,
`EndsOrHangs`, `GetConnReturns`), since fairness rests on `ENABLED`, which the prover does not
have. Every invariant, action property and refinement that a passing run checks is a theorem.

## What is not modelled

* A second signal during `Stop(int)`, and the mutexes of `malloc` and `stdout` that the
  handler uses as well. The statements that IO threads are in when `ClosePool` closes their
  connections: `UserDao` has `ClosePool` between any two steps of them.
* What an IO thread or the tick does under a mutex is one step in `HttpServer`, so that the
  handler never waits for a mutex one of them holds; it would get it.
* `Connection::send` from another thread: no code calls it so.
* The synchronous mode of the logger, formats, files and the configuration file: no
  shared state beyond what `Logger` has.
* JSON (rapidjson reads it; `Named` says what it reads), file types and the texts of
  pages: data. Files that another process changes or removes between `stat` and
  `mmap`, and an `mmap` that fails for want of memory. `parseStartLine` and
  `UserVerify`: nothing calls them.
* `pageCache::deallocateSpan` and free spans: nothing calls it. Memory that the system
  refuses, and the cache of a thread that ends (its blocks stay where they are).
* Sizes of names in SQL statements and other formatting. With it goes that paths, bodies and
  names are formatted with `sprintf` into arrays of fixed size (`httprequest.cpp:65` and `209`,
  `httpresponse.cpp:182`, `User.cpp:42`), which longer ones do not fit: the properties are about
  requests short enough for them.
* Requests in parts and pipelined requests beyond what `HttpSegmentPartial` shows: the other
  properties of HTTP are checked in `HttpWhole`, with neither.
* Acceptor, Socket, InetAddress: wrappers of system calls; `accept` is an action of
  `TcpServer`. Timestamp: only formats the time.
* The heap timer and the list timer: nothing uses them. `heaptimer.h` includes
  `../log/log.h`, which is not in the repository, and every use of `timer.h` in `tcpserver`
  is commented out; without a caller there are no states to start a model from. The
  first `add` of the heap timer would already compare with an element before the first
  (`siftup_` with an index of type `size_t`).

## Plan

1. Done: time wheel with abstract specification and proofs; connections on it; event
   loop and thread pool with proofs; MySQL pool and users; buffer with abstract
   specification; parser and handlers; memory pool; HTTP responses.
2. Done: the process with its signal handler, on the thread pool and the logger, with the
proofs of the logger and of the objects' lives; the decoding of forms; the ways the process
may end.
3. Done: proofs of connections, users, the memory pool, the buffer with its refinement of
   `ByteQueue`, the parser, the decoding of forms and the responses.
4. Runs for the answer to a login and for the descriptors of empty files, which the code
   fails, and files that change while they are sent.
