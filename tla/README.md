# A verification development for laikaboss

laikaboss scans files. An object is matched against YARA rules, the rules name
scan modules, a module may extract further objects, and these are scanned in
turn. The *laikad* service does this for remote clients with a pool of worker
processes; `laika.py` does it on the command line. This directory holds TLA+
modules that model the parts of the system where concurrency, failure and order
matter, TLC runs that check them on small instances, and TLAPS proofs of the
results that should hold for instances of any size.

Contents: 1 inventory, 2 the modules and the code, 3 what the runs check,
4 bounds, 5 fairness, 6 what is proved, 7 what the models leave out,
8 disagreements found, 9 plan.

## 1. Inventory

### 1.1 Components

| Component | Source | State | Operations |
|---|---|---|---|
| SyncBroker | `laikad.py` 244-431 | `available_workers`, `working_workers`, shutdown flag and grace deadline, ROUTER sockets to clients and workers | take a request while a worker is available; READY, RESULT_READY, RESULT_QUIT, QUIT of a worker; shut down gracefully |
| AsyncBroker | `laikad.py` 127-241 | `available_workers`, PULL and ROUTER sockets | pull a request; the same four worker messages; stop |
| Worker | `laikad.py` 436-725 | `counter`, `keep_running`, expiry, DEALER socket, object being scanned | say READY, scan, report, repeat READY, QUIT and the grace check after it, signals |
| Supervisor | `laikad.py` 730-980 (`main`) | child processes, `KEEP_RUNNING` | replace dead children, shutdown with a grace time |
| Client | `clientLib.py` 160-333 | REQ or PUSH socket, retries left | `send` with timeout, reconnection and retries |
| Dispatch | `laikaboss/dispatch.py`, `si_module.py` | result tree, call stack, module queues, timer | match, run modules, recurse, second pass, unwind |
| laika | `laika.py` | task queue with its count, result queue, consumers, progress bar | put files and pills, join, print; scan a file |
| cloudscan | `cloudscan.py` | job queue, result queue with what its feeder threads have not moved, processes, one Client each, the log | read a file, send, save, log; Ctrl-C |
| laikamilter | `laikamilter.py` | per connection: headers, recipients, buffers, `rtnToMTA`, `alreadyScanned`; the configuration | the milter callbacks from `envfrom` to `eom` or `abort`; reload, scan, answer |
| Redis forwarder | `laika_redis_client.py` | list and keys in Redis, the file in hand, an asynchronous Client | pop, look up, parse, send, delete; signals |
| Scan modules | `laikaboss/modules` | none between objects (a cache of instances) | parse one format, extract, flag; DISPOSITIONER rolls flags up |
| Object model, utilities, configuration, client helpers | `laikaboss/*.py` | records and option values | conversions, look-ups, roll-ups |
| Packaging | `Docker`, `setup.py`, `tactical_bin`, `etc` | none | |

### 1.2 Interaction

    Client --REQ/ROUTER--> SyncBroker  --ROUTER/DEALER--> Worker --calls--> Dispatch --> modules
    Suricata --Redis--> Redis forwarder (Client) --PUSH/PULL--> AsyncBroker --ROUTER/DEALER--> Worker
    Supervisor (main) starts, watches and ends the broker and the workers
    laika main --JoinableQueue--> Consumers --call--> Dispatch ; Consumers --Queue--> laika main
    cloudscan main --Queue--> processes --use--> Client ; processes --Queue--> cloudscan main
    laikamilter --uses--> Client

Between processes there are only messages: no process reads another's memory.
Inside a worker or consumer a scan is sequential, broken into by a timer
(`interruptingcow`) and by the signal handler, both of which raise exceptions
wherever the program is.

### 1.3 Hard behaviours, and what makes the components correct

* **Broker and worker disagree for a while.** A worker repeats READY after each
  poll timeout and may do so just as the broker sends it a task. The lists must
  stay free of duplicates, a worker must not get a second task, and the broker
  must know of every worker that has one (`BrokerLists`, `OneTaskPerWorker`).
* **A retiring worker and a task cross.** QUIT and a task pass each other; the
  grace check is there for this, and must lose nothing as long as the broker is
  not slower than the poll timeout (`RequestConserved`, `RequestAnswered`).
* **Retries.** After a timeout the same object travels a second time. A reply
  has to belong to the object of the latest `send` (`ReplyMatches`) and an
  attempt may be scanned and answered once only (`AttemptInOnePlace`).
* **Ends and restarts.** A broker is killed or told to stop while messages are
  under way both ways. The graceful stop must deliver what is being scanned
  (`DrainDelivers`) and must itself come to an end (`BrokerReturns`); workers
  must become known to the next broker (`WorkerListed`).
* **Exceptions through recursion.** The timer of a scan, a signal or failing
  rules unwind a tree of calls; marks, limits, order and completeness of the
  result must be right for whatever is cut short (`TimeoutMarked`,
  `ExtractedScanned`, `DepthLimit`, `RunsInOrder`, `LateStarts`, `ScanEnds`).
* **A verdict from a whole tree.** DISPOSITIONER reads what it has itself left at
  the children of an object; they must all have been through it before, and
  their flags must arrive at the root whatever pass extracted them
  (`VerdictCoversTree`).
* **Counting.** `laika.py` waits for a count of tasks and then for a count of
  results; both must add up whatever fails (`JoinCounts`, `OnePlace`,
  `EndsComplete`, `CallEnds`). `cloudscan.py` counts results only, and its
  processes may end for reasons that main does not hear of (`EachOnce`,
  `LogComplete`, `CloudEnds`).
* **A file in hand.** The Redis forwarder takes a file off its list before it
  sends it, deletes its keys afterwards, and is interrupted by signals that three
  bare `except:` swallow (`KeysOutliveForwarder`, `OneCopy`, `SignalEnds`).
* **One object, many mails.** The milter keeps one object for all mails of a
  connection and loads a configuration half way through initialising it again.
  No verdict, recipient or buffer may reach the next mail (`OwnVerdict`,
  `ShutdownScansNothing`). An exception may end `eom` before the verdict or after it,
  in the middle of the log, and `eom` may be called again: no recipient may be logged
  twice, and no mail be scanned after its first line (`LoggedOnce`,
  `ScannedBeforeLogged`). A file that stays unreadable must not hold up the mail
  (`CallbackReturns`).

`PROJECT.json` lists each hazard at its line with the properties that cover it.

## 2. The modules and the code

### 2.1 laikad

| Module | Models | Remarks |
|---|---|---|
| `LaikadWire` | the ZeroMQ sockets (external code) | what a send, a reconnection, the end of a process do to messages |
| `SyncBroker` | `SyncBroker.run` | one action per half of a loop pass, and the graceful shutdown |
| `AsyncBroker` | `AsyncBroker.run` | |
| `Worker` | `Worker.run`, `perform_scan`, signal handler | `pc[w]` is the place in `run()` |
| `Client` | `Client.send`, `_send_recv` | the synchronous form |
| `RedisForwarder` | `laika_redis_client.py`, with `_send_only` of `Client` | Redis is external: a list and a set of keys |
| `Supervisor` | the loop of `main` and its shutdown | |
| `Laikad` | wire, SyncBroker, workers, clients, supervisor | `Spec`, `FairSpec`, the properties, the refinement mapping |
| `LaikadAsync` | AsyncBroker, workers, supervisor, with forwarders as its clients | |
| `ScanService` | nothing: the abstract specification | what a caller of `send` may rely on |
| `MCLaikad`, `MCLaikadAsync` | | symmetry sets for TLC |
| `SeqLemmas`, `WorkerLemmas` | | lemmas on sequences; lemmas on the wire, the workers and the supervisor, for either broker |
| `LaikadProofs`, `LaikadServiceProofs` | | theorems on `Laikad`; that it implements `ScanService` |
| `LaikadAsyncProofs` | | theorems on `LaikadAsync` |

Correspondence of state. `frontend` is the queue at the broker's client socket,
`inbox[w]` and `chan[w]` are the two directions between broker and worker,
`mail[c]` is a reply not yet read by the client. `avail` and `working` are
`available_workers` and `working_workers`. `held[w]`, `count[w]` and `stop[w]`
are the object being scanned, `counter` and the negation of `keep_running`.
A message body is an *attempt*: client, connection number and number of the
call of `send`. With these three a duplicate, a stale reply and a retry can be
told apart; what is in the object cannot change what the service does with it.
Of a worker, `TasksOf(w)` is the set of attempts it has (in its inbox, in hand, and
in results not yet heard), `Load(w)` their number; `Unread(w)`, `Listed(w)` and
`Backlog(w)` count what AsyncBroker may still give it.

ZeroMQ is external, so `LaikadWire` keeps what the code relies on. A ROUTER
socket drops messages for identities that are not connected. A REQ socket gets
a new identity at each connection (`conn[c]`). Messages between two live
sockets arrive once and in order. When a broker's process ends, every client and
worker connects again to the next one; which of the messages under way are lost
is left open (`LoseBroker`): of those to a worker a suffix, of those from a
worker a prefix, of the requests any. The last is more than ZeroMQ does (a
request that had reached the dead broker cannot come back), which only adds
behaviours.

Because the frontend is a set, requests are taken up in any order. The ROUTER
socket serves its peers in turn and each client has one request at a time, so
any order is possible.

The clients of `LaikadAsync` are forwarders. `fpc[c]` is the place in the loop of
`laika_redis_client.py`, `hand[c]` the file it has popped. `queue` and `keys` are
what is in Redis; Suricata may fail to store one of the two keys of a file
(`partial`), which is then skipped. `fate` is history: what has been decided
about a file. A signal (`ForwarderSignal`) raises SystemExit at the place where
the process is. In `_send_only` the exception of the first try reconnects (with
what the socket still held lost) and sends again, that of the second makes
`send` return False, and in the parsing it counts as text that is not JSON; each
of these goes on with the loop (`Swallowed`). Anywhere else the process ends. Metadata
without the expected HTTP fields is a KeyError that nothing catches
(`ParseFails`). An identity in `frontend` is a file, so that two copies of it
can be counted only if they travel by different connections, which is how the
second try sends.

`ScanService` has one queue, no processes and no identities. Its `Lossy`
parameter says whether an attempt may be dropped once taken up and a caller may
stop waiting. `Laikad!ServiceSpec` instantiates it with `queued <- frontend`,
`running <- OnItsWay` (all that is in an inbox, held, or in a result not yet
seen by the broker), `answered <- Delivered` and `Lossy <- (Faults # {})`: with
no fault allowed, laikad must implement the service that loses nothing.

### 2.2 Dispatch

`Dispatch` models one call of `Dispatch()` by a worker or consumer until it
returns. The recursion is a stack of frames, one per Python call of `Dispatch`
(first pass, second pass, or with modules named by the caller). `files` is
`result.files`, with what is recorded at each object. Which rules match and what
modules extract is open.

Correspondence of actions: `NextRule` is the `get` from the priority queue,
`SkipModule` the two ways in which a listed module is passed over, `RunModule`
the module and the wrapper `SI_MODULE.run` around it, `DispatchChild` the
recursive call up to its own `try`, `SecondPass` is `_conditional_scan`,
`Return` and `Unwind` are the two ways out of a call, `Interrupt` is the timer
or the shutdown signal.

`Taken` is what `NextRule` takes from the queue, `After` what a module leaves of its
call, `WithEntry` what it leaves at the object. `DispatchProofs` holds the theorems.

Two details that are easy to get wrong are kept. `depth` is incremented in the
first-pass branch only, before the tests that look at it. And the timer's
exception is one that modules can swallow: `explode_zip.py` has a bare `except:`
(53) and a handler for `RuntimeError`, a superclass of it, that fails (119).
The scan is ended then by the comparison with its end time after the module
returns (line 76), which only first-pass calls make; `late` records it.

Flags are kept because the verdict is made of them. A matching rule gives flags to
the object and to its parent (`Matched`). `RunModule` of DISPOSITIONER stores
`RollUp`: the object's own flags and what its children have stored.
`addMetadata` makes a list of a value stored a second time and the roll-up
passes over a list; so an object that was dispositioned twice counts for nothing
in its parent (`Dispositions`, the places where it has stored something, has then two elements). `disposition.yara` says that the
module takes the flags of "any descendent objects"; an object beyond the maximum
depth runs no modules, has therefore stored nothing, and its flags are not in the
verdict. `VerdictCoversTree` speaks of the objects on which the module had the last
word (`Settled`): it ran once, nothing ran after it, and not in the first pass, as
the rules of a second pass that match later still give flags. An object takes over
what its `Reporting` children have stored; `Within(o)` is all that reports to `o`,
by way of any number of others.
Modules that do not exist or cannot be initialised (`Broken`) are passed over as
modules that have run are.

### 2.3 laika.py and cloudscan.py

`LaikaPool` models `main` from the creation of the queues on, the `Consumer`
processes and the `QueueMonitor`. `unfinished` is the count inside the
`JoinableQueue`. A consumer marks its task as done before it puts the result:
these are two steps. Its two ways to die are kept: the handler for an unreadable
file, which fails on an undefined name after `task_done()`, and the `break`
after a failed scan, whose `finally` still reports.

`Cloudscan` models `cloudscan.py`, for one file (`ReadOne` to `SaveOne`) and for a
list. `jobQueue` holds files and STOPs. A `put` into a Queue of multiprocessing
only hands the result to a feeder thread: `outbox[p]` is what process `p` has put,
`pipe` what has reached main, and `Feed` moves one when there is room. A process
that ends waits for its feeder (`Leave`), and main waits for its processes
(`AwaitSenders`). The ways to end without a result for a file in hand are kept: a
tunnel that cannot be set up (`Connect`), a directory that cannot be made
(`SaveFile`). `Interrupt` is Ctrl-C, which reaches main and all processes at once;
inside sending or saving, the bare `except:` makes it a result and the process
goes on. `CloudTypeOK` documents the types; the runs check what is built on it, and
`CloudTypeCorrect` proves it.

`MCPools` extends both modules and runs one of the two programs in each behaviour, so
that one run checks both. `PoolProofs` holds the theorems on both.

### 2.4 laikamilter

`MilterConfig` models the class of that name: `loader` is the one being loaded
(by `__init__` within `envfrom`, or by `Dispositioner` within `eom`), with its
attempt and `loadError`. Each of the four loaders is a step that reads the file,
and `Rewrite` may come between any two. A file is one of the configurations up
to some section, or cut within a line (`ParsingError`, from every loader) or
before an option of `ArchiveOptions` (`NoOptionError`, from `loadConfig`, which
has taken over `COMMON` by then).

`LaikaMilter` models one connection. `self` is the object: `from` is
`CUSTOMFROM`, `rcpts` is `CUSTOMORCPT`, `buffer` and `held` are `fph` and `fpb`
(which are opened and closed together) and what has been written to them, `rtn`
is `rtnToMTA` and `scanned` is `alreadyScanned`. `phase` is what the mail server
has sent, `at` the callback that is waiting for the loader. `fresh`, `ground`,
`given`, `logged` and `answer` are history for the properties: `ground` is the
mail and the content that `rtnToMTA` rests on.

`envfrom` is `EnvFrom` alone when nothing is initialised again, else `EnvFrom`,
the loader, and `EnvFromLoaded` or `EnvFromFails`. The first clears what
`__init__` clears before it loads, the second sets what it sets after. `eom` and
`abort` are `EndOfMessage`, then, unless it has answered, the loader of the
Dispositioner, and `Disposition` or `DispositionFails`.

The `try` of `eom` reaches from line 283 to 308, and its handler returns `rtnToMTA`.
An exception before that is assigned (line 293) is `ReturnAsIs`, from `EndOfMessage`,
`Disposition` or `DispositionFails`. With the assignment the rest of `eom` is
`Decided`, which has three outcomes: `StopsBeforeClosing` (an exception in lines 294
to 296: the buffers stay open, and a repeated `eom` scans again), `StopsInLog` (one
in lines 297 to 304: the buffers are closed, so a repeated `eom` ends with the
exception of line 291; any number of recipients have been popped and logged, and one
may have been popped without a line) and `Concludes` (line 305 is reached). The
handler itself is taken not to fail. Without the macro `{i}` of the mail server `qid`
is None, and two lines that name it fail: line 303, after all recipients have been
logged, one of the places of `StopsInLog`; and the line of `abort` before it calls
`eom`, the second disjunct of `Abort`. Which mails have a `qid` is left open: either
may happen to any mail. libmilter calls `abort` only before the end of the message,
so no `abort` follows an `eom`.

`LaikaMilterProofs` holds the theorems.

## 3. What the runs check

| Run | Module, cfg | Shows | Distinct states |
|---|---|---|---|
| `calm` | `MCLaikad`, `LaikadCalm` | nothing fails: no request is lost where retiring workers and tasks cross, and laikad implements the lossless `ScanService`; no deadlock | 216 thousand |
| `faults` | `MCLaikad`, `LaikadFaults` | workers signalled, killed or failing, a slow broker, a client that times out: one task per worker, attempts and replies stay right, `max_scan_items` holds, laikad implements the lossy service | 439 thousand |
| `restart` | `MCLaikad`, `LaikadRestart` | brokers end and come back, the supervisor shuts down: types, lists, attempts and replies | 307 thousand |
| `drain` | `MCLaikad`, `LaikadDrain` | liveness, and what a graceful stop delivers | 61 thousand |
| `async` | `MCLaikadAsync`, `LaikadAsync` | Redis, a forwarder, AsyncBroker and workers with all kinds of failure: the backlog of a worker, copies of a file, what is left in Redis | 1.0 million |
| `forwarder_exit` | `MCLaikadAsync`, `ForwarderExit` | a violation, see 8.1 | |
| `dispatch` | `MCDispatch`, `Dispatch` | one scan with everything that can break it off, and the verdict | 752 thousand |
| `dispatch_root` | `MCDispatch`, `DispatchRoot` | a violation, see 8.2 | |
| `pool` | `MCPools`, `LaikaPool` | `laika.py` with failing files and scans; `cloudscan.py` with failing files, connections and directories, and Ctrl-C | 497 thousand |
| `pool_join` | `LaikaPool`, `LaikaPoolJoin` | a violation, see 8.3 | |
| `milter` | `MCMilter`, `Milter` | two mails of a connection with up to two recipients, exceptions anywhere in `eom`, a configuration file that is cut short and rewritten: what a verdict rests on, what is scanned and logged, and that every callback returns | 802 thousand |
| `milter_left_over` | `MCMilter`, `MilterLeftOver` | a violation, see 8.4 | |

Every property has, in `PROJECT.json`, a mutant: a definition replaced by a
plausible slip of the code (the operators whose comment begins "A slip"), under
which TLC finds the property violated. So none holds by the shape of the model.

Some properties deserve a word.

* `OneTaskPerWorker` says that a worker has at most one task, counted over its
  inbox, its hands and the results it has sent, *and* that the broker then has
  it in `working_workers`. It holds while the broker is not replaced; with a
  second broker it does not (a READY inherited by a new broker from a worker
  that is busy), which is why `restart` does not list it.
* `RequestConserved` and `DrainDelivers` speak of the first broker, for the same
  reason. The comment at `DrainDelivers` gives the sequence.
* `ItemsBounded` counts the scan of the grace check, which the code does not.
* `BoundedBacklog` is what remains of `OneTaskPerWorker` for AsyncBroker: each
  READY still unread can earn a busy worker one more task.
* `OneCopy` counts the copies of a file at the broker and the workers. It must
  allow two where a signal has interrupted `send` after the first try handed the
  file over; without signals there is one at most.
* `KeysOutliveForwarder`: the list forgets a file before it is sent, so after a
  crash the keys are all that is left of it. They are never deleted while nothing
  has been decided about the file.
* `EachOnce` counts the places of a file in `cloudscan.py` (queue, hands, feeder,
  pipe, log): at most one, and exactly one unless main has stopped early.
  `CloudEnds` has the two ways to hang (`Dropped`, `Stranded`) and the loss of results
  by an interrupt as premises; the hazard at `cloudscan.py:492` tells of them.
* `VerdictCoversTree` compares what the objects of a tree have stored, each from what its
  children had stored when it was their turn, with the flags of all of them gathered at
  once at the end, as `flagRollup` of the client does. A flag that comes late, a child that
  comes late or a level that is left out would show.
* `ExtractedScanned` compares the number of objects modules returned with the
  number of finished children, so it fails when any exception is swallowed at the
  wrong level.
* `DepthLimit` has four parts: the depth recorded at an object is its parent's plus
  one (or its parent's, for what a caller's modules extract), so it is the
  depth in the tree; it stays within the limit; an object at the limit has run no
  module of a rule; and its result says that the limit was met.
* `OwnVerdict` and `LoggedOnce` speak of the mails for which the object was
  initialised, by connecting or by an `__init__` that ended (`fresh`). For the
  others they fail: see 8.4. `ScannedBeforeLogged` and `ShutdownScansNothing` hold for
  every mail.
* `LoggedOnce` does not say that a mail with a verdict is logged: an exception after the
  verdict leaves recipients without a line, still on the list, and no later `eom` makes
  up for it. What holds is that at most one recipient is neither on the list nor in
  the log, that none is there twice, and that `alreadyScanned` means all of them.
* `ScannedBeforeLogged` is what is left of "a mail is scanned once": an exception in
  lines 294 to 296 lets a repeated `eom` scan again, but only while nothing has been
  done about the recipients. It rests on the buffers being closed before the log.

Deadlock is checked in `calm`. Elsewhere the system does
stop: clients make a bounded number of calls, a scan or a call of `laika.py`
ends, a connection has brought its mails, the supervisor shuts the service down,
or a killed pool runs out of the
identities that the model has for new workers. `LaikadAsync` and
`Cloudscan` state their types (`TypeOK`, `CloudTypeOK`) for the proofs; no run lists
them, since what the runs check says more of the same variables.

## 4. Bounds

| Bound | Where | Why it is enough |
|---|---|---|
| `Workers` 2 or 3 with `NumProcs` 2 | laikad | two workers at a time are needed for a race between workers; the third identity of `calm` lets a retired one be replaced by one nobody remembers, elsewhere an identity is used again when nothing remembers it |
| `Clients` 1 or 2 | laikad | two clients compete for workers in `calm` and `drain`; with faults one client with two calls and a retry produces the stale replies |
| `MaxSends` 1 to 3 | `Client` | two calls let the reply to the first come during the second |
| `Retry` 0 or 1 | `Client` | one retry makes one duplicate |
| `MaxItems` 1 or 2 | `Worker` | retires a worker after one scan, or after going round the loop once more |
| `MaxChan` 1 or 2 | `Worker` | READYs that a worker adds while the broker is behind |
| `MaxConn` 0 to 2 | `Laikad` | how often a broker ends or a client reconnects: two restarts let messages of the first broker reach the third |
| `MaxFiles` 2 | `RedisForwarder` | one file in hand while the next waits, or after one that was lost |
| `MaxDepth` 2, `MaxObjects` 3, `MaxKids` 2 | `Dispatch` | a child and a grandchild with modules, siblings of which one fails, a child of the first and one of the second pass; a grandchild beyond the limit when the root has been counted, none when the caller named its modules |
| three rules, four modules | `MCDispatch` | two priorities that share a module, one module that does not exist, and a second pass that runs a module of the first again and then DISPOSITIONER |
| `MaxJobs` 4, `NumProcs` 3 | `LaikaPool` | fewer files than processes, as many, and more; none at all |
| `MaxListed` 3, `ListLimit` 2, `CloudProcs` 2, `PipeSize` 1 | `Cloudscan` | lists shorter than, as long as and longer than the number of processes, one beyond the limit of a list, and a pipe that is full |
| `MaxMails` 2 | `LaikaMilter` | a mail that finds the object as it was made, and one that finds what that mail has left: an object initialised again, half initialised, or as it was. The theorems are for any number of mails |
| `MaxRcpts` 2 | `LaikaMilter` | of two recipients one is logged and the other lost or still on the list |
| `MaxLoadAttempts` 2 | `MilterConfig` | an attempt that fails, and the last one, which takes a missing section as it is |
| `MaxRewrites` 1, `Written` {0} | `MilterConfig` | the file is any of the files when the connection begins (its object has read an earlier one) and changes once more, between any two readings; without any section there are no servers |

Bounds are guards of the named actions only (`MaxChan` in `PollTimeout`,
`MaxConn` in `MayEnd`, `ClientStep` and, of `LaikadAsync`, `BrokerStep` and `ForwarderStep`, `MaxSends` in `ClientSend`, `MaxKids` and
`MaxObjects` in `RunModule`, `MaxFiles` in `Arrive`, `MaxMails` in `EnvFrom`, `MaxRcpts` in `EnvRcpt`,
`MaxRewrites` in `Rewrite`).

## 5. Fairness

`Laikad!Fairness`. Weak fairness for what a worker does of itself, for its poll
timeout, for the broker receiving a message of a worker, for a client reading a
reply, and for the supervisor's reactions and timers: each of these is a running
process or a timer, and once enabled stays so until it happens. Strong fairness
for taking up the request of a client: the broker polls the frontend only while
a worker is available, so the action is enabled again and again rather than
always, and the ROUTER socket serves its peers in turn. No fairness is assumed
for faults, signals, client time-outs or new calls.

`Dispatch!FairSpec` is weak fairness of everything but `Interrupt`: the program
runs, and a module that hangs is ended by its own timer. The timer of the scan
and the shutdown signal need never come, so `ScanEnds` does not rest on them.

`LaikaPool!FairSpec` is weak fairness of each process. Cancelling is not fair.
`Cloudscan!CloudFair` is weak fairness of main, of each process and of each feeder
thread; `send` is one step because its polls have a time-out and its retries a
limit. Ctrl-C is not fair. `MCPools!PoolsSpec` assumes both.

`LaikadAsync!FairSpec` is weak fairness of the forwarder alone: a process that can
go on does. Its only use is `SignalEnds`, whose violation must not rest on a
forwarder that stands still.

`LaikaMilter!FairMilterSpec` is weak fairness of what a callback does once it has
been called (the answer of the scan server included: `Client.send` has a
time-out and a bounded number of retries). Nothing is assumed of the mail server
or of whoever writes the file.

## 6. What is proved

Every theorem holds for every set of workers, clients, rules, modules or mails,
for every value of the bounds of section 4 and, where nothing else is said, for
every combination of faults. The bounds are constants; what a theorem says
does not depend on how large they are.

### 6.1 Theorems

| Module | Theorem | Property |
|---|---|---|
| `LaikadProofs` | `TypeCorrect` | `TypeOK` |
| | `BrokerListsCorrect` | `BrokerLists` |
| | `AttemptsInOnePlace` | `AttemptInOnePlace` |
| | `RepliesMatch` | `ReplyMatches` |
| | `ItemsAreBounded` | `ItemsBounded` |
| | `OneTaskEach` | `OneTaskPerWorker`, if `Faults` has neither `brokerSignal` nor `brokerKill` |
| | `DrainsDeliver` | `DrainDelivers`, if `Faults` has neither `brokerKill` nor `supStop` |
| `LaikadServiceProofs` | `RequestsConserved` | `RequestConserved`, if `Faults` is empty |
| | `ImplementsService` | `ServiceSpec`: laikad implements `ScanService`, if `Faults` has none of `brokerSignal`, `brokerKill`, `supStop` |
| `LaikadAsyncProofs` | `TypeCorrect` | `TypeOK` |
| | `BacklogIsBounded` | `BoundedBacklog` |
| | `KeysOutlive` | `KeysOutliveForwarder` |
| | `CopiesAreFew` | `OneCopy` |
| `DispatchProofs` | `DispatchTypeCorrect` | `TypeOK` |
| | `ModulesRunInOrder` | `RunsInOrder` |
| | `DepthIsLimited` | `DepthLimit` |
| | `FewLateStarts` | `LateStarts` |
| | `TimeoutIsMarked` | `TimeoutMarked` |
| | `AllExtractedScanned` | `ExtractedScanned` |
| | `VerdictCovers` | `VerdictCoversTree` |
| `PoolProofs` | `TypeCorrect` | `TypeOK`: `task_done()` is never called too often |
| | `JoinCorrect` | `JoinCounts` |
| | `QueueEmptiedAtEnd` | a call that has ended left no task and held none |
| | `FilesInOnePlace` | `OnePlace` |
| | `CallsEndComplete` | `EndsComplete` |
| | `NoConsumerStarves` | `PillsSuffice`: while a consumer waits, a task is queued or still to be put |
| | `CloudTypeCorrect` | `CloudTypeOK` |
| | `CloudEachOnce` | `EachOnce` |
| | `CloudLogComplete` | `LogComplete` |
| | `NoSenderStarves` | `StopsSuffice`: a process that asks for a job finds one |
| `LaikaMilterProofs` | `MilterTypeCorrect` | `MilterTypeOK` |
| | `VerdictIsOwn` | `OwnVerdict` |
| | `EachRecipientLogged` | `LoggedOnce` |
| | `LoggedAfterLastScan` | `ScannedBeforeLogged` (of steps) |
| | `MaintenanceScansNothing` | `ShutdownScansNothing` (of steps) |

Four theorems restrict `Faults`. With a second broker a worker may be given a second
task (section 3); a broker that is killed, by itself or when the supervisor stops
the service, delivers nothing; a worker that fails loses the request it holds; and a
new broker makes clients connect again that have not asked for it, which the
abstract service does not know. The runs that check these properties (`calm`,
`faults`, `drain`) keep within the same limits, so the theorems and the runs speak
of the same systems.

### 6.2 Assumptions

All are assumptions on constants, named in the module that declares these, and
evaluated by TLC in the runs.

* `LaikadWire`: `FaultsAssumption` (faults are among the kinds there are),
  `NoneAssumption` (no attempt is the value for "nothing held").
* `Worker`: `MaxItemsAssumption` (`max_scan_items` is positive), `MaxChanAssumption`;
  `Client`: `RetryAssumption`; `RedisForwarder`: `MaxFilesAssumption`.
* `Dispatch`: `RulesAssumption` (priorities are numbers, rules name sequences of
  modules; DISPOSITIONER extracts nothing), `DepthAssumption`, `BoundsAssumption`,
  and `FlagsAssumption`: no rule gives one of the flags by which the dispatcher
  marks an object. Lines 221 and 224 of `dispatch.py` put `dispatch::` before the flag of a
  rule, while the marks begin with `dispatch:err:` or `dispatch:nfo:`.
* `LaikaPool`: `PoolAssumption` (there is a process). `Cloudscan`: `CloudAssumption`
  (there is a process, and the pipe holds at least one result).
* `MilterConfig`, `LaikaMilter`: `MilterConfigAssumption` (what a
  configuration may say: its mode, a list of servers, a limit on attempts to load it),
  `MilterAssumption` (no disposition is called "default").

### 6.3 laikad

Two modules hold what the others share. `SeqLemmas` has what `Append`, `Tail`,
`RemoveFirst` and prefixes do to the elements of a sequence, to its being
injective and to how often something occurs in it. `WorkerLemmas` has what
sockets, workers and supervisor do, whichever broker they work with: to the
types, and to the tasks of a worker. `TasksOf(w)` is its inbox, what it
holds and the results under way; they are `Neat` if no two are equal, and then
there are `Load(w)` of them. A step of a worker changes `TasksOf(w)` in one of a
few ways (some lost, one given, one moved on), so each invariant needs an
argument for each of these ways and not for every action.

`LaikadProofs` goes in two steps. `IInv` is `TypeOK /\ HeldWhileScanning /\
BrokerLists`. `TypeOK` alone is not inductive, because `Finish` and `GraceFinish`
put `held[w]` into a message and a message must not carry `None`;
`HeldWhileScanning` says that a worker holds a task exactly while it scans. `Inv`
adds

* `Apart`: what is at the broker, with workers and delivered has no attempt in
  common, nor have two workers, and the tasks of each are `Neat`;
* `Known`: no attempt is newer than its client, so a request that is sent is one
  that is nowhere yet;
* `Awaited`: what travels over a client's present connection is the call the client
  is in, and its socket is then empty (`ReplyMatches` would not be inductive alone:
  the reply is right because the request was);
* `Orderly`: the count of a worker that may still take a task is below
  `max_scan_items`, an inbox exists only with its socket, and the phases of
  supervisor and broker fit;
* `FirstOneTask`: `OneTaskPerWorker` while the broker is the first one.

`DrainsDeliver` is a theorem about steps: a broker that leaves early does so with
`working` empty, and while it is the first, `OneTaskPerWorker` says that each worker
with a task is in `working`. So there is none, and nothing is on its way.

`LaikadServiceProofs` adds `Calm` for `Faults = {}`: a worker that is leaving has an
empty inbox, is not listed, and its last word is RESULT_QUIT or QUIT (`Farewells`);
a worker that is listed as working has one task, not fewer (`Exact`); and
everybody who waits is owed something (`Settled`). This is the argument about the
grace check: between a QUIT and its arrival the broker may send one task, and the
worker is still there to take it. `ImplementsService` shows that `Init` maps to
`Init` of `ScanService` and that each step of laikad maps to the step of the same
name or to a stutter; `MailCurrent` is needed where a client reads a reply.

`LaikadAsyncProofs` has three invariants, each on top of the one before. `IInv`
is for `BoundedBacklog`: AsyncBroker has no list of workers at work, so what is
counted is the unread READYs, the listings and the tasks together, and
`BootFresh` says that a new process begins with none of these. `FInv` is for
`KeysOutliveForwarder`: a file is in the list or in the hand of one forwarder
(`Hands`), and the place in the loop says what can have been decided about it
(`HandFates`). `CInv` is for `OneCopy`: two copies of a file travel by two
connections, the second newer than the first (`Newer`), so there is no third.

### 6.4 Dispatch

`DispatchProofs` has one inductive invariant, because its parts need each other:

* `Tree`: the objects form a tree, children after their parent, with the depth of
  their parent plus one (or the same, for what a caller's modules extract);
* `Calls`: the stack of calls. Each is `Sound` (its depth is that of its object, a
  call that may still run or dispatch is not too deep), each is a `Link` to
  the one below it, and only a second pass shares its object with a first;
* `Fitting`: what has run on an object fits what its call may still run. The
  priorities that have run are at most the present one, which is at most each of
  those queued, and the modules that have run are in the set of modules seen. This
  is what `RunsInOrder` needs;
* `Course`: while calls are under way nothing is cut short, and whatever a timeout
  cuts short gets its mark;
* `Lateness`: no late start has been recorded as long as modules may still start;
* `Accounts`: for each call, pass by pass, the number of children dispatched plus
  the number still to dispatch is the number of objects that modules returned, and
  each child is done or belongs to a call higher on the stack.

`Accounts` is the core: `ExtractedScanned` compares numbers when a call has
returned, and the recursion, the second pass and every exception on the way
must leave them equal. `ExtractedScanned` and `TimeoutMarked` follow from the
invariant. `DepthLimit` is part of it.

The verdict has an invariant of its own on top, `VInv`:

* `Fruitless`: a module that stores a roll-up has extracted nothing;
* `Giving`: where a call `Waits` for an extracted object, under way or still to be
  dispatched, the last module that ran on its object is the one that extracted it
  (`Giver`). With `Fruitless`: an object whose last module was DISPOSITIONER waits for no
  child, whose rules could give it a flag or whose roll-up could change;
* `RolledUp`: what a settled object has stored is `RollUp(o)` *now*, its own flags and what
  its children have stored, though it was computed steps ago. Until the object is
  done, this holds as long as its call stays where it was when DISPOSITIONER had run.

`VerdictKept` says which objects a step may leave out of account: those whose
flags, entries and children it does not touch. `VerdictCovers` then leads from
`RolledUp`, which speaks of an object and its children, to the whole tree without
recursion. `Within(o)` is the smallest set closed under `Reporting`, so it is `o` and what
is within those who report to it (`WithinUnfold`). If some settled object stored
anything else than the flags within it, there is one added last of all such
(`GreatestUpTo` of `SeqLemmas`, from the well-foundedness of the natural numbers);
its children were added after it, so their roll-ups are right, and so is its own.

### 6.5 laika.py, cloudscan.py and laikamilter

`PoolProofs`, for `LaikaPool`: `IInv` is `TypeOK /\ JoinCounts /\ CancelStops /\ PastJoin /\
FileInHand`. The type of the count needs `JoinCounts` (a consumer with a task in
hand is counted, so there is one to take off), which in turn needs `CancelStops`
(after a cancellation no consumer acts); the type of the results needs `FileInHand`
(what is reported is a file, not the pill); `PastJoin` carries the zero of the count
to the end of the call. `HoldingMoves` counts the tasks in hand once for all
actions. `PInv` adds `InCall`, `OnePlace` and `PillPlaced`: pills that are in a list
and consumers that a pill has ended add up to the number of processes. With
it, a count of zero and a result for every file leave no consumer that has died,
hence `EndsComplete`. It is also why no consumer starves.

For `Cloudscan`: `CInv` is `CloudTypeOK /\ Course /\ HandsFull /\ OneInBox /\ Spread`.
`Spread` is `EachOnce` for a list that has been `Begun`; `Course` says that nothing has
happened in one that has not, and that main leaves its loop as it says (`ending`).
`HandsFull` gives a process a file exactly where it is at work on one, and `OneInBox` lets
the boxes be counted as a set of processes: a box holds a file once, because a file
in hand is in no box (`HeldNotBoxed`). Each step moves one file from one place to
the next; only `Interrupt` moves many, and for it what counts is that the boxes grow
by nothing but what has left the hands. `LogComplete` follows: as many results as
files, no two for one file, so one for each, and every other place is empty.
`Stops` (in the queue are at least as many STOPs as processes that still work) gives
`StopsSuffice`: a process that leaves early leaves its STOP behind. `CloudEnds` and `CallEnds`
would fail if a process waited for a job or pill that never comes; these two theorems
exclude it for any number of processes.

`LaikaMilterProofs`: `MInv` is `FileOK /\ LoaderOK /\ Session`. Of `Session`, `Stage`
says what the object is inside each callback (in `envfrom`, before the configuration
has been loaded, the buffers and lists are clear already), `Grounded` that a
verdict rests on an earlier mail or on this one when no more of it is to come, and
`Own` that an object which was initialised holds nothing of another mail. `Listing`
has the recipients: nothing is logged and all are on the list until the buffers are
closed (`Unlogged`, of every mail); after that, in an object that was initialised, each
is on the list or logged, but for one (`Accounted`). That the buffers are closed
only by a verdict on this mail is part of it: else a recipient could still arrive. `Cut`
of `SeqLemmas` says what a list loses when it is cut in two where the log stops.
`ScannedBeforeLogged` and `ShutdownScansNothing` are about steps and follow from
`Stage` (in `eom` the buffers are open when the server is asked) and `Listing`.

### 6.6 Only model-checked

* Liveness: `RequestAnswered`, `BrokerReturns`, `WorkerListed`, `ScanEnds`, `CallEnds`,
  `CloudEnds`, `CallbackReturns`. The prover does not handle fairness or ENABLED.
  Every other property of the runs that pass is the subject of a theorem.
* The violations of section 8: TLC finds the behaviour.

## 7. What the models leave out

* Identities of workers never collide (the code draws one of 2^32 at random).
* Malformed messages: no process of the system sends one.
* Time is a choice: a timer may fire whenever it is running, except that without
  the fault `slowBroker` the broker is quicker than the grace check.
* The content of objects, results and metadata (but for what DISPOSITIONER stores),
  logging, statistics.
* In `RedisForwarder`: the moment in which the client has closed its socket and not
  opened the next; the high-water mark of a PUSH socket, which blocks `send`; the
  loss of what a PUSH socket holds while there is no broker is part of `LoseBroker`.
* In `Cloudscan`: a Ctrl-C in the run for one file, or a second one; what main does
  between starting the processes and its loop.
* Two brokers are never alive at once; the supervisor joins the old one first.
* In `Dispatch`: `dispatchmaxbytes`; the cache of module instances and
  `close_modules`; rules that fail to match for the root object itself, where
  the call ends with the exception before anything has happened.
* In `LaikaMilter`: archive files, headers added to the mail, which of the servers
  is asked (always the first: line 596 computes modulo one less than their
  number), descriptors that stay open after an exception. Two connections share
  nothing but a whitelist that does not change. An exception of the handler in
  lines 309 to 314 (of `print` or of the log).
* The components marked `not_modelled` in `PROJECT.json`: utilities, configuration
  and packaging keep no state of their own between steps. Of the scan modules
  only DISPOSITIONER works on the result tree; each of the others parses one
  format with a library, and the dispatcher sees what it extracts and how it ends.

## 8. Disagreements found

### 8.1 The Redis forwarder need not exit when told to

Line 33 of `laika_redis_client.py` calls `handler()` a "Signal handler for graceful
exit"; it raises SystemExit. The bare `except:` around the parsing of metadata (76)
swallows it: the file counts as one that is not JSON, its keys are deleted, and the
loop goes on. So do those in `_send_only` (`clientLib.py` 291, 301), where the file
is sent a second time or `send` returns False. The forwarder then waits for the
next file, for ever if none comes.

### 8.2 The timeout of a scan is not contained at the root object

`dispatch.py` line 368: "If not the root object, raise the exception to halt the
parent scan". The depth that the test looks at was increased on line 333, so the
test also holds for the root object. The caller of `Dispatch` gets the
exception; in `laika.py` the consumer ends.

### 8.3 `laika.py` hangs after a failure

A consumer that ends because of a failed scan, or of a file it cannot open,
leaves its poison pill in the queue. `tasks.join()` (line 332, "Wait for all of
the tasks to finish") then never returns, and no result is printed.

### 8.4 Something is left over from the last mail

`laikamilter.py` line 202: "If anything is left over from the last email, re
-initialize". The test is for the sender of the last mail. After a mail with the
null sender (a bounce), or after an `__init__` that ended with an exception
because the configuration did not parse, the next mail of the connection is not
initialised for: its `eom` finds `alreadyScanned`, and it is answered with the
verdict of the other mail without being scanned.

## 9. Plan

Order: what matters most first.

1. (done) laikad: wire, brokers, worker, client, supervisor, their composition,
   the abstract service; type and list invariants proved.
2. (done) Dispatch: one scan as a stack of calls.
3. (done) laika.py: the pool.
4. (done) laikamilter: the mails of a connection, reloading the configuration.
5. (done) Redis forwarder, as the client of AsyncBroker, with signals and crashes
   between steps.
6. (done) cloudscan: jobs, results and the processes that may return early.
7. (done) flags, and DISPOSITIONER's roll-up against `flagRollup`.

Proofs: (done) every invariant and every property of steps that the runs check, and the
refinement of `ScanService`. What could come next:

1. A scan pool that is replaced: which of the properties of the first broker hold, in
   what weaker form, for the second.
2. `DISPOSITIONER` run twice on an object (the hazard at `objectmodel.py:160`), with rules
   in which it happens.
3. The archive files of laikamilter and the choice of a scan server.
