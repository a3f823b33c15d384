# A verification development for DVWS

This directory holds TLA+ models of the web server under `src/`, TLC
configurations that check them on small instances, and theorems that TLAPS
proves for all instances. Paths such as `thread_pool.cpp:27` are relative to
`src/src/`. `PROJECT.json` lists, for every definition that models code, the
lines it stands for; the hazards of the code; and what each run checks.

DVWS is a teaching server with known defects. This development does not look
for more of them. It states what the code is correct about, under which
conditions, and where a comment in the code promises more than the code does.

## Inventory

### Components, state and operations

| Component | Source | State it keeps | Operations | Module |
|---|---|---|---|---|
| Accept loop | `main.cpp` | listening socket, `g_shutdown_requested`, descriptor table | poll, accept, submit, signal handler, drain | `Server` (`Server_proofs`) |
| Thread pool | `thread_pool.*` | `tasks_`, `shutdown_`, `mtx_`, `cv_`, eight threads | `submit`, `worker_loop`, destructor | `ThreadPool` (`TaskPool`, `ThreadPool_proofs`) |
| Log sink | `logging_sink.*` | `g_sink`, queue of records, one detached thread | install, enqueue, flush after a delay | `LogSink` (`LogPipe`, `LogSink_proofs`) |
| Request logger | `request_logger.*` | the log file and its rotations | log a response, rotate; `/logs` | `LogRotation` (`LogRotation_proofs`), `LogSink` |
| CGI helper | `mime_type_handler.*`, `utils.cpp:141-184` | a staged temporary file, a cached path | `/cgi-helper` | `CgiHelper` (`CgiHelper_proofs`) |
| Router | `router.cpp` | none; it reads sessions and rules | `dispatch`, `require_basic_auth` | `Router`, `Sessions`, `Request` |
| CGI rules | `cgi_rules.*`, `handlers/cgi.*`, `handlers/admin.cpp:135-200` | the vector of rules, the map of tags | add, update, look up and run | `Router` (`Router_proofs`) |
| Sessions | `session_manager.*`, `authentication.*` | `sessions`, the state of `rand()` | mint, look up, authenticate | `Sessions` (`Admission_proofs`) |
| Deployment | `handlers/deploy.*` | the tree under `<docroot>/deploy` | extract an archive | `Site` (`Site_proofs`) |
| Static files | `handlers/static_files.*` | reads the document root | map a path, redirect, serve, index, listing, conditional GET | `DocRoot` (`Admission_proofs`), `Site` (`Site_proofs`), `Router` |
| Other handlers | `handlers/status.*`, `echo.*`, `admin.*` | the request counter | one response each | `Router`; the echo page `Request`, `CgiHelper` |
| HTTP parsing | `http/request.*`, `utils.cpp:54-139` | none | request line, header, query, cookie | `Request`, checked by `Text` (`Admission_proofs`) |
| Codecs | `base64.*`, `utils.cpp:16-51`, `admin.cpp:37-133` | the lazily built decoding table | encode, decode, lengths | `Base64`, `Percent`, checked by `Text` (`Admission_proofs`); the table `Sessions` |
| HTTP responses | `http/response.*`, `error_handling.*`, `response_handler.*` | none | send | `Router` (status and presence of a body) |

### How they interact

`main()` accepts a connection and submits a closure that captures the
descriptor number. A pool worker runs it: one `recv()`, then `dispatch()`,
which parses, routes, and closes the descriptor; only an upload is read from
once more. Handlers call down into
sessions, rules, the file system and `log_request_response()`; the latter
either appends to the log file itself or hands the record to the asynchronous
sink. Workers share, without any lock, `g_sink`, `sessions`, the rules and
their tags, the statics of `get_cgi_helper_path()`, the decoding table, the
C library's `rand()`, one temporary file name, the log files and the document
root. Only `tasks_`/`shutdown_` (`mtx_`) and the log queue (`g_queue_mtx`) are
locked.

### What is hard

* Wakeups: `notify_one()` after the lock was released, spurious wakeups, a
  shutdown at any point (`ThreadPool`).
* Descriptor numbers that the kernel reuses, EMFILE, silent clients, requests
  that arrive in parts, handlers that throw (`Server`).
* Heap addresses that are reused while a queued record still refers to the
  object that was there (`LogSink`).
* File names that several workers use at once: log rotation, the staged
  helper, deployed pages (`LogRotation`, `CgiHelper`, `Site`).
* Check-then-act over unlocked state: sessions and the decoding table, rules
  and tags, the cached helper path (`Sessions`, `Router`, `CgiHelper`).
* Time in whole seconds: the seed of the session generator and the validator
  of conditional requests (`Sessions`, `Site`).
* Crashes between two renames, full disks, failed forks.
* Text that is searched, not parsed: where a request line, a header, a cookie
  or an escape is found depends on everything around it; arithmetic with a -1
  for foreign characters (`Request`, `Percent`, `Base64`, `DocRoot`).

### What makes each component correct

* Pool: no task waits while a worker sleeps for no reason; each runs once, in
  order; destruction drains.
* Accept loop: nobody reads, writes or closes somebody else's descriptor, and
  each comes back unless a handler throws; a connection is served unless its
  own client holds its worker; a shutdown ends, and forgets nobody.
* Sink: records come out once, in order, through a live object.
* Log files: bounded, and only the oldest is dropped.
* Helper: the client gets the helper's output, and no file stays behind.
* Sessions: one per visitor, admission only with credentials or an id that came
  with them, and always with right ones once the decoding table is there.
* Router: one answer per request, no body after HEAD, rules found and run as
  what they are.
* Site: the report is true, the declared length is sent, a 304 is true.
* Readers of text: what a well-formed client sent is what the server reads, and
  what it reports; a redirect leads to what was asked for.

## Modules and their correspondence to the code

Each module says at its top which code it models and what an action stands
for. A stretch of code that holds a lock is one action; every unlocked read or
write of shared state is an action of its own. A definition introduced by
"Faulty variant" belongs to no specification: it is the next definition with a
plausible bug, and the property named in `PROJECT.json` ("mutants") must fail
when it takes that definition's place. Variables called *history* in a comment
do not influence behaviour; properties use them to say "as long as nothing
overlapped".

**ThreadPool** (`thread_pool.cpp`). `tasks`, `shutdown`, `running` are the
members and the local of the same names; `owner` and `worker` are the program
counters of the accept loop inside `submit()` and the destructor, and of each
worker. `Submit` is the push under the lock and `NotifyOne` the later
`notify_one()`; `Shutdown`, `NotifyAll`, `Join` are the destructor; `Wait`,
`SpuriousWakeup`, `Exit`, `Take`, `Finish` the worker. **TaskPool** is the
contract: a FIFO of tasks with `Capacity` slots.

**Server** (`main.cpp:113-159`, the closes in `router.cpp`, the second `recv()`
of `handlers/admin.cpp:128`) instantiates `ThreadPool` with connections as
tasks, and adds the loop's program counter, the kernel's backlog, the
descriptor table, the client's end of each connection, the bytes that wait for
a `recv()` (`unread`) and the closure's stages. `Fds` is small enough for
EMFILE. A request may arrive in two parts (`Slow`; `Client` sends the first,
`SendRest` the other); `RecvRequest` takes what is there and goes on with it,
and only an upload receives a second time (`UploadReceives`). `Held` names the
two situations in which a worker sits in `recv()` for as long as its client
likes.

**LogSink** (`logging_sink.cpp`, `request_logger.cpp:74-83`, the handler
`logging()`). `heap` tells which construction lives at which address, so that
address reuse is visible. `ReadOld`, the swap and `DeleteOld` are the three
unlocked steps of `install_log_sink()`; `Collect` is a pass of the worker under
its lock: `DueAt` are the positions whose delay is over, `Picked` the entries
at such positions in the order of the queue. **LogPipe** is the contract: a FIFO of records.

**LogRotation** (`request_logger.cpp:19-45, 97-119`). `dir` maps each rotation
number to a file, files are numbered by creation; `RemoveLast`, each rename,
`Open` and `Append` are separate, with a crash possible between any two and a
file sink that appends without rotating.

**CgiHelper** (`mime_type_handler.cpp:63-169`, `utils.cpp:141-184`). One name
for all requests; what the name denotes follows the file system: truncation
keeps the inode, removal unlinks it, an executing file is not opened for
writing and a file open for writing is not executed. The echo page
(`handlers/echo.cpp`) looks the helper up as well (`Echoes`) and may be the
first to do so. A fork or an open may fail (`ForkFails`, `OpenFails`); a helper
that was located and cannot be opened is answered like a missing one.

**Sessions** (`router.cpp:29-60, 134-175`, `session_manager.cpp`,
`authentication.cpp:20-27`, `base64.cpp:18-29, 63-66`). A session id is the
pair of the seed in force and the number of draws since. `Seed`, `Draw`,
`StoreSession` are separate steps of different workers. `Send` is the
environment: a request names the id its client was given, that of another
client, one that somebody guessed before it was minted, one that the generator
never makes (`Presented`), or none. The server does not tell these apart, and
right credentials authenticate the id as it came, without giving the client a
new one (`BasicAuth`); `tests/exploit/test_session_fixation.py` and
`test_predictable_session.py` show what follows. The decoding table is
published by the `malloc` (`PublishTable`) before it is filled (`FillTable`),
so that a second first use may read garbage or publish another table.

**Router** (`router.cpp`, the handlers, `cgi_rules.cpp`). One action per route
of `dispatch()`; a reply is a status code, its standard fields and whether a
body follows. The look-up of a rule keeps iterators, so that a push by another
worker that moves the vector's storage is visible (`ScanFaults`); `PushRule`
and `TagRule` are apart, as in `handlers/admin.cpp:144-146`.

**Site** (`deploy.cpp`, `static_files.cpp:114-246`). A path is a sequence of
components, a file a sequence of blocks and a time in seconds. Deployments go
entry by entry: one `mkdir`, an open that truncates in place, block writes, and
an `fclose()` that may lose what stdio still buffers. To the deployers in
`MayFill` any `mkdir`, open or write may fail, because the disk is full or no
descriptor is left (`full` remembers at which entries). Downloads examine, decide
on 304, and read to the end of the file as it then is.

The next four hold functions, not actions: what the code reads out of a text.

**Base64** (`base64.cpp`, `utils.cpp:108-139`). Encoding and decoding by the
code's own arithmetic on 32-bit groups, with the -1 that the table has for a
character outside the alphabet, the C-string view of the result, and the split
of the credentials at the first colon.

**Percent** (`utils.cpp:16-51`, `admin.cpp:26-52`). `url_decode()`, which reads
its digits with a stream, `decode_status_param()`, and the length estimate that
sizes the latter's buffer, as recursive functions over byte sequences. Where
`url_decode()` reads nothing from two white spaces, `value` is what the
uninitialised variable held: any byte, `Leftover`.

**Request** (`http/request.cpp`, `utils.cpp:54-106`, `session_manager.cpp:33-55`,
`handlers/echo.cpp`). A request is a sequence of tokens: a token stands for a
string that the code searches for as a whole (`"GET"`, `" HTTP/"`, `"Host:"`,
a line end), for a single character with a meaning, or for a letter. Methods
are found inside words too, as `strstr()` finds `GET /` in `FORGET /`:
`EndingIn` names the words that end in each. `Parse` tries the methods in the
order of the code, over the whole text (`FindMethod`); `Verdict` is
how `dispatch()` answers; then header look-up, query parameters (`ParamsOf`,
the loop over the pieces between ampersands, by where they begin), session
cookie and the echo page with its escaping.

**DocRoot** (`static_files.cpp:118-164, 249-318`). The document root as a set of
directories and files; `Names` are the elements of a path, `Walk` is
`weakly_canonical()` along them, `ServeStatic` the choice of redirect, index,
listing, file or 404. The code's prefix test for paths outside the root
(`static_files.cpp:262`) becomes the field `outside`.

**Text** is the environment of these four: a client composes credentials, a
parameter or a request symbol by symbol, so that every input within the bounds
is a state, and the invariants compare what the server reads with what was
composed. `TokensAssumption` and `SentAssumption` give the texts of requests
their shape: the words that the code looks for are tokens, and what blanks and
line ends separate is free of them. The three others say in which requests the
code, which searches, finds what was meant: the name of a header that it looks
for stands only where a header begins (`HeaderAssumption`, `BodyAssumption`; a
target with `Cookie:` in it would be taken for the header), and a value does
not begin with the white space that the code skips (`ValueAssumption`). A header
may be sent twice, and there may be others that nobody looks for. The
definitions of what was meant (`SentParams`, `Shown`, `PercentEncode`, `Bit`)
are written independently of the readers.

Modules named `MC...` only give constants their values.

## Runs

| Run | Question | Instance |
|---|---|---|
| `pool` | the pool's invariants, its refinement of `TaskPool`, and that tasks and the shutdown come to an end | 3 workers, 4 tasks |
| `server` | descriptors, service, and that a shutdown ends and forgets nobody, with EMFILE, a client that may throw, stay silent, upload or send in parts, a signal at any moment | 2 workers, 3 connections, 2 descriptors, a backlog of 1 |
| `sink` | live sinks, order and delivery of records while sinks are swapped and addresses reused | 2 records, 2 installers, 3 addresses, 3 sinks |
| `rotation` | bounded files, oldest dropped, newest retained, with crashes and a file sink | 2 workers, 9 records, 2 rotations, 1 crash |
| `helper` | output, look-up and clean-up of the staged helper | 4 requests and an echo page, 3 at a time, one of them with a failed fork or open |
| `sessions` | distinct sessions, admission, that authentication is never undone, and the decoding table | 2 clients, 2 requests each, 3 seconds, a guessed and an invented id |
| `router` | one answer, no body after HEAD, rules served and run as what they are | 3 requests of any kind, 2 paths |
| `site` | count, placement, declared length and 304 | 2 deployments, one with a path twice and with failing calls, 2 downloads, 2 seconds |
| `text` | credentials, escapes, request lines, parameters, headers, cookies and paths are read as what was sent | texts of 4 and 8 bytes; targets of 5 pieces; 2 headers and a body |
| `server_throws` | *violated*: `main.cpp:138` "The worker owns closing client_socket" | 2 connections |
| `rotation_race` | *violated*: `request_logger.cpp:33` "drop the oldest" | 2 workers |
| `sessions_second` | *violated*: `router.cpp:169` "Fresh visitors get a minted session." | 2 clients, 1 second |

### What the passing runs show

* `WorkConserving`, `EachTaskOnce`, `DrainedBeforeExit`: releasing the lock
  before `notify_one()` is harmless here, because a worker that is awake
  re-evaluates the predicate under the lock before it sleeps. `EachTaskOnce` is
  an invariant, that no task is in two places, and an action property, that
  none leaves all of them: a worker that took a task and dropped it would
  satisfy the first alone.
* `DescriptorIsMine`: a captured number denotes the accepted connection for as
  long as the closure may use it, although numbers are reused at once.
  `ServedBeforeExit`: the drain takes in what was queued, running or about to
  be notified when the signal came, and what the listener held is reset.
  `ShutdownExits` and `ConnectionIsServed` have one exception, `Held`, and need
  it: `recv()` has no timeout, so that a silent client holds the drain; and an
  upload whose body came together with its head waits for bytes that do not
  come, while its client waits for the answer. Only the connection's *own*
  client excuses it: the others are served although one of two workers, or one
  of two descriptors, is lost.
* `CurrentSinkLives`, `NoSinkLeaks`: publishing the new sink before deleting
  the old one is right when installations do not overlap. `ImplementsPipe`
  and `EveryRecordWritten` hold whatever overlaps.
* `SerialRotationDropsOldest`, `NewestRetained` hold for rotations in turn;
  `LogStaysBounded` for all: the overshoot is one record per worker plus what
  a file sink appends.
* `HelperRan`, `LocatedOnce` hold for requests in turn; `NothingLeftBehind`
  for all: whoever stages removes, and removing twice is harmless.
* `SessionsDistinct` holds when fresh visitors come at different seconds.
  `AdmittedByCredentials` needs no such condition: only right credentials
  authenticate an id, and whoever is admitted has sent them or names an id that
  they came with, from whomever. It does not say that the id is the visitor's:
  an id that was planted or guessed stays good after its victim's login.
  `StaysAuthenticated` is about ids that some client was given, and about ids
  that are never minted: one that is guessed and authenticated first is reset
  when it is minted.
  `RefusedOnlyWhileBuilding`: first uses of the decoding table that overlap may
  refuse right credentials, and leak a table, but once nobody is filling one,
  the one in use is complete.
* `AnsweredOnce` excepts the two routes whose handler returns silently on a
  failed allocation, fork or temporary file; `HeadHasNoBody` excepts the
  500 of the log viewer (`request_logger.cpp:159`) and running rules.
  `AddedRuleIsServed` holds although the path is tagged after the push.
* `HelperRan` and `LocatedOnce` except requests whose own fork or open fails,
  not those that come after them.
* `CountIsOnDisk` counts what `fclose()` lost (`tails`), because the code does;
  of entries with one path only the last is on disk, and the report may exceed
  what is there by those before it (`Replaced`). `ShallowEntriesLand` excepts
  the entries on which disk or descriptors ran out.
  `DeclaredLengthSent` and `NotModifiedIsTrue` hold for files that nobody wrote
  under a download or again in the second in which they were examined.
* `CredentialsSurvive` holds for all bytes but NUL. `QuartetsDecodeAlone`: the
  -1 of a foreign character spills within its own quartet only.
  `EscapedTextComesBack` holds for text that was escaped; malformed escapes are
  read differently by the two decoders, and no property relates them.
* `RequestLineDecides` and `EchoReportsRequest` take requests in which nothing
  after the request line reads like one (`Misleading`): the code searches the
  whole text, `"GET /"` first. The method is the one that the first word ends in
  (`Taken`). For a method it finds, the code takes any
  `" HTTP/"` for a version; for another it wants digits after it. The echo page
  differs from what was sent in four cases, which the property excepts: a
  header without a value yields the line that follows it, the root is an empty
  path, a doubled first slash loses one, and of a longer word that ends in a
  method only this end is reported.
* `RedirectArrives`: following the 301 of a directory leads to that directory's
  index or listing, without a loop, for the root too. Its `Location` is the path
  as it came: where that begins with two slashes it names another host
  (`NetworkPath`), which takes a target with a doubled first slash. Names
  outside printable ASCII get the directory at once, and so do paths ending in dots behind a name
  that does not exist, to which `weakly_canonical()` adds the slash.
* `SessionIsRead` says when a cookie comes back as it was set: when a semicolon
  in the same header ends it, or when the rest of the request has none at all;
  the search for the semicolon does not stop at the line's end.

### Bounds, and why they are enough

Each cfg names its bounds. Three workers let one run, one wait and one be on
its way to the lock; four tasks queue behind them. Two descriptors for three
connections force both EMFILE and reuse. Three sinks over three addresses
delete and reuse an address under a queued record; two records show reordering.
Nine records over files of two fill and shift both rotations more than once.
Four helper requests allow one after, and three during, another. Two clients
with two requests each over three seconds visit, fail to log in, log in, or name
each other's id, in any order, while the other does the same; the first id of
the generator may be named before it is minted. The archives share a file that
one has twice, a file whose parents only the other makes, and a corrupt entry; a
name that is a file's and a directory's is in no instance, and the proofs cover
it. Three requests let two admins race
one look-up. A backlog of one makes a client wait for room in it, and three
connections fill both workers and it. Texts of four of seven kinds of byte
(NUL, line end, `%`, `+`, colon, letter, byte above 127) have escapes at and
over their end and every padding; texts of eight over two letters, `=` and a
foreign character have neighbouring quartets of every kind. Targets of five
pieces have two parameters of one key, empty names, `..` and a doubled slash;
two headers and a body behind short targets put a cookie or a misleading
request line before and after everything else. Two seconds make a copy current,
stale, or rewritten within a second. Counters that would grow for ever (`born`,
`calls`, `now`, `sent`, `gets`) stop at a constant in the guard.

### Fairness, deadlock and symmetry

`pool`: the threads of a pool are scheduled (weak fairness of each worker and
of the owner inside a call), and handlers return; nothing forces a task to be
submitted or the pool to be destroyed. `server`: the same for the main
thread and the workers, handlers return, clients that are not `Silent` send or hang
up, and who has sent a first part sends the rest; that a client gives up
(`GiveUp`) is possible and never assumed. No strong
fairness is used: the kernel's `notify_one()` may choose whichever waiter it
likes. `sink`: weak fairness of time, of the worker and of a request inside a
call, while the process runs; none of installers. The other specifications
have no liveness property and no fairness. Deadlock is checked in every run;
where everything may come to rest, `Next` has an explicit stuttering disjunct
whose guard says what rest is. Symmetry is used where nothing but invariants
and action properties is checked.

### Findings

* `main.cpp:138`: a handler that throws is caught by the pool
  (`thread_pool.cpp:42`), and nobody closes the descriptor.
* `request_logger.cpp:33`: two workers that rotate at once overwrite a newer
  rotation while an older one is kept.
* `router.cpp:169`: the generator is reseeded with the second
  (`session_manager.cpp:18`), so two fresh visitors of one second share a
  session.
* `http/request.h:28`: a well-formed request line whose method is a longer word
  ending in a supported one is served as that one (`request.cpp:39`).

The models also show, without a run of their own: a descriptor leaked by a
throwing handler and a worker held by a silent client, with as many of each as
there are, stop the accept loop for good; `deploy.cpp:39` "creating parent
directories if needed" makes one level only, so a nested file may land at the
second deployment and not at the first; an overlapping first request may be
told that the helper was not found (`utils.cpp:150`).

## Proofs

Eight modules hold proofs, one per component with state that is shared;
`Admission_proofs` is also about the readers of text. TLC checked every inductive invariant on the component's run before it was proved;
the proof then holds for every value of the constants that meets the module's
named assumptions. All have the same shape: `IInv` is a conjunction of named
parts, lemmas show that a step keeps each of them, by action or by part,
`...Invariant` puts them together, and the properties follow. The assumptions
are those of the modelled module: an instance is finite where the model counts,
model values for "none" are not among the values they stand beside, bounds are
numbers. Where one says more, the section says so.

### Thread pool (`ThreadPool_proofs`)

| Theorem | States |
|---|---|
| `PoolTypes` | `TypeOK` |
| `PoolConservesWork` | `WorkConserving`: sleepers exist only if the workers awake, and the notification under way, cover the queue |
| `PoolRunsEachTaskOnce` | `EachTaskOnce`: in one place at most, and no step loses a submitted task |
| `PoolDrains` | `DrainedBeforeExit` |
| `PoolImplementsTaskPool` | `ImplementsTaskPool`, the refinement that `pool` checks |

The safety properties are not inductive by themselves. `IInv` adds three
facts: only the owner's call sets `shutdown_` (`ShutdownByOwner`), a joined
owner has seen every worker exit (`JoinedMeansExited`), and exactly the running
workers carry a task (`CarriesTask`). `WorkConserving` is a count: it needs
that a step which wakes or puts to sleep one worker changes `Awake` by one
(`AwakeGrows`, `AwakeShrinks`), and that a take removes one task
(`PopTakesFromQueue`). `PoolDrains` needs that a worker exits only with the
queue empty under shutdown, and that no submission follows. There is one lemma
per action (`SubmitIInv`, ..., `FinishIInv`), and the refinement uses `IInv` in
every step: `Submit` maps to `Accept`, `Take` to `Start`, `Finish` to `Finish`,
`Shutdown` to `Close`, `Join` to `Stop`, the rest to stuttering.

### Accept loop and connections (`Server_proofs`)

| Theorem | States |
|---|---|
| `ServerInvariant` | the inductive invariant `IInv` |
| `ServerDescriptorIsMine` | `DescriptorIsMine` |
| `AcceptedConnectionIsNew` | what `accept()` returns was never submitted: no two closures share a connection |
| `ServerOnlyThrowsLeak` | `OnlyThrowsLeak` |
| `ServerServesBeforeExit` | `ServedBeforeExit` |
| `ServerDrivesPool` | `Pool!Spec`: every behaviour of the server is one of its pool |

`DescriptorIsMine` alone does not survive a step: that a worker's `close()`
frees a number which no other closure captured needs that no other closure has
the same connection, and a connection has one closure only because it waits in
the backlog once and leaves it when it is submitted. `IInv` therefore ties five
things together: the types (`Types`); that the workers in a closure are the
pool's running workers, each with a connection (`InClosure`); the pool's
`NeverTwice`; that the descriptors captured by queued and running closures
are theirs (`OwnDescriptor`); and that the backlog holds new connections, once
each (`AcceptedOnce`). `accept()` takes a free number, so it takes nobody's
(`AcceptIInv`); a take changes hands only (`TakeConnIInv`); the end of a closure
frees its own number, from which all others differ because `open` is a function
(`ClosureEndsIInv`); everything else leaves the closures alone (`PoolAtRest`,
`RestIInv`, `ConnectIInv`, `ClientIInv`).

The two further invariants rest on `IInv`. A descriptor in use is the one its
connection was accepted on (`AcceptedOn`): were there a second, closing the
first would leave it behind, which `OnlyThrowsLeak` has to exclude. The drain
needs an account of every client, in the backlog, submitted or reset
(`Accounted`), and how the shutdown proceeds (`WindsUp`): the listener closes
before the pool is destroyed, a worker that has left has left an empty queue,
and the process ends after the join. Here the assumption that there are workers
at all is used. `ServerDrivesPool` says that what the other module proves of
the pool applies: the theorems themselves are not instantiated, which the
prover does not support across the two modules' assumptions.

### Log sink (`LogSink_proofs`)

| Theorem | States |
|---|---|
| `SinkInvariant` | the inductive invariant `IInv` |
| `SinkCurrentSinkLives` | `CurrentSinkLives` |
| `SinkCapturedSinkWasAlive` | `CapturedSinkWasAlive` |
| `SinkNoSinkLeaks` | `NoSinkLeaks` |
| `SinkImplementsPipe` | `ImplementsPipe`, the refinement that `sink` checks |

For the sinks, `IInv` says what an installer at each of its steps holds of the
heap (`InTurn`): its new object exists and is not installed, the old one is the
installed one before the swap and the only other one after it. `NeverNull`
carries the check of one read of `g_sink` over to the other. The refinement
reads the pipe off as written, due and queued records one after another, and
its hard step is `Collect`: due entries are those of age `FlushTicks`, entries
are queued oldest first (`Captured`), hence the due positions are a prefix
(`DueIsPrefix`) and the split keeps the order (`CollectSplits`). No assumption
says that installations or records do not overlap, but for the history variable
of the two properties that name it.

### Sessions (`Admission_proofs`, first part)

| Theorem | States |
|---|---|
| `SessionsInvariant` | the inductive invariant `IInv` |
| `SessionsStayDistinct` | `SessionsDistinct`, if `Spaced` |
| `SessionsAdmitByCredentials` | `AdmittedByCredentials` |
| `SessionsStayAuthenticated` | `StaysAuthenticated`, if `Spaced` |
| `SessionsRefuseOnlyWhileBuilding` | `RefusedOnlyWhileBuilding` |

`Spaced` is the constant of the model that makes fresh visitors come at
different seconds; without it the first is false (`sessions_second`). An id is
a seed and a number of draws, and is `Minted` if its seed was used and, while
that seed is in force, its number was drawn: a later draw is therefore new, and
so is every id under a new seed. `EachItsOwn` gives each minted id to one client,
whatever ids requests name, so that storing a new session overwrites nobody's.
`Vouching` carries right credentials from the request that brings them to the
map and to the admission, through all steps of the login, and needs no
`Spaced`. The last theorem is independent: a published table that is not filled
is some worker's to fill (`TableComes`).

### Readers of text (`Admission_proofs`, the other parts)

| Theorem | States |
|---|---|
| `DecodeInvertsEncode` | `base64_decode()` gives back what `base64_encode()` was given, any number of any bytes |
| `BasicCredentialsReadBack`, `CredentialsAlwaysSurvive` | `CredentialsSurvive`: what a client sends is what `authenticate()` compares |
| `LettersDecodeAlone`, `QuartetsAlwaysDecodeAlone` | `QuartetsDecodeAlone`, for texts of any length |
| `UrlDecodeInvertsEscapes`, `StatusDecodeInvertsEscapes`, `EscapedTextAlwaysComesBack` | `EscapedTextComesBack`, with the length estimate |
| `RequestLineAlwaysDecides` | `RequestLineDecides` |
| `SessionAlwaysRead` | `SessionIsRead` |
| `PageShowsText` | `html_escape()` leaves no markup, and a browser shows what was escaped |
| `RedirectAlwaysArrives` | `RedirectArrives`, for every document root |
| `EchoAlwaysReports` | `EchoReportsRequest` |

The bounds of the run are gone: alphabets, tokens, pieces, headers, bodies and
the tree are arbitrary sets, and texts have any length. The state contributes
little: three invariants of the clients, which say nothing of the server and are
lemmas (`BytesAreTyped`, `RequestsAreShaped`, `HeaderNamesStandAlone`). What is
typed are bytes, a request is a record of words whose target starts with a
slash or a star, and no header the server looks for is named in its request
line or body. The rest is what the readers compute of such a request, and that
is a matter of all positions of a text.

*Induction.* What a recursive function computes is shown in one of two ways,
because the induction theorems of the library take an operator and cannot be
used. Either the positions at which a claim fails are a set of numbers; were it
not empty, it would have a least element (`HasMinimum`), and the step before
that is a contradiction. Or the positions at which the claim holds are a set
that contains 0 and the successor of each member (`NatInductive`). A function defined backwards
over positions, as the decoders are, exists (`BackwardExists`), which `CHOOSE`
alone does not say; `ParamsOf`, which goes forward, likewise
(`CollectorExists`).

*Codes.* `SextetIsBounded`, `OctetIsByte` and `TripleOfEncode` are the
arithmetic of one quartet: shifts are quotients, and the word that the decoder
puts together is the one the encoder took apart; `EncodeFacts` is the position
of every letter and of the padding. For escapes, `Marks` are the positions at
which the escape of each byte begins, and `IsDecoder` is what both decoders
have in common, so that the argument is made once.

*Searches.* Everything the code reads of a request begins with a `find()`.
`FindFacts` says what `Find` is, `FindFirst` and `FindToken` how to get hold of
its result; `FindMethodFirst` and `FindMethodNone` do it for methods inside
words. `LineFacts` and `HeaderLineParts` say what stands at which position
of the request that was composed; what was found there is then the request line
(`StartFound`, `EndFound`, `ParseFacts`), a header (`HeaderFound`,
`ValueExtracted`, or `HeaderNowhere` if it was not sent), a cookie
(`SessionUpToSemicolon`, `SessionUpToLineEnd`), or the query, which the code
reads a second time by the first two blanks (`QueryFound`).

*Parameters.* `Text` says what was meant with stretches between ampersands, the
code splits off pieces: they are the same (`StretchIsPiece`, `PieceIsStretch`),
and of those with the same key the loop keeps the last (`CollectedNext`,
`ParamsAreLast`).

*Redirects.* `PathTaken` is what `parse()` makes of a path: the same, the empty
path for the root, or one slash less of two. None changes the names in it
(`SlashBefore`, `SlashBehind`, `TakenPath`), so that the request which follows
the redirect asks for the same place with a slash at its end (`Followed`), and
`serve_static()` looks at nothing else (`Served`). A `Location` that names
another host comes from a target that began with two slashes (`NetworkPathAsked`).

What these theorems suppose are the named assumptions of `Text`, and what their
properties except: `Misleading` requests, NUL in credentials, empty values.

### CGI helper (`CgiHelper_proofs`)

| Theorem | States |
|---|---|
| `HelperInvariant` | the inductive invariant `IInv` |
| `HelperRuns` | `HelperRan`, if a helper is installed |
| `HelperLocatedOnce` | `LocatedOnce` |
| `HelperLeavesNothing` | `NothingLeftBehind` |

`NothingLeftBehind` follows from `NameIsStaged`: whatever the shared name
denotes, some request that will remove it is between staging and removal. The
others follow from where a request in turn is (`FileOf`, `AnswerOf`): the file
it writes is the one the name denotes, with as many blocks as it has copied,
closed before the mode is set and the copy executed. `FilesSuffice` counts
inodes, so that numbering them bounds nothing. `HelperRan` speaks of requests
that get to run something: a server without the helper is the one hypothesis.
An open fails for a request in turn only if descriptors ran out on it
(`OpenTempFailsTurn`): nobody executes what the name denotes.

### Log files (`LogRotation_proofs`)

| Theorem | States |
|---|---|
| `RotationInvariant` | the inductive invariant `IInv` |
| `RotationLogStaysBounded` | `LogStaysBounded` |
| `RotationEveryFileCounted` | every file there is belongs to the set that `LogStaysBounded` quantifies over |
| `RotationDropsOldest` | `SerialRotationDropsOldest` |
| `RotationRetainsNewest` | `NewestRetained` |

The bound is a potential (`SizesBounded`): the size of a file and the number
of threads about to append to it without another look at its size, which one
worker's look may raise only below the threshold, and a call of the file sink
by one. It needs the threads counted, hence finite sets of them, and a
threshold of at least one byte. The order of the rotations is `Serial`: older
files have higher numbers, and the loop has emptied the number it renames to.
`Undisturbed` is stronger and needs no crash: the newest files are there without a
gap except one hole, which the loop moves from the end to the beginning. Both
hold for every `Keep`.

### Router and rules (`Router_proofs`)

| Theorem | States |
|---|---|
| `RouterInvariant` | the inductive invariant `IInv` |
| `RouterAnswersOnce` | `AnsweredOnce` |
| `RouterHeadHasNoBody` | `HeadHasNoBody` |
| `RouterServesAddedRule` | `AddedRuleIsServed` |
| `RouterRunsOnlyCgiRules` | `OnlyCgiRulesRun` |

`AnsweredOnce` needs to know which route led to a place (`InPlace`), and that
nothing is sent before the end (`Answered`). `AddedRuleIsServed` is the
interesting one: a rule is pushed before its path is tagged (`PushedFirst`) and
tagged before its admin is told (`SettledBeforeTold`), and it stays `Settled`
although other requests push rules, move the storage, or insert a tag while
they look one up. A lookup that expects a rule has it ahead of its iterator,
within the end it fixed, and none of its path behind (`ExpectsRule`,
`InBounds`). `OnlyCgiRulesRun` is that tags and objects have somebody who asked
for them (`TagsAsked`, `RulesAsked`).

### Site (`Site_proofs`)

| Theorem | States |
|---|---|
| `SiteInvariant` | the inductive invariant `IInv` |
| `SiteDeclaredLengthSent` | `DeclaredLengthSent` |
| `SiteCountIsOnDisk` | `CountIsOnDisk` |
| `SiteShallowEntriesLand` | `ShallowEntriesLand` |
| `SiteNotModifiedIsTrue` | `NotModifiedIsTrue` |

The proof has two halves, because deployments and downloads share only the
files. For downloads, `Knows` says what a request knows since it examined its
file, and `True` what a client's copy knows: the content as long as the time is
the same, except for a path rewritten in a second in which it was examined
(`racy`). For deployments, what entry a deployment is at (`InOrder`) and what
the entries before it left (`CountSoFar`, `LandSoFar`) are sums over a prefix of
the archive, which the step to the next entry extends by one; `Tree` keeps file
names and directory names apart, so that a shallow entry has its parent.
Archives may have a path more than once. The count is then kept with two sets:
entries on disk, and entries whose file a later one has opened again
(`Replaced`). Opening an entry moves at most one from the first to the second,
because all others of its path had been replaced before (`OpeningReplaces`), and
writing it disturbs none of the first (`EarlierEntriesStay`).

### Only model-checked

* Liveness under fairness, which is beyond the prover: `EveryTaskFinishes`,
  `ShutdownCompletes`, `ShutdownExits`, `ConnectionIsServed`,
  `EveryRecordWritten`.
* The four violations: their runs show a behaviour.

Every other property of a passing run is stated by a theorem. Two invariants
are theorems without being among the runs' properties: `TypeOK` of the pool,
and `OnlyThrowsLeak`, the converse of the first finding: a descriptor comes
back from every closure but one that an exception ends. TLC confirmed both on
the instances of `pool` and `server` before they were proved.

## Not modelled

Wording, layout and headers of responses; what a log record says, and the
pipeline of the log viewer; the text of a directory listing; symbolic links,
and files outside the document root; the reading of an archive (vendored
miniz); memory effects of data races on `unordered_map`, `std::map` and
`vector`, which are taken as atomic per access except where a property is about
them; paths long enough for `clean_path`; the wrap-around of the upload's
32-bit sum, which one comment states and nothing depends on; functions that
nobody calls (`invalidate_session`, `set_session_cookie`); start-up, the banner
and fuzz mode. `PROJECT.json` gives each of these a status and a reason, and
hazards that no property covers have a note.

## Plan

The components that are only partly modelled lack wording and vendored code,
not behaviour, and the invariants and action properties of all runs are proved.
What could still be added:

1. Contracts for the log files and for the sessions, as `TaskPool` and
   `LogPipe` are for the pool and the sink: a bounded list of files from which
   only the last is dropped, a map that grows; with the refinements proved from
   the invariants above.
2. How the two decoders of escapes differ on malformed escapes, and what the
   code reads of requests that `HeaderAssumption` or `Misleading` leave out: as
   properties of the run first.
3. Shorter proofs where a lemma per part repeats a lemma per action
   (`Router_proofs`, `LogRotation_proofs`).
