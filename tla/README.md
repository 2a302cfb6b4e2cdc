# TLA+ models of the TPC request manager and the HTTP utilities

This directory checks three parts of the code with TLC.

- The third-party-copy (TPC) request scheduler of
  `src/src/XrdTpc/XrdTpcPool.cc`. It queues outbound transfers per label, runs
  them on per-label worker threads, and hands each one to libcurl.
- The string and error-code helpers of `src/src/XrdHttp/XrdHttpUtils.cc`.
- The OFS plugin of `src/src/XrdOfsPlugin`. It wraps the server's native
  file system and the files it opens.

## 1. Inventory

### Components

| Component | State it keeps | Operations that change state |
|---|---|---|
| `TPCRequestManager` (static) | `m_pool_map` (label → `shared_ptr<TPCQueue>`), a `shared_mutex`, and the tunables `m_idle_timeout`, `m_max_pending_ops`, `m_max_workers` | `Produce` (retry loop under the shared lock, then create under the exclusive lock, then `queue->Produce`); `Done(label)`; `SetWorkerIdleTimeout` |
| `TPCQueue` | `m_ops` (FIFO of request pointers), `m_workers` (vector of `unique_ptr<TPCWorker>`), `m_done`, `m_mutex` | `Produce`, `TryConsume`, `ConsumeUntil`, `Done(worker)` |
| `TPCWorker` (detached thread) | `m_idle`, `m_cv`, a libcurl multi-handle, the request in hand | `Run` loop: `TryConsume` → `ConsumeUntil` → `RunCurl` → `Done` |
| `TPCRequest` | `m_status` (−1 until done), `m_message`, `m_active`, `m_progress_offset`, `m_mutex`, `m_cv` | `SetDone` (store, `notify_one`), `SetProgress`, `WaitFor` (`wait_for` with a predicate). `Cancel` is in the header, not in `src/`, and nothing in `src/` reads its flag |
| Global worker limit | `SetMaxGlobalThreads`, `GetGlobalThreadCount` | Only in the spec and in `src/tests/XrdHttpTpc/XrdHttpTpcPoolTests.cc`. `XrdTpcPool.cc` has no such counter |
| HTTP utilities (`XrdHttpUtils.cc`) | none (pure functions) | URL parsing, base64/hex, hashes, quoting, XML escaping, errno→HTTP mapping |
| OFS plugin (`XrdOfsPlugin*`) | the global `ofs`; `m_next_sfs` (the native file system); each `FileWrapper`'s `m_wrapped` and the `error` it shares with it | `XrdSfsGetFileSystem2`; every file-system method, forwarded; `newFile`, which wraps the native file; `FileWrapper::open`'s verify loop, `close`, the forwarded methods, `~FileWrapper` |

### How the components interact

- **Producers.** An HTTP handler thread calls `TPCRequestManager::Produce`. It looks the label up under
  the shared lock and retries while the queue it finds is `m_done`. It creates a
  missing queue under the exclusive lock. Then it calls `TPCQueue::Produce` with no
  map lock held.
- **Queue admission.** `TPCQueue::Produce` appends the request under the queue mutex. It then
  notifies an idle worker, or spawns a detached worker while below
  `m_max_workers`.
- **Workers.** A worker loops: `TryConsume`, then `ConsumeUntil`, which waits on its condition
  variable up to the idle timeout, then `RunCurl` on the request. `RunCurl`
  ends with `SetDone`. When a worker leaves, `TPCQueue::Done` latches `m_done`,
  erases the worker, and, if none is left, releases the queue mutex and calls
  `TPCRequestManager::Done(label)`, which erases the label's map entry.
- **OFS plugin.** The server loads it with `XrdSfsGetFileSystem2`. It sends
  every file-system and file call through the plugin, which forwards them to
  the native objects. It is independent of the TPC code.
- **Shared state.** The map (under a shared mutex), each queue (under its own mutex), and each
  request (status under the request mutex, progress as relaxed atomics).

### What is hard here

- **Concurrency.** Producers, workers and the map interleave at every point where a lock is
  released and another taken:
  - between the lookup and `queue->Produce`;
  - between `ConsumeUntil` returning and `Done`;
  - between `TPCQueue::Done` and `TPCRequestManager::Done`.
- **Failure.** Each libcurl call can fail: `curl_multi_init`, `add_handle`, `perform` and `wait`.
  The failure paths call `Done(this)` and keep running.
- **Timeouts.** The idle timeout of `wait_for` races a producer's notify.
- **The RunCurl loop.** `while (true) { ... } while (running_handles);` only ends when libcurl
  fails. After a failed wait with the transfer still running, the empty
  `while (running_handles);` spins for ever, or is compiled away.
- **Queue lifetime.** A `TPCQueue` is owned by `shared_ptr`s: the map entry
  and the local `queue` of each running `Produce`. Workers hold only a
  `TPCQueue &`. Once the entry is erased and the last `Produce` returns, the
  queue and its `m_ops` are destroyed, whatever workers still use it.

### What makes each component correct

- **Queue.**
  - The pending cap holds.
  - Every accepted request is in exactly one place until it is done: no loss, no
    double dispatch.
  - Requests of a label are dequeued FIFO.
  - A pending request always has a worker that will still consume it.
- **Worker.**
  - Every running worker is counted in `m_workers`.
  - Every request it takes gets a final status, exactly once.
- **Manager.**
  - `Produce` returns.
  - At most one live queue serves a label.
  - The global worker limit holds. The spec and the tests require it, but the code
    lacks it.
- **Request.**
  - The status is terminal once and never changes after that.
  - `WaitFor` wakes when the request completes.

## 2. Plan

Modules, in order of importance, and where each stands:

1. **`TpcPool`** (done): manager, queue, worker and `RunCurl` against a
   nondeterministic libcurl, composed in one module. They share the queue and
   map state at every step, so splitting them would only add interfaces.
   `MC_TpcPool` instantiates it.
2. **`TpcLifecycle`** (done): the abstract per-request promise. `TpcPool`
   refines it through the mapping `AbsPhase` (checked in the `safety` run).
3. **`TpcRequest`** (done): the request's own protocol: `SetDone`/`WaitFor`
   with several waiters, spurious wake-ups and timeouts, and the tests'
   external `SetDone(499)` racing the worker.
4. **`HttpUtils`** (done): the algorithms of `XrdHttpUtils.cc` as operators
   checked against reference definitions.
5. **`OfsPlugin`** (done): the plugin and its file wrapper between the server
   and a nondeterministic native file system.
6. **Later:**
   - An abstract per-label FIFO queue that `TpcPool` would refine. It fails
     where the `fifo` finding does, so it is worth stating only together with
     a fixed variant of the pool.
   - Tunables (`SetMaxIdleRequests`, `SetMaxWorkers`), which are not in
     `XrdTpcPool.cc`. They would be spec-modelled: what the `==` pending test
     at line 165 does when the limit drops below the current depth.

## 3. The `TpcPool` module

### State

| Variable | Code |
|---|---|
| `poolMap` | `m_pool_map` |
| `ops`, `qWorkers`, `qDone` | `TPCQueue::m_ops`, `m_workers`, `m_done` |
| `pc`, `pQueue` | a producer's position in `TPCRequestManager::Produce` and its local `queue` |
| `wPc`, `wIdle`, `wReq`, `wHandle`, `wRes`, `wRet` | a worker's position in `Run`/`RunCurl`, `m_idle`, the request in hand, multi-handle non-null, `RunCurl`'s `res`, where `Done` returns to |
| `status`, `active` | `TPCRequest::m_status`, `m_active` |
| `admitted`, `taken` | history per label: enqueue order and dequeue order |

Each request is produced once, by its own handler thread. Each queue creation
and each worker spawn happens inside one request's `Produce`. So queues and
worker threads are named by that request (`Queues == Threads == Reqs`), and
no bound other than the set of requests limits them.

### Actions

- **Producer side.**
  - `Lookup` is one pass of the retry loop, lines 273–284.
  - `Create` is the exclusive section, lines 285–305.
  - `QProduce` is `TPCQueue::Produce`, lines 163–192, with `Spawn`.
- **Worker side.**
  - `StartOk` and `StartFail` are `curl_multi_init`. On failure the worker calls
    `Done(this)` and carries on.
  - `TryConsume`.
  - `ConsumeUntilEnter` is "mark idle, test the predicate, block".
  - `ConsumeUntilWake` is "timeout or notify, retake the lock, pop or break".
  - `AddOk` and `AddFail`.
  - `PerformOk` is one loop iteration with no failure; a result may be captured.
  - `PerformFail` and `WaitFail` are the two ways out of the loop. After a
    failed wait with no result, `WaitFail` either enters `Spin` (the empty
    `while (running_handles);`, for ever) or, as the compiler may drop that
    side-effect-free loop, goes on to `SetDone(500)`.
  - `QueueDone` is `TPCQueue::Done`.
  - `ManagerDone` is `TPCRequestManager::Done`.
- **Queue lifetime.** `Freed(q)` is derived, not a variable. A queue is
  destroyed once it was created, no map entry holds it, and no `Produce`
  that is still running holds it in its local `queue`. Nothing can own it
  again after that. Workers that go on using a destroyed queue are modelled
  as if its memory were intact, which is one outcome of that undefined
  behaviour.
- **Granularity.** Each action is one critical section. Worker steps that touch only the worker's own
  multi-handle are merged into one iteration.
- **Idle notification.** The notify of an idle worker is not a separate event. The woken worker
  re-checks `m_ops` under the lock, and a timeout may end any wait. So
  `ConsumeUntilWake` is enabled at every moment and its outcome depends only on
  `m_ops`.

### Refinement of `TpcLifecycle`

`TpcLifecycle` is what the spec promises a request, with no queues, workers or
locks. A request is `new` until it is rejected or `queued`. It becomes
`running` when a worker takes it. It becomes `finished` with one status,
which never changes.

`TpcPool` maps its state onto this with `AbsPhase`:

| `AbsPhase[r]` | When |
|---|---|
| `finished` | the request has a status |
| `rejected` | the producer was refused |
| `running` | some worker holds it |
| `queued` | it sits in some queue's `m_ops` |
| `new` | none of the above |

The result is `status`. `LifecycleRefined == Life!Spec` is checked as a
PROPERTY. Every pool step must then be a lifecycle step or a stutter, whatever
libcurl does and however queues are removed and re-created.

### Fairness

- **Thread fairness.** Every producer and every worker thread is weakly fair (`WF` of its non-failure
  steps). The OS schedules runnable threads, and a `wait_for` ends by its
  timeout at the latest.
- **libcurl failures.** The failure actions (`WorkerFault`) get no fairness. libcurl may fail but is
  never forced to.
- **Transfer results.** `PerformOk` capturing a result is weakly fair. This is the spec's assumption
  that the engine eventually returns a result.

## 4. The `TpcRequest` module

One request and the threads that touch it:

- the worker, which in `RunCurl` calls `SetProgress(0)` and then `SetDone`, or
  `SetDone(500)` when adding the handle fails;
- `Waiters`, threads that call `WaitFor` once with a finite or an unbounded
  duration;
- `Cancellers`, producer threads that call `Cancel()` and then `SetDone(499)`,
  as `XrdHttpTpcPoolTests.cc` does.

`wait_for(lock, dur, pred)` is the standard's loop, and the model has one
action per step of it:

| Step of the loop | Action |
|---|---|
| test the predicate under the lock; block, releasing it atomically | `WaitEnter` |
| wake spuriously (no fairness) | `Spurious` |
| be picked by `notify_one` | inside `SetDone` |
| time out (finite durations only) | `Timeout` |
| retake the lock and test again | `Reacquire` / `ReturnExpired` |

`cvQ` is the set of threads blocked on `m_cv`. `notify_one` removes one of
them, chosen nondeterministically.

**Fairness.** The worker, the cancellers and every non-spurious waiter step
are weakly fair. Spurious wake-ups are possible but never forced. No
property depends on the worker finishing: `WaitersWake` is conditional on the
status being terminal.

## 5. The `HttpUtils` module

The functions are pure, so each is an operator over C strings, written as
sequences of bytes. `At` gives the byte at a 0-based index, and the NUL at
and beyond the end.

| Operator | Code it models |
|---|---|
| `Fromhexdigest` / `FromHexFrom` | the two-digit loop, reading `input[idx+1]` |
| `CharToInt` | `char_to_int` |
| `UnquoteFrom` / `Unquote` | the unquote loop, which clears and restores `str[i+3]` and converts with `strtol` (`Strtol16`, with white space, sign and `0x`) |
| `Quote`, `EscapeXML` | the loops with their replacement tables |
| `ParseURL` | `strstr`, `strchr`, the `min` clamp, `buf[l]`, `strchr(':')`, `atoi` |
| `MapErrNoToHttp`, `MapXrdErrToHttp`, `NamedStatuses` | the switch tables. `NamedStatuses` is the set of HttpStatus values with a reason phrase, with the enumerators' standard numbers. |
| `Tobase64` | a null `out` is left alone, a failing `BIO_flush` leaves `out` as `""`, else `out` holds the encoding, kept as the data encoded (OpenSSL's encoder is not modelled) |
| `Decimal` / `Itos` | `sprintf("%ld")` in `itos`, and the `"%s"` of `strftime` in `calcHashes` |
| `StrChrNul` | `mystrchrnul`: `strchr`, or the NUL |
| `Field` / `Le16` / `HashMessage` / `CalcHashes` | `calcHashes`: its early returns, a failing MAC context allocation, and the bytes fed to the MAC: each string with its NUL, `request` as two little-endian bytes, only the `XrdSecEntity` fields that are set, then the time |
| `StrcmpSign` / `CompareHash` | `compareHash`: same pointer, a null, then `strcmp` |

Errno values are Linux's. `sizeof(buf)` is scaled from 256 to `BufSize = 4`,
which keeps the off-by-one.

The state machine has one action per utility. `fn`, `arg` and `out` are the
last call, its argument and its result, and `Return` goes back to idle, so
each call is one state. The properties relate `out` to `arg` through
reference definitions written independently of the code:

- `HexRef` looks a digit up in a digit table.
- `PctDecodeRef`, `UnescapeXMLRef` and a `FoldLeft` decimal value are
  straightforward decoders.

`Tobase64`, `itos`, `mystrchrnul`, `calcHashes` and `compareHash` are
modelled and exercised but no property checks them. They are library calls
or straight-line code, and a property about them would restate them.
HMAC-SHA256 is kept abstract: a `"mac"` result records the key and the exact
message. A pointer argument is `{}` for null and `{v}`
for the string `v`. A hash given to `compareHash` is a pointer id (0 for
null) and the string it points to.

## 6. The `OfsPlugin` module

The server and the native file system are the environment. The plugin is
the code between them.

| Variable | Code |
|---|---|
| `ofs` | the global `ofs`, set by `XrdSfsGetFileSystem2` |
| `natSt`, `natErr` | a native file object (handed out, open, closed, deleted) and the text in its `XrdOucErrInfo` |
| `hKind`, `hSt` | what the server holds for that native file (a `FileWrapper` around it, or the file itself from `newFile(einfo)`) and how far it has used it |
| `obs` | the last call: its method, what reached the native layer, what it returned, what the server got back, and the error text the server then reads |

Actions:

- `Load` is `XrdSfsGetFileSystem2`.
- `FsCall(op)` is each forwarded file-system method, and `GetVersion`
  answers `XrdVERSION` itself.
- `NewFile(kind)` is the two `newFile` overloads. The native layer may
  return null, and only `newFile(user, monid)` wraps the file.
- `StartOpen` and `OpenIter` are `FileWrapper::open`. `OpenIter` is one pass
  of `while (!verified)`: the wrapped open, then `open_verify`, which returns
  true before its failure branch.
- `FileCall(n, op)` is each forwarded method of an opened file.
- `Close` is `FileWrapper::close`.
- `Delete` is the server deleting the object, closed or not. For a wrapper
  this runs `~FileWrapper`, which only logs.

Native answers are nondeterministic. A call on a file that is not open
fails, and a failing call may leave any error text. `ErrInfo` says where the
server reads a wrapper's error from: the wrapper is built with
`XrdSfsFile(wrapF->error)`, so it reads the wrapped file's own object.

Only the leak is checked. The other things the plugin must get right hold by
construction: every method calls the native method of the same name,
the wrapper shares the wrapped file's error object, and `open_verify` returns
true before its failure branch, so `open` makes one pass.

## 7. Runs

`MC_TpcPool.tla`, `MC_TpcRequest.tla`, `MC_HttpUtils.tla` and
`MC_OfsPlugin.tla` fix the constants.

| Run | Expect | Properties | Bounds | What it shows |
|---|---|---|---|---|
| `safety` | pass | `TypeOK`, `PendingBound`, `LifecycleRefined` | 2 labels, 3 requests, `MaxPending=1`, `MaxWorkers=2`, all libcurl faults | ≈1.12M states. Rejections, second workers, idle exits, zombie workers, spinning workers and queue re-creation all occur. The pending cap holds. The pool refines `TpcLifecycle`: each request is taken at most once and gets one status, which never changes. |
| `fifo` | violation | `FifoPerLabel` | 1 label, 3 requests | A producer fills a queue that was erased after its lookup. A second queue serves the label and FIFO breaks. |
| `stranded` | violation | `NoStrandedRequest` | 1 label, `MaxWorkers=1` | A request is queued while the only worker is between its timeout and `Done`. |
| `zombie` | violation | `ThreadsRegistered` | add faults | A worker goes on after `Done(this)`. |
| `hang` | violation | `RequestCompletes` | no faults | A clean transfer never leaves `RunCurl`'s loop. |
| `livelock` | violation | `ProduceReturns` | `MaxWorkers=2` | One worker's idle exit latches `m_done` while another runs a transfer, and producers spin. |
| `lost` | violation | `RequestConservation` | as `safety`, wait faults only | A producer captures a queue. Its last worker fails and erases the queue from the map. The producer appends to it anyway and spawns a worker on it. When the producer returns, the queue is destroyed with the request in it. |
| `request` | pass | `TypeOK`, `NeverSpurious`, `WaitersWake` | 1 waiter, 1 canceller, result codes {0, 28} | Spurious wake-ups never make an unbounded `WaitFor` return pending, and a lone waiter always returns once the request is done. |
| `notifyone` | violation | `WaitersWake` | 2 waiters, no canceller | `notify_one` wakes the waiter with a deadline, and the one without a deadline sleeps forever. |
| `utils` | pass | `FromhexDecodes`, `UnquoteDecodes`, `EscapeXMLSound`, `ParseURLSound`, `ErrorStatusNamed`, `QuoteUnquoteInverse` | every string of ≤ 4 bytes over `% 4 F a & ' <` and space; 84 URLs; every named errno and XErrorCode; the other utilities on small input sets | The hex decoder, unquote on well-formed input, escapeXML, and parseURL on authorities that fit agree with the references. Every mapped status has a reason phrase. `unquote(quote(s)) = s` exactly when `s` has no `'%'`. |
| `bounds` | violation | `BuffersInBounds` | as `utils` | `unquote("%")` touches `str[3]`. With `'%'` left out of the alphabet, the same property fails at `parseURL("//11:1/")`, which writes `buf[4]`. |
| `leak` | violation | `WrapperReleasesNative` | 2 native files, 2 error texts, every forwarded method | `newFile`, then delete: the `FileWrapper` is gone and its native file is never deleted. |

Each property of a passing run has a mutant in `PROJECT.json`. A mutant is a
plausible bug of the mapped code, and TLC must then find the property
violated.

**Why the bounds are enough.**

- **`TpcPool`.** Every bug needs at most three requests and two workers of one
  label. The passing runs exhaust all interleavings of three producers and
  three workers over one or two labels.
- **`TpcRequest`.** Every waiter runs through all durations and wake-up
  orders.
- **`HttpUtils`.** The strings reach every branch: escapes at every position,
  odd and even lengths, a `'%'` at the end, upper- and lower-case digits.
  The URLs have authorities shorter than, equal to and longer than `buf`.
- **`OfsPlugin`.** Two files cover a wrapped and a raw file side by side.
  Every method is enumerated.

## 8. Findings

- **Use of a removed queue** (`XrdTpcPool.cc` line 306, with
  `TPCQueue::Produce` not checking `m_done`).
  - `Produce` uses a queue after it was removed from the map.
  - Two queues then serve one label, which breaks per-label FIFO and doubles
    the worker cap.
  - A worker of the orphaned queue can also erase the live queue's map entry.
- **Request destroyed with its queue** (line 306, with line 144). A queue
  erased from the map is destroyed when the last `Produce` holding it
  returns. If that `Produce` has just appended a request and spawned a
  worker, the request is never run. The new worker then works through a
  reference to freed memory.
- **Stranded request** (lines 107–120 vs. 179). A worker that timed out is
  no longer idle but is still counted. A request queued then gets no worker and
  waits forever.
- **Worker runs after `Done`** (lines 100 and 114). The worker calls
  `Done(this)` and does not return. It is erased from `m_workers`, and its
  object is destroyed, while its thread keeps consuming requests.
- **`RunCurl` never finishes a clean transfer** (lines 49–74). The loop only ends
  when libcurl fails.
- **Producer livelock** (line 279). `m_done` is latched on the first worker
  exit, so producers spin while any other worker is still busy.
- **`notify_one` in `SetDone`** (line 241). The spec says `SetDone` wakes
  every `WaitFor` caller. The code wakes one, and a second caller without a
  deadline never returns.
- **A second `SetDone` overwrites the status** (line 238). The tests'
  `SetDone(499)` races the worker's. A caller of `WaitFor` can be told
  "cancelled" while the request ends with the transfer's result. The spec asks
  for a second call to be ignored or asserted. `TpcRequest` still models
  both calls, but no current run checks the property this breaks. The OFS
  leak run below took its place in the run list.
- **`unquote` out of bounds** (`XrdHttpUtils.cc` line 380). A `'%'` among
  the last two bytes makes it read and write `str[i+3]`, past the NUL.
- **`parseURL` off by one** (line 99). `l` is clamped to `sizeof(buf)` and
  `buf[l]` is then written, one past the end. This is a hazard covered by
  `BuffersInBounds`, reproduced as described under the `bounds` run.
- **No global worker limit** (line 179). The spec and the tests
  (`SetMaxGlobalThreads`, `GetGlobalThreadCount`) require one. The code has no
  such counter, so there is nothing to model; the divergence is recorded here
  and in the components.
- **`quote` does not escape `'%'`.** So `unquote(quote(s)) != s` for any
  `s` containing `'%'`. `QuoteUnquoteInverse` pins down exactly where the
  pair is inverse. Nothing in the repository depends on it, so this is a
  hazard, not a finding.
- **`FileWrapper` leaks the native file** (`XrdOfsPluginFile.cc` line 4).
  `~FileWrapper` never deletes `m_wrapped`. So every served file leaks its
  native object. A client that disconnects without `close` leaves the native
  file open, since deleting it is what would close it.

## 9. Not modelled

- **Time.** The value of `m_idle_timeout`, so also `SetWorkerIdleTimeout`: a wait
  may end at any moment.
- **Request payload.** Messages, logging, `scitag` and the curl easy handle's
  contents.
- **Progress beyond `SetProgress(0)`.** `src/` never calls it with anything
  else.
- **`Cancel()`.** It is not in `src/`, and nothing in `src/` reads its flag.
- **HMAC-SHA256 and the `HMAC_CTX_new`/`free` shims** (`XrdHttpUtils.cc`
  lines 60-71). The MAC is ideal: only its key and message are kept. Of the
  shims, only an allocation failure is modelled.
- **`calcHashes` fields set differently.** An entity with only `moninfo`
  `"a"` signs the same message as one with only `host` `"a"`: `HashMessage`
  gives both the bytes `fn\0`, the two request bytes, `a\0` and the time.
  This is recorded as a hazard rather than as a run, because the project is
  at its limit of runs and `calcHashes` has no caller under `src/`.
- **OFS plugin details.**
  - Arguments and logging are left out.
  - `open_verify`'s `tried` string is only written after its early return.
  - `MyXrdOfsPlugin.hh` declares a second, different class of the same name
    that no file includes.
  - Files from `newFile(einfo)` bypass the wrapper. This is modelled as the
    raw kind, but no property asks that every file be wrapped.
