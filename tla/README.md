# A TLA+ model of shrink-media

shrink-media re-encodes a media library that lives on an OpenList server. It
exists twice in this repository: as a command line program whose instances
coordinate through files (`shrink_media/`), and as a task server with remote
workers (`shrink_media_server/`, `shrink_media_worker/`), which share the encoding
code. This directory models the parts where the program can go wrong in ways a
test hardly reaches: what concurrent requests, workers and uploads do to the
shared state, and what is left behind when one of several steps fails.

## 1. The system

| component | state it keeps | operations | talks to |
|---|---|---|---|
| task API (`shrink_media_server/api.py`, `models.py`) | the `tasks` table: status, lease, attempts, output columns; `attempts` audit rows; `blob.part` files of proxied uploads | lease, heartbeat, upload_intent, upload_proxy, complete, fail, requeue, start-up requeue | workers by HTTP, OpenList, SQLite |
| finalize (`shrink_media_server/openlist.py`) | none; files on OpenList | staging file → `<dir>/blob` → final path, verified | OpenList |
| scanner (`scanner.py`, the scan thread of `api.py`) | rows it inserts, in-flight OpenList copies | scan a route, process routes in copy mode, periodically or with `--scan-once` | OpenList, the table |
| worker (`shrink_media_worker/worker.py`, `transport.py`) | the running task, the heartbeat thread | register, lease, process, upload, complete or fail | the task API, OpenList |
| CLI pipeline (`pipeline.py`, `cli.py`) | work queue, running jobs, upload slots, deferred uploads, prefetched files | scan, prefetch, process, upload, retry, finalize | coordinator, OpenList |
| coordinator (`state.py`) | state log (JSONL or a file per item), lock files with a TTL | is_done, append, try_acquire, release | other instances, through the files |
| upload and naming (`upload.py`, `workitem.py`) | none; names of outputs | upload with verification, choice of output names | OpenList |
| OpenList client (`openlist_client.py`) | token, retry budget | login, calls with retry | OpenList |
| media code (`processor.py`, `ffmpeg_cmd.py`, `comic.py`, `probe.py`, `classify.py`) | temporary files | probe, plan, encode | ffmpeg |
| configuration, logging, scripts, modal | none that others read | | |

Interactions that matter:

* FastAPI runs a plain `def` handler in a pool thread with its own session. A
  handler reads its row, decides, may call OpenList for minutes, and commits;
  SQLAlchemy writes only the columns that changed and there is no version
  column, so what a request decided may be stale when it is committed.
* `upload_proxy` is a coroutine. It runs alone up to the first piece of the body,
  then interleaves with other requests piece by piece.
* Leases and locks expire by the clock, whoever holds them being alive or not.
* OpenList calls are retried by the client; a call can take effect and still be
  reported as failed.
* The CLI's main loop owns the table of upload futures and the deferred uploads.
  Uploads run in a pool; a semaphore bounds the encoded files that wait on disk.
* Two CLI instances meet only in the state directory.

What has to be true of each component:

* **task API**: a task is leased to one worker at a time and at most
  `max_attempts` times; `finalized` is final; a finalized row names a file that is
  there; requests that do not overlap behave as atomic transitions.
* **finalize**: success is reported only with the right file in place; two
  finalizes never exchange their files although they share `<dir>/blob`.
* **upload_proxy**: a staging file of the announced size is the uploaded file;
  retries of a chunk work.
* **pipeline**: every item is finalized exactly once; slots are conserved; uploads
  that failed are retried and the queue drains.
* **coordinator**: an item is processed by one instance at a time; a release
  removes the releaser's own lock; `done` is not lost.
* **scanner**: a finalized copy rests on something OpenList said; attempts are
  counted; a row with attempts left is not forgotten, though runs fail and overlap.
* **prefetch**: the window bounds downloads and files; a downloaded file has one
  owner, who uses or deletes it, unless its item had been passed over; nobody waits
  for a download for ever.
* **naming**: outputs of one directory have different names, also when some of the
  files have to be copied instead of encoded.
* **upload**: an output reported as uploaded is there, under the name the state entry
  gives; a larger file of somebody else is left alone; the upload ends.

## 2. Modules

| module | models |
|---|---|
| `TaskRow` | a row of the table; what each handler assigns to it; what a commit writes |
| `TaskServer` | the handlers as reads, OpenList calls and commits of pool threads; uploads; expiring leases; restarts |
| `TaskLifecycle` | the atomic life cycle of tasks, the abstract specification |
| `TaskServerInv` | the inductive invariant of `TaskServer` |
| `TaskServerProofs` | theorems about `TaskServer`; those with one thread at the end, the implementation of `TaskLifecycle` among them |
| `ChunkUpload`, `ChunkUploadProofs` | `upload_file_chunked` against `upload_proxy`; theorems |
| `WorkerFleet`, `WorkerFleetProofs` | worker processes against the table: main loop, job threads, heartbeats, signals; uses `TaskRow` for the server's answers; theorems |
| `CopyScan`, `CopyScanProofs` | scan runs of the server: new rows, and the copy routes the server executes itself; uses `TaskRow`; theorems |
| `Prefetch`, `PrefetchProofs` | the prefetch window: scan thread, download pool, done callbacks, workers; theorems |
| `OutputNames` | the names of the outputs of one directory, as operators |
| `RemoteUpload`, `RemoteUploadProofs` | uploads to one OpenList directory with verification; uses `OutputNames` for what is uploaded where; theorems |
| `UploadQueue`, `UploadQueueProofs` | the CLI's main loop, its upload pool, slots and deferred uploads; theorems |
| `StateLocks`, `StateLocksProofs` | the coordinator's locks and state log, used by concurrent CLI instances; theorems |
| `MC*` | definitions of the instances for TLC |

`TaskRow` is shared: `TaskServer` looks inside the server, where requests overlap,
`WorkerFleet` at the workers around it, where each request is one step, and
`CopyScan` at the scanner, which writes the same rows with the same unit of work.
`UploadQueue` counts uploads whose inside is `RemoteUpload`. The
operators whose comment begins with "Defect" are not part of the specifications:
each is a plausible mistake in the code it stands next to, put in its place to
see that the properties notice.

### TaskServer

| state | in the program |
|---|---|
| `row[t]` | the row of task `t`; `expiry` is `lease_expires_at` against the clock: NULL, future, past |
| `thread[h]` | the local variables of the request in pool thread `h`: the row it `read`, the row `new` it will write, how far it is (`pc`) |
| `issued[n]` | the task for which `upload_intent` made staging nonce `n` |
| `staged`, `blob`, `final` | files on OpenList: the staging file of a nonce, `<dir>/blob`, the final path |
| `audit` | the tasks with an `Attempt` row that says ok |

A request is `Lease`, `Heartbeat`, `UploadIntent`, `CompleteSkip`, `Complete`, `Fail`
or `Requeue` (it reads its row, checks it and computes what it will assign), then,
for `/complete`, the calls `Probe` ... `Verify` of `complete_task` and
`OpenListManager.finalize`, then `Commit`. `Flush` says what SQLAlchemy writes: the columns
that differ between `read` and `new`, over whatever the row is by then; a lease and a
heartbeat always write a new `lease_expires_at`. Requests that are refused without a
change are not steps. `Move` and `Rename` may take effect and still be reported as
failed: the client repeats the call and the repetition fails. The environment is
`Upload` (whoever has an upload URL writes a staging file, of any size, also late or
again), `Expire` and `Restart`, which drops all requests in flight and may requeue
failed tasks. Any worker may send any request at any time, so that nothing relies on
well-behaved workers.

`TaskLifecycle` has the six transitions of a task (`Grant`, `Renew`, `Lapse`, `Finish`,
`GiveBack`, `Requeue`). `Lifecycle` in `TaskServer` maps a row to it; "leased" and "failed"
rows both map to "held", because a failed finalize keeps the lease until the worker
reports it or it runs out.

### ChunkUpload

`client[u]` is the loop of `upload_file_chunked`: which chunk, which try. A request
in `inFlight` carries what the server has decided about it: it `Open`s the part file,
`Write`s it piece by piece (one `async for` iteration each, other requests in between),
and finishes as a chunk, as the last chunk, which moves the part file to OpenList,
or as a single body. `GiveUp` is the client's timeout; the request stays in flight.
`Vanish` and `Break` are the network. A file is a sequence of pieces, a piece is
the content it came from and its position: appended twice, mixed or cut off, a
file differs from `Source(u)`.

### WorkerFleet

Per worker: `main` (poll, lease, submit, leave), `got` (tasks of the last lease not
submitted), `job` (the job threads), `active` (`active_tasks`, what heartbeats are sent
for), `shutting` (`shutting_down`) and `running`. `JobStep` is `process_task`: begin, process,
`upload_intent`, upload, `complete` or `complete skip`, and in the except clause
`fail`. Every request may be refused, fail without effect, or take effect and not be
answered. `SigTerm` sets `shutting_down`; `SigInt` raises KeyboardInterrupt in the main loop,
which sets `running = False`; a second signal is a `Crash`. `Lapse` lets a lease run
out when nobody renews it: with a lease of ten minutes and a heartbeat a minute,
time does not pass that far otherwise, unless the instance is `Lossy`.

### UploadQueue

`phase[i]` says where item `i` is, from the scan to `finalize`, and thereby what is in
`work_q`, `proc_futs`, `upload_futs` and `deferred_uploads`. `slots` is the semaphore, `output` the
encoded files on disk, `main` the program counter of the main thread between two
waits, `batch` the futures that `wait` returned. `Pump` is `pump_deferred_uploads` wherever it
is called; `Room` is `upload_queue_idleish_for_retry`. Both run loops of `cli.py` are
there: the frozen variable `jobs` is `--jobs`, and 1 selects the first.

### StateLocks

One item, any number of devices. `pc[d]` is where the run of device `d` is: scan,
`try_acquire` in its local (look, read, remove, create, fill) or remote (read, write,
verify) form, the job, `release`, `finalize`. `lock` is the lock file, `entry` the
latest state entry; each has an age flag, set by `Age` when `--lock-ttl` passes. A local
lock that is created and not yet written reads as stale, as in the code. A device
id belongs to one process at a time. The frozen variables `remote` and `steal` are where
the output is and whether stale locks are stolen (`mode`); properties that need one
of them say so (`Exclusive`: local and no stealing).

### CopyScan

`run[s]` is the scan run of process `s`: the entries it has still to list (`left`), the
rows of the batch still to do (`todo`), the result of each row done (`res`) and the rows
as read again before the commit (`read`). `old[s]` abstracts the comparison of
`updated_at` with the start of the run: the rows the run may still select. A write
takes rows out of it, of its own run always, of another run perhaps, because
`finished_at` may lie before or after the start of that one. `source` is the version each
input file has now, `dst` the sizes at the final paths, `jobs` the copies OpenList has
accepted. `Copy` has the outcomes of the call: accepted; `FileExistsError`, which may be the
answer to the repetition of an accepted call; another error with or without effect;
source missing, which is also what any error that says "not found" is taken for
(`Failure`). `Land` ends a job, with the file as it is then, or without. `Abort` is
an exception outside the `try` of a single copy, or the end of the process: results not yet
committed are lost. The requeue request is split into read and commit.

### Prefetch

`pump` is the lock `_prefetch_pump_mu` with the place its holder is at; `Enters` is the try-lock:
a caller that does not get it goes on at once. `fetch[i]` is the download, `callback[i]` its done
callback, which runs in the pool thread, or in the pumping thread when the download
has ended before `add_done_callback` (`PumpAttach`). `futs`, `results`, `claimed` are the three tables
under `_prefetch_mu`; each block under that lock is one step. `disk` is the set of
downloaded files. `stop` is `stop_event` after a `FatalAuthError`. An item that a worker has
skipped, or begun to download itself, may still be offered, and is prefetched
then: `Stranded` says when the result of such an item is one that nobody will look for.

### OutputNames and RemoteUpload

A name is a stem, a sequence of parts, and an extension; `Suffixed`, `Default`, `Loses` and `Unique`
are `build_suffixed_target_name` (with the lower case of the extension, `Lower`), `make_default_out_name_of`, the two computations of
`need` and `_unique_collision_name`. `Naming` is the loop of the two `compute_..._overrides`, which differ
in who keeps a shared name: from `Defaults`, the names taken at the start, each turn is `Replace`, which
gives one loser another name and adds it to those taken; it is a recursive function of the number
of turns. `RemoteUpload` starts with a directory and the names planned for it, so that
the properties of names and of uploads are about the same files.

`up[n]` is `upload_file_remote` for the output of file `n`, one `pc` per OpenList call.
`files` is the output directory, `seen` what a cached listing shows, `ghosts` names that OpenList
regards as taken though it shows no file. `Look` may answer truly, from the cache, or
fail. Sizes are bytes plus one, so that 0 means missing and an empty file is one of those
that are too small. `NotReady` is a failure before the first look of a try. `Stored` is what OpenList
does with an upload whose name is taken: it finds a name "<stem> N". A call of `Put` that
fails may have stored nothing, a part or all (`Lost`), and is made again by the
retry loop of the client or after a direct upload, on top of what it has stored, or
given up; each such call is a fault. `Rename` may take effect and fail.

## 3. Runs

| run | instance | shows |
|---|---|---|
| ServerSerial | 2 tasks, 2 workers, 1 thread, 2 sizes, 2 attempts | requests that do not overlap implement `TaskLifecycle`; a finalized row names a file of its size; an ok attempt belongs to a finalized task |
| ServerOutputs | 2 tasks of one directory, 2 threads, 2 nonces, 2 sizes | overlapping finalizes never exchange files, whoever records success has its file, attempts stay bounded |
| ChunkUploads | 3 uploads by 2 workers, chunks of 2 pieces, 2 tries, 2 requests under way | a staging file of the announced size is the file that was uploaded |
| Uploads | 4 items, 1 and 2 jobs, 1 upload job, 1 flaky item | in both run loops slots are conserved, the disk is bounded, the end is complete and is reached |
| Locks | 3 devices, every mode, 2 faults | without stealing a local lock excludes; in every mode the item is done again and again whoever dies, unless a lock that is not stolen belongs to a device that is down or to nobody; no lock left behind |
| FleetWork | 2 workers (one `--once`), 2 threads each, 2 tasks, 2 faults | one job per task, a job keeps its lease, `--once` reports everything if nothing goes wrong |
| FleetSettle | 2 workers, 2 threads each, 2 tasks, 3 attempts, 1 fault | every task is done or given up |
| CopyRuns | 2 versions of 1 source, batches of 1, 3 attempts, 2 scanners, 1 event | a finalized copy is backed and whole, attempts are bounded, no row waits for ever |
| PrefetchWindow | 3 files, 2 downloads, 1 cached result, 2 offers, 1 worker | the window, the ownership of files, the hand-over; every queued file is dealt with, and every file that is not stranded is deleted in the end |
| RemoteUploads | all directories of 7 pictures; uploads of 1 of them, and of 2 whose names are kept apart, 1 fault, 1 misleading look, 1 retry | names are distinct; uploads are kept and true to their entry; larger files are kept; uploads end |
| UploadsStuck, FleetLastAttempt | see 6 | a promise the code does not keep |

Bounds. Two of each thing that competes (threads, workers, tasks, nonces, sizes)
give every pair of overlapping requests and every comparison both outcomes; what
needs three is given three: a lock needs a holder, a thief and the one that meets
both; slots need one more item than slots. Two faults and three devices leave one
device up in `Locks`, which is what `TakenOver` needs with stealing: somebody has to take over. `Kinds` restricts ServerOutputs to the
requests that touch outputs; the theorems cover the rest. One fault per instance
of FleetSettle against three attempts is what the code can absorb: a crash costs
one attempt, a SIGTERM two. `Flaky` has one item in the runs that terminate because two
would fill both slots, which is the finding UploadsStuck.
In CopyRuns one event (`MaxEvents`) is a second scanner, a run that dies, a requeue or a
changed source; the faults of the OpenList calls are not bounded, the attempts
are. `Batch` is 1 so that the second row meets a second batch. In PrefetchWindow `MaxCached` is
less than twice the window, so that results are thrown away with three files, and
`MaxCandidates` is reached; its bound on the files of the disk is above the number of files and tells
nothing there: that part of `WindowBounded` rests on the theorem `WindowBoundedSafe`. With `jobs` = 2
the same is true of `DiskBounded` in `Uploads` (`DiskSafe`). The pictures of RemoteUploads share stems, carry names
the suffix rules produce (`a__png.webp`, `a__png__2.webp`), one that OpenList produces
(`a 1.png`) and one in upper case (`a.PNG`); sizes are distinct, so that a size tells whose file it is. The `Numbers` go up
to 7, so that no directory of these runs out of names, as the 9999 of the code are
meant; `NamesConditions` of `MCRemoteUpload` says that each meets what the theorem about names asks.
`Uploading`
keeps the directories whose uploads are followed small: {`a.png`}, and {`a.jpg`, `a.png`}, which are planned
as one name and kept apart by the planner and by what OpenList may make of their names,
so that `Kept` is about two uploads side by side. The pair {`a 1.png`, `a.png`}, whose names are not
apart, passes as well (`Close`, two minutes); `Kept` and `PathTrue` say nothing of it. The other directories are
initial states, for their names. Two requests under way
(`MaxInFlight`) are a late request and the one that overtakes it. The server's
`upload_proxy` is asked for `u3` in one body, for `u1` and `u2` in chunks. Workers,
nonces, threads, sizes, tasks and devices are symmetric where the constants treat
them alike; symmetry is off in runs with liveness. Deadlock is not checked where
the system ends: `ChunkUpload` and `RemoteUpload` when all uploads are through, `UploadQueue` at
"exit", `Prefetch` when all files are done.
Elsewhere some action is always enabled and a state without successor would be
an error.

## 4. Fairness

* `UploadQueue`: weak fairness of the scan thread, each worker, each upload, the clock and
  the main thread: threads of one process are scheduled. Nothing makes an upload
  succeed.
* `StateLocks`: weak fairness of each device's steps, being run again included (the
  tool is run from time to time); strong fairness of `Age`, because it is written
  for the moments when no device is between two calls: the TTL is hours, calls take
  seconds. No fairness for `Restart`: a dead device may stay dead.
* `WorkerFleet`: weak fairness of the main loop of each worker, of its jobs taken together, and
  of leases running out. None for heartbeats, signals or `Restart`. Faults are
  limited by their number only.
* `CopyScan`: weak fairness of the steps of the server's scan thread, which starts a run
  again after each (`api.py:364`). None for OpenList (a copy need never land), `--scan-once`, the
  clock or the administrator.
* `Prefetch`, `RemoteUpload`: weak fairness of the whole next-state relation, that is, some thread
  that can go on does. Every step uses something up (a file, an offer, a try, a
  verification), so nothing finer is needed for `Served` and `Ends`.
* `TaskServer` and `ChunkUpload` have no liveness property: progress is up to the workers.

## 5. Proofs

All theorems hold for any sets and numbers the assumptions admit; these only say
that the model values differ, that sets of items and of scanners are finite, that jobs
and attempts are positive, that a worker of the prefetch window is not its scan thread,
that sizes, chunks and tries of a chunked upload are positive, that the same worker makes the
same file of the same size again
and, for a lease left over from a compress route, that there is a worker
(`TaskRowAssumption`, `ChunkUploadAssumption`, `NoFileAssumption`, `SameEncode`,
`TaskServerAssumption`, `CopyScanAssumption`, `UploadQueueAssumption`,
`NobodyAssumption`, `SwitchAssumption`, `FaultAssumption`, `PrefetchAssumption`), that outputs
are larger than nothing, what a broken upload leaves smaller than they, and no file of
the directory is nameless (`RemoteUploadAssumption`, `OldAssumption`), and that the files of a directory
and the numbers tried for a name are listed without repetition (`OutputNamesAssumption`). Where a theorem
needs more it says so itself, and section 6 shows why.

* `TypeCorrect`, `AttemptsSafe` (`TaskServerProofs`): `TypeOK` is strengthened by what a thread relies on; attempts
  are written as an absolute number computed from a row below the bound, so that
  a lost race loses an increment and never adds one too many.
* `CompleteVerifiedSafe`, `OutputsOwnedSafe`: `OutputsInv` is inductive. Its heart is `BlobReserved`: a
  thread that is about to rename `<dir>/blob` has moved that file there itself and no
  other thread is about to rename in that directory, which holds because a move
  refuses an existing `blob`; `OutputSeen` says that a final file, once seen, stays,
  because nothing removes or replaces a final file. Nonces belong to one task.
* `LeaseColumnsSafe`, `FinalizedBackedSafe`, `AuditSafe`, `LifecycleImplemented` (`TaskServerProofs`): for requests
  that do not overlap (`OneThread`: there is one thread). `Serial` says what that means
  for a request that is under way: the row it read is the row in the table, or
  what time alone has made of it, so that `Flush` writes exactly the row it wants. From
  this, every commit is one transition of `TaskLifecycle`, and every other step none:
  the refinement is proved step by step, initial states first.
* `TypeCorrect`, `OnceIsEnough`, `LeaseHeld`, `OneJobPerTask` (`WorkerFleetProofs`):
  `Shape` ties the main loop, the job threads and the tables of a worker together;
  `Leases` says that a worker that has a task, leased and not yet submitted (`got`) or in a
  job, is the one its row names, unless the job is about to report a failure of a row
  that is closed already; that a job that has begun is in `active`, so that heartbeats are
  sent for it; and that no task is in two jobs. It is inductive only without signals that
  end the heartbeats and without losses longer than a lease, which the two theorems about leases
  assume (`~Interrupts`, `~Lossy`), or until the first fault anywhere in the fleet; `OnceIsEnough` (`Reported`) is about the time
  before the first fault only.
* `QueueCorrect`, `SlotsSafe`, `DiskSafe`, `ExitSafe`: `QueueInv` is inductive. `SlotsConserved` alone is not: which
  phases own a slot depends on what the main thread holds in its hands (`MainHolds`), and
  a slot must not be given back for an upload that is going to be deferred
  (`RetryLeft`). The disk bound follows from files belonging to slot owners or jobs.
* `TypeCorrect`, `HandedOverSafe`, `FilesOwnedSafe`, `WindowBoundedSafe` (`PrefetchProofs`): a file
  is on disk because of a download, a result or a worker that took it, and which of
  them has to delete it depends on where the download, its callback and the pumping
  thread are. One inductive invariant serves all four theorems, split by table: `Ordered` (files are
  offered, queued and taken in order), `Working` and `Pumping` (what a worker and the holder of the pump lock rely
  on), `Futures`, `Stored`, `Claimed` (what an entry of each table says about its file),
  `Bounded` (the sizes of the window) and `Owned` (who deletes a file). `FilesOwnedSafe` leaves out the results of items that
  were passed over (`Stranded`), which nobody deletes in the code either (see 6).
* `LocalCorrect`, `LocalExclusion` (`StateLocksProofs`): with a local output and `--no-steal-stale-lock` a device at
  work has its own lock file there. Both conditions are needed (see 6).
* `NoOrphanLock`: in every mode.
* `TypeCorrect`, `FinalizedBackedSafe` (`CopyScanProofs`): `FinalizedBacked` together with `Backed` is inductive. A row is
  finalized from a result that a batch has kept since it called OpenList, so every
  "ok" kept must have its evidence already; the one that is not checked again, a
  conflict after which nothing is to be seen at the path, has it because what made
  the call conflict was a job (then it is evidence) or a file, and a final file is
  never removed. `FlushStatus` carries this through a commit over a row that another
  scanner or the administrator has written in between.
* `AttemptsSafe` (`CopyScanProofs`): the bound counts the runs of `--scan-once` that have begun. To see
  that it is enough, `Spare(t)` is the set of those that may still read row `t`, or have
  read so few attempts that what they write opens it again. What is in the row, and
  what each pending commit will write, stays below the bound by the size of `Spare(t)`, and by
  one more while the server's thread can still take the row (`Open`). A run leaves
  `Spare` when it pays: when it reads the row with its last attempt, or commits it. `AloneBounded`
  is the case without such runs, whatever is requeued.
* `WholeSafe` (`CopyScanProofs`): `Whole` lists the shapes a row takes that nobody has requeued, and says
  that a closed row (finalized or given up) is touched by one run at most, so that a
  run which read it closed finds it unchanged at its commit. `FlushWhole` then shows
  column by column that a commit over a row another run has written keeps the shape.
* `TypeCorrect`, `LargerKeptSafe`, `PathTrueSafe`, `KeptSafe` (`RemoteUploadProofs`): nothing is assumed about the planned
  names. `LargeSpared` says that every listing, however old, shows a larger file as it
  is, so that it is never taken for remains, and that no upload is about to clear or rename
  one (`Clears`). `OwnTrue(n)` is about an output whose names no other may have (`Apart`); of the others `PathTrueSafe` and
  `KeptSafe` say nothing (see 6). Other uploads touch none of its names (`Elsewhere`, `OwnOther`); a rename moves a file of the right size; before the first misleading look
  nothing is cleared that has the size of the output, unless by the repeat of an upload
  that overwrites, which takes two failing calls before it and is the third; so what a
  listing shows of it is still there. `Adds` describes what uploads, lost answers and repetitions leave
  behind: new files of `n`, and under a taken name only where `overwrite` was passed.

* `NamesStayDistinct` (`RemoteUploadProofs`): for any directory, mode and planner. Files that keep their default name
  have different ones because all but one of those that share it lose it; a loser's new name is
  not taken because there are more candidates than files that can have taken one
  (`UniqueFree`, a pigeonhole argument), and it is added to those taken at once. The theorem asks two
  things of the directory: enough numbers (`EnoughNumbers`), and that a file which has the
  extension others are converted to keeps its own (`TargetsKept`); section 6 shows what happens
  without. Where one would use induction over the turns of `Naming`, the proof takes the least
  turn after which the claim fails (`Least`): the induction theorems of the library cannot be
  used with the provers at hand, the well-foundedness of the naturals can.
* `TypeCorrect`, `SizeTells` (`ChunkUploadProofs`): the part file need not be the beginning of any upload. The
  argument is about lengths. A request that has `blob.part` open has put its own pieces there
  (`Adds`), so what somebody else has put there too makes the file longer than the offset the
  request will reach. If the file of a request has been unlinked behind its back, the
  new one is the beginning of the upload, no longer than where the worker will be when
  that request is answered (`Cut`, `Tidy`). Once the worker has been told that its first pieces are
  there, they are, or the file is already too long, or it is being written again from
  the beginning by a request nobody waits for (`Told`), and of these there is one (`Late`). `ChunkInv` puts
  these together and is inductive while at most two requests are under way
  (`MaxInFlight`) and no worker uploads two files of one size (`TellsApart`). Without either the property fails
  (see 6), so the theorem says how far the size can be relied on; sizes,
  lengths of chunks, tries, workers and uploads are any.

Only model-checked:

* liveness, and with it ENABLED, which the proof system does not handle here;
* everything about remote locks except `NoOrphan`.

No module uses RECURSIVE.

## 6. What does not hold

Shown by runs that end in a counterexample:

* **UploadsStuck**: deferred uploads keep their slots. When failing uploads hold all
  `2 * upload_jobs` of them, the main thread waits in `acquire_upload_slot` for one that
  only it could free, for ever.
* **FleetLastAttempt**: a worker that dies during the last attempt leaves the row
  leased, expired and outside every query.

Seen with other constants in the same configurations:

* `ImplementsLifecycle` with two threads: overlapping leases of one task; the second commit takes
  the running lease (`api.py:603`).
* `FinalizedBacked` with two threads: an `upload_intent` that overlaps a complete rewrites the
  output columns of the finalized row (`api.py:703`).
* `MutualExclusion` without its condition, with `Remote = {TRUE}`: the read-back of a remote lock does not exclude that a
  second device, which had read "no lock", writes and verifies afterwards
  (`state.py:408`).
* `LocalInv` without its condition, with `Steal = {TRUE}`: a lock file read between its creation and its first byte
  counts as stale, and one that was written since it was read is removed all the same (`state.py:347`).
* `TakenOver` without `Blocked`, with `Steal = {FALSE}`: a device that dies between creating its local lock and writing it
  leaves an empty one, which is nobody's: no device takes it, not even its own, and the
  item is blocked for good (`state.py:349`).
* `LeaseCovers` with `Interrupts = TRUE`: after Ctrl-C the worker waits for its jobs without
  heartbeats (`worker.py:616`).

* `CopiedAll` in CopyRuns: a row of a copy route that is still leased from the time when the
  route was a compress route is selected when the lease has run out, and the
  comparison of its `lease_expires_at`, which SQLite returns without a time zone, with an
  aware time raises `TypeError` (`scanner.py:83`) outside the `try`: this run and every later one
  ends there, the results of the batch are dropped, and nothing behind it is copied.
* `FinalizedWhole` in CopyRuns with a requeue between the second read and the commit, or with three
  runs of `--scan-once` beside the server's: a finalized row may lack columns (`scanner.py:146`, only
  columns that changed are written). With two beside it TLC finds no such row in a larger
  instance; the theorem is about one.
* `StagedIntact` in ChunkUploads with more requests under way (`MaxInFlight = 3`, `MaxTries = 3`): two late
  tries of a first chunk remove `blob.part` and open a new one while another try is still
  writing the old one; that try is answered, though its file is gone, the beginnings that
  the other two append have together the length of a chunk, and the second chunk is
  accepted after them (`api.py:776`): right size, wrong content. The same with
  two requests under way when one worker uploads two files of one size for the task,
  the first still retrying after the second `upload_intent`.
* `NamesDistinct` in RemoteUploads for a directory of `a.ts` and `a.mkv` when `TargetExt` maps "ts" to "mkv" and "mkv" to "mp4", which is what
  a container chosen per file amounts to (`workitem.py:318`: a video with subtitles that mp4 cannot hold
  is made an .mkv, one without an .mp4): `a.ts` is planned as `a.mkv`, `a.mkv` as `a.mp4`, and when `a.mkv` is then
  copied instead of encoded, under its own name (`processor.py:120`), both outputs are `a.mkv`. Hence
  `TargetsKept`.
* `Kept` in RemoteUploads without `Apart`: of two pictures `a 1.png` and `a.png`, in collision mode the
  name OpenList makes up for the second is the name of the first; the candidate may be
  the other upload, or be replaced between its listing and its rename
  (`upload.py:131`, `upload.py:141`), and an output that was reported is gone. In the same way a file of the same size that
  somebody else has put there under such a name would be taken for the upload; the initial states have none.
* `Kept` in RemoteUploads after more than one misleading look, with uploads that break off between
  them (TLC: three looks, three faults, two retries): a listing that is behind shows what
  was there before an upload whose answer was lost; the next try takes that for
  remains and uploads over the finished file, breaks off, and the last try sees the file
  it has replaced in the cache (`upload.py:189`): "done", and a piece of it is there. Hence `misses <= 1`. With one misleading look the same takes
  three failing calls: the removal of what was there, an upload over it that is stored
  without an answer, and its repeat, which breaks off (`openlist_client.py:361`). Hence `faults <= 2`.
* `FilesOwned` in PrefetchWindow without `Stranded`: an item that is skipped (another device has it, or it is done:
  `pipeline.py:600`), or that a worker has downloaded itself because its offer had not been taken yet,
  may be prefetched afterwards (`pipeline.py:322`). Nobody looks for the result: it stays on disk and in
  `prefetch_results` to the end of the run, and enough of them stop the window (`pipeline.py:319`).
* `PathTrue` in RemoteUploads after a misleading look: the old name is accepted although the
  rename has taken effect (`upload.py:151`).

Also noticed, without a run: the server answers a retry of a chunk whose body was cut
off, or whose answer was lost, with "Out-of-order chunk" (`api.py:781`), because it keeps the bytes
it has; the retry loop of `upload_file_chunked` therefore helps only for a first chunk. A SIGTERM can cost a task two attempts (its job fails itself, and a
lease already under way takes and drops it again); "done" is appended after the lock
has been released, so another device may do the item again; locks are not
refreshed, so a job longer than `--lock-ttl` is stolen from a live device.

## 7. Not modelled, and the plan

Not modelled for good: encoding and probing (sequential code around ffmpeg without
shared state; `RemoteUpload` takes from it that an output has the planned name or the
source's), configuration, logging, command line parsing, worker capabilities,
modal, scripts, tests. Parts left out of the modules above:

* server: registration, tokens, scopes by route and kind, and with them the kind
  filter that is applied after LIMIT (`api.py:540`); leases of several rows in one
  request are modelled as several requests in `TaskServer`; read-only endpoints;
* server: the comparison of `staging_path` in a complete (`api.py:912`): `WorkerFleet` lets any complete be refused;
* worker: the semaphores that delay a job, back-off times, and `_client_lock`, which may
  hold heartbeats back for as long as a complete takes (`worker.py:131`); that the size of a
  lease is computed before the request (`worker.py:570`: `Lease` takes what is free when it is
  granted, which is never less);
* CLI: SIGINT and the end of a run by `FatalAuthError` in the run loops; files left in
  the prefetch directory by failed calls, which `cleanup` removes; `--overwrite`, with
  which the first look of an upload has no effect;
* naming: a planned extension that turns out wrong (a video that gets another
  container than foreseen), in which case the override is ignored (`processor.py:87`);
* OpenList client: relogin, the event loop thread, cancellation.

What is left to find out: `FinalizedWhole` of `CopyScan` with two runs of `--scan-once` beside the server's
(TLC finds no counterexample, the theorem is about one run); a protocol for remote locks that
excludes, which would be a change of the code; liveness as theorems.
