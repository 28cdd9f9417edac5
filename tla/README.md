# JudgeIt, specified in TLA+

JudgeIt is an online judge: an API stores a submission and queues a message, a
worker in the same process takes the message from Kafka, runs the program in an
`isolate` box on the tests of its problem, and writes a verdict. This directory
holds TLA+ modules of that path and of the accounts beside it, the TLC configurations that check them on small
instances, and TLAPS proofs of the properties that matter most for every
instance. Paths below are relative to the repository (`src/`).

## 1. Inventory

| Part (source) | State | Operations | What is hard | What makes it correct |
|---|---|---|---|---|
| Semaphore (`src/worker/semaphore.service.ts`) | permit count, free box list, FIFO of parked promises | `acquire`, `release` | hand-over to a parked caller while others come and go | a box is one job's; no wake-up is lost; no box is lost |
| Offset tracker (`src/worker/offset-Tracker.service.ts`) | in-flight offsets and last safe offset per partition | `track`, `complete` (`clear` has no caller) | jobs end out of order | what may be committed covers finished work only, and never moves back |
| Worker manager (`src/worker/worker-manager.service.ts`) | `isPaused`, the consumer, a semaphore, a tracker | `onModuleInit`, `eachMessage`, `acquireOrPause`, `processMessage` | jobs run un-awaited beside the next message; pauses; reordered commits; rebalances; crashes | at-least-once processing, backpressure that always ends, own box per job |
| Execution (`src/execution/execution.service.ts`) | files of the box, meta file, results so far | `executeBatch` and the commands it runs | every command may fail; the box outlives a failure or crash | own program, own output, one status per test, box cleaned |
| Judge (`src/judge/judge.service.ts`) | nothing of its own between awaits | `judgeSubmission`, `validateResults` | two deliveries of one message overlap; two writes without a transaction | the verdict is the first failure; rows never precede a verdict |
| Submissions (`src/submissions/`) | `Submission` and `SubmissionResult` tables | submit, update, insert, queries | row stored, message lost; message before row | an acknowledged submission is judged |
| Kafka producer (`src/kafka/`) | connection | `sendMessage` | a timeout tells nothing | acknowledged means queued |
| Cache (`src/cache/cache.service.ts`) | Redis entries, `inFlight` map of promises | `get`, `set`, `getOrSet` (`del` has no caller) | state read before an await and used after it | one fetch per key, no stale promise, versions move forward |
| Test cases, storage (`src/judge/test-cases/`, `src/storage/`) | none (S3 is outside) | list and read files, group `.in.txt`/`.out.txt` | files change between listing and reading; one listing page | the tests that were listed, but for what nothing prevents: newer contents and keys beyond the page |
| Auth, users (`src/auth/`, `src/users/`) | user rows with the hashed refresh token, account rows | register, login, refresh, logout, change password, Google callback | no transactions: two requests between check and write | a session that was answered stands until a later write; a profile signs in its own user |
| Password reset (`src/auth/password-reset.repository.ts`) | reset token rows | request, verify, reset | partial failure, expiry between check and use | an answered reset spends its token |
| Monitoring (`src/common/middlewares/`, `src/monitoring/`) | Prometheus counters and gauges | `use`, the listener on `finish` | a client leaves before its answer | the gauge counts the requests being processed |
| Guards, strategies, problems, email, wiring | none that is read back | - | - | - |

The parts meet as follows. `submit` writes the row, then awaits `sendMessage`.
kafkajs calls `eachMessage` for one message at a time; it awaits a box and
starts `processMessage` *without* awaiting it. That calls `judgeSubmission`,
which reads the tests through the cache, calls `executeBatch` with the box, and
writes twice. Its `finally` block releases the box, resumes the partition and
commits what the tracker calls safe. The only shared mutable state in the
process is that of the semaphore, the tracker, `isPaused` and `inFlight`; the
shared state outside it is the database, the log, the boxes and Redis.

Node.js does not interrupt code between two awaits. A step of every module is
such a stretch, which is why `release()` or the whole `finally` block is one
action and `getOrSet` is several.

## 2. Modules

```
 Semaphore      OffsetTracker       SubmissionLifecycle      Execution      TestCases
      \           /   (INSTANCE)      /   | INSTANCE          | implements     | EXTENDS, implements
      WorkerManager                  /   Batch  <------------+              Cache
        |       \   EXTENDS         /  INSTANCE
        |        `----->  JudgeSystem
        | implements
      JudgeQueue

 Accounts, Monitoring  (share no state with the others)
```

| Module | Models | Correspondence |
|---|---|---|
| `Semaphore` | `SemaphoreService` | `count`, `availableBoxes`, `queue` are its fields; `held` is the history of answered requests. `Acquire` = `TakeBox` or `Park`, `Release` = `HandOver` or `PutBack`. `Drop` is a caller that forgets its box, which `processMessage` does for an empty message. |
| `OffsetTracker` | `OffsetTrackerService` | `inFlight`, `committed`, `tracked` (the keys of the map); `Track`, `SafeOffset` (what `complete` returns), `Complete`. Alone it is driven by `Deliver` and `Finish`. |
| `WorkerManager` | `WorkerManagerService`, with kafkajs and the broker as it uses them | INSTANCEs the two above on its own variables. `ReceiveMessage` = `eachMessage` to the await of the box; `StartJob`/`SkipEmpty` = the rest of it and `processMessage` to its first await; `FinishJob` = from there to the commit request; `CommitOffset`/`CommitFails` = the answer. `Join`, `Rebalance`, `Crash` are external. |
| `JudgeQueue` | what the worker promises: an at-least-once queue | abstract; `WorkerManager!ImplementsQueue` |
| `Execution` | `ExecutionService.executeBatch`, `isolate` from its commands | one action per awaited command and one for its failure; `files[b]` says who wrote the source, binary and output of a box; `ParseMetaFile`, `ResultStatus` are the two functions of that name |
| `Batch` | what `executeBatch` promises the judge: one status per test, `CE` for all or none | abstract; `Execution!ImplementsBatch`, and what `SubmissionLifecycle!Execute` chooses from |
| `SubmissionLifecycle` | `submit`, `sendMessage`, `judgeSubmission`, `validateResults`, the two repositories | one action per awaited call; a delivery is a pair of submission and number |
| `JudgeSystem` | the path of a submission from `submit` to the commit of its offset | an action joins those of `WorkerManager` and `SubmissionLifecycle` that the code takes in one stretch: `Send` = the message is in the log and `sendMessage` answers, `StartJudging` = `StartJob` with the call of `judgeSubmission`, `FinishJudging` = the `finally` block after it; `log` says which submission a message carries, `judging` which delivery a job judges. API and worker are one process, so `CrashAll` is the crash of both |
| `Cache` | `CacheService.getOrSet` and its promise chain | `caller` says where a call is, `fetch` where its promise chain is; a value is the version of the files it was read from |
| `TestCases` | `TestCasesService.getTestCases` over `StorageService` | the fetch of `Cache` with what it reads: `ListObjectKeys` (one page), `GetObject` (one file of the `Promise.all`), `StoreSuite`; `Group` is the grouping by base name. `ChangeFile` writes or deletes one file at any moment |
| `Accounts` | `AuthService` over `UsersRepository` and `PasswordResetRepository`, as the endpoints of `AuthController` use them | `users`, `accounts`, `resets` are the tables. `at[r]` and `call[r]` are where a request is and its local variables; `rtWriters` is history: who has written a refresh token, in that order. The first action of a request is its arrival with its first read, then one action per awaited call |
| `Monitoring` | `MonitoringMiddleware` and the http metrics of `MetricService` | `Use`, and `Finish` for the listener; `ClientLeaves` is a closed connection, after which node emits `close` and no `finish` |

`MC*` modules give the constants for TLC. `*Proofs` modules hold the theorems.
Definitions commented "Faulty variant" are mutations of the definition after
them; no specification uses them. They are there so that each property can be
shown to fail on a plausible mistake.

Abstractions worth knowing:

- Comparing two outputs (`normalizeOutputStrict`) is a free Boolean per test.
- A run's memory is a number of KB; only whether `toFixed(2)` of its megabytes
  is whole matters, since the column is an `Int`.
- The status `MLE` is kept as `buildResultFromMeta` has it, although isolate's
  `--mem` limit usually ends a program as `RE`.
- `KeeperDies` in `Execution` is FALSE: isolate finishes its meta file unless it
  is killed itself. See section 6 for what happens if it is.
- `MAX_WORKERS`, retry counts and sizes are constants; times are not modelled.
- In `Accounts` a user is the e-mail, which is unique and never updated. That
  the username is unique too, a failing database or mail, and the end of the
  process are all `Fail`. An argon2 hash is the value it verifies. A JWT is its
  user, whether it names roles, and its second: two that agree are one string,
  which is why `now` is there. What the DTOs refuse never arrives.
- A failing Redis rejects in `Cache`, as the calls of `cache.service.ts` would show it.
  The cache library, which is not part of the repository, may swallow the error: a
  failed read is then a miss, and a failed write leaves the entry there was, so that an
  older content may be given after a newer one. `ContentsMoveForward` excludes this.
- A content of a test file is the version of the files in which it was written;
  a listing takes one step, a read of one file another. Base names are numbers.
- `JudgeSystem` leaves out what a test's run gives (`Execution` and `Batch` say
  it); in `judge_system` problems have no tests, so that a judging is its awaited calls.
- `Init` of `Accounts` has every database the handlers can have made, so that
  two or three requests reach what a longer history would.

## 3. Runs

| Run | Question | Bounds, and why they are enough |
|---|---|---|
| `worker_services` | Can two callers hold one box, can a waiting one be forgotten? Is what may be committed always finished work, and monotone? | the two services side by side. 2 boxes, 4 callers: two hold while two are parked and both kinds of `release` interleave. 4 offsets on each of 2 partitions: gaps of every shape, and a partition to disturb |
| `worker` | Do boxes, pauses, commits and the queue's promise survive crashes, rebalances, failed and reordered commits? Is an empty message the only thing that costs a box? | 2 partitions x 2 messages, one of them empty, 2 boxes, 1 crash, 1 rebalance. Two requests of one partition can overtake each other, a third message must park, and a redelivery can overlap its first job |
| `worker_stall` | Does an idle worker with two partitions resume both? | violated |
| `worker_lost` | Does a crash lose no submission? | violated |
| `judge_system` | From `submit` to the committed offset: does a committed submission have its verdict and rows, unless its judging threw or a join passed it over? Are they written only while the message is in flight and uncommitted, until something makes the consumer rejoin? Are rows written once per delivery, has every pause an end, is an acknowledged submission kept (in the uncommitted log, and ahead or in hand of a consumer that goes on) until it is decided, and does it get its verdict in the end? | 2 submissions in 1 partition with 1 box: the second must wait, and the pause is entered and left; 1 crash and 1 rebalance, so that a submission is delivered up to three times; two commits that can overtake each other before the crash; every awaited call failing at will; no tests, since no property of this run looks at a status. `AcknowledgedIsDecided` is stated for a topic of one partition: `worker_stall` shows why it fails on two |
| `judge_commit` | With no service failing, does a committed submission have its verdict? | violated; one submission with one test, and a run of 3340 KB |
| `execution` | Does each batch run its own program, report its own output, clean up, end, and keep `Batch`'s promise? | three calls (compiled, interpreted, unsupported language) in one box, two tests each, every command failing at will, one crash. One box is the hard case: each call finds what another left |
| `submission` | Is the stored verdict right, whatever overlaps, fails or crashes? | two tests with all statuses, two deliveries, one crash; the first failure can come before or after a wrong answer |
| `submission_solved` | Does an accepted submission count as solved? | violated |
| `test_cases` | One fetch at a time, no stale promise, no older file after a newer one, suites as they were listed but for newer contents and the keys beyond the page, everybody answered? | three judgings of one problem (two overlap and a third comes after), a test with its two files and a folder key that somebody may add, so that the three keys exceed a page of two and a suite loses its last output, or a read mixes two versions; two versions, expiry, every await failing |
| `accounts` | What may overlapping requests do to sessions, Google accounts, reset tokens and passwords? | three one-shot requests of any kind: two that race, and one whose answer a refresh or a second reset needs. Two e-mails, so that a profile can be linked to another user than its e-mail's; one profile and one reset token to race for; a long and a short password; two seconds, so that tokens can be equal or not. Symmetric in requests and e-mails, which no property tells apart |
| `monitoring` | Does the gauge count the requests being processed? | violated |

Deadlock is checked in `worker_services`. The other systems really stop once
the bounded messages, batches, deliveries or calls are all over.

Every property of a passing run is paired in `PROJECT.json` with a faulty
variant of a definition under which TLC finds it violated. The types of
`TestCases` and `Accounts` are proved (`SuiteTypeCorrect`, `AccountsTypeCorrect`)
and take no part in a run.

### Fairness

- `Semaphore`: a holder releases (`finally`).
- `JudgeSystem`: connecting succeeds in the end (`Start`); kafkajs goes on
  delivering what a partition holds unless it is paused (`Consume`); the event
  loop runs a handler whose promise is resolved (`StartJudging`) and the
  `finally` block of a judging that is over (`FinishJudging`); each awaited call
  of a judging or a `submit` is answered, if only with an error, because the
  sandbox bounds time and wall time and `exec` has a timeout (`Judge`, `Send`).
  Nothing is assumed of the broker's answers to commits, and nothing of the
  redelivery of a message: that it comes again after a crash follows from the
  offset that was committed. `WorkerManager` and `SubmissionLifecycle` state no
  fairness of their own.
- `Execution`: the steps of a call, for the same reason. A failure is always
  among the steps, never required.
- `TestCases`: Redis and S3 answer, if only with an error, and the event loop runs
  what is ready. Expiry and changes of the files are not fair.

## 4. Theorems

All hold for every value of the constants under the named assumptions of the
modules, which only say what kind of value a constant is (`Workers` is positive,
`Tests` is a function, ...).

**Semaphore** (`SemaphoreProofs`). `SemInv` joins types, `BoxExclusive`,
`PermitsMatchBoxes` and `NoIdlePermit`. Exclusiveness is not inductive alone:
`TakeBox` takes the head of the free list when `count > 0`, so one needs
`count = Len(availableBoxes)`; and `HandOver` is safe because the list holds no
box in use. `BoxesConserved` is proved beside it, not in it, because
`WorkerManager` really does lose a box (empty message) and reuses the rest: what
it keeps is `KnownBoxes`, the boxes that are free or held, which `acquire` and
`release` leave alone and `Drop` alone makes smaller. `HoldersBounded` counts:
with a box each there are never more holders than boxes. `SemServesInOrder` is
the part of `ParkedIsServed` that needs no fairness: a parked caller only moves up,
and while somebody is parked only the first of the queue is given a box.

**Offset tracker** (`OffsetTrackerProofs`). `TrackerInv` adds to `CommittedIsSafe`
that everything delivered is in flight or done, and nothing at or above the next
offset is; `SafeOffsetLemma` says what `complete` returns relative to the least
offset still in flight (`MinOfOffsets`, by well-foundedness). The surprising part is
`CommittedNeverDecreases`: `complete` has a branch, for nothing else in flight,
that does not compare with the last committed offset. It is safe because an
offset in flight always exceeds the committed one. The same fact shows that a
`null` means that all below the lowest offset in flight was committed already
(`CompletionCommitsAllBelow`).

**Worker manager** (`WorkerManagerProofs`). `WorkerInv` describes the offsets below
a committed or requested one as *settled* (finished or skipped) and those below
the consumer's position as *accounted for* (also in flight). `SafeOffsetLemma` of
the tracker is used for every completion, also those after a rebalance, when a
message can be in flight twice. From it follow `CommitCoversFinished`,
`RequestsCoverFinished`, `DeliveredIsAccounted` and, step by step, the
refinement `ImplementsQueue`. `JobsHaveOwnBox` comes from the
semaphore's lemmas, instantiated here, with `Drop` for empty messages and
a fresh semaphore after a crash. `ScheduleInv` is the other half: there is one
handler, so at most one request is parked or answered and not yet a job, and it
is the handler's (`HandlerInv`); the flag is set with the whole topic
(`PauseInv`); without a rejoin the position is above every job's message
(`OnceInv`). It gives `TypeOK`, `ParkedMeansPaused` and `OneJobPerMessage`.

Whether a pause ends depends on the boxes that are left. `PausedMeansParked`
says that the flag is up only while a request is parked (the job that hands it a
box clears the flag in the same stretch), and
`ParkedBehindJob` that a request waits behind a job if any box is known; so
`WorkerPauseEndsByJob` gives `PauseHasEnd` wherever `KnownBoxes` is not empty, and
`WorkerPauseHasEnd` gives it outright for `Empty = {}`. What empty messages do
is proved too: `BoxesLostToEmpties` counts one lost box for each empty message that
was skipped and none for anything else (`LostInv`; `FlightInv` shows that no
job's end takes such a message out of flight, and that an offset is skipped
once, which is so until a join delivers it again). Hence `WorkerOutlastsEmpties`: with
fewer empty messages than boxes every pause has an end, as long as nothing makes
the consumer rejoin. And with no box
left there is none, whatever else happens, until the process is restarted
(`WorkerStallsWithoutBoxes`). `NothingLeftPaused` is proved for one partition, with
empty messages or without, and false for two (`worker_stall`).

Two facts about the log are proved because the whole path needs them:
`FlightHandled` (an offset in flight is the handler's or a job's, unless its
message is empty: `complete` takes out what a job ends and only that) and
`WorkerCommitsWithinLog` (`WithinInv`: nothing is consumed, requested or committed
beyond the end of the log). `WorkerLimitsJobs` is the concurrency limit.

`AheadInv` looks at the commits from the other side: until a rejoin delivers
messages again, the committed offset and every request on its way stay at or below
whatever is in flight, and at or below the position, so that what is tracked next
is ahead of them too. `WorkerCommitsBehindJobs` follows: no order in which jobs end
and requests are answered commits, or asks to commit, past a message that the handler
holds or a job judges (`FlightInv`: both are in flight). With a rejoin it is false
(section 6). `FirstLifeInv` adds that before the first crash nothing finished is
delivered again.

**The whole path** (`JudgeSystemProofs`). `SystemRunsWorker` and `SystemRunsLife`
show that each step of the composition is one of `WorkerManager` and one of
`SubmissionLifecycle`, or a stutter, so that every theorem about either holds of the
system. `SystemCommitsWritten` is a property of neither alone: `SystemInv` adds to
`WorkerInv` that the log has what the worker thinks it has (`LogInv`), that a job
judges the submission of its own message (`JudgingInv`), and that what is
finished has a delivery that ended (`FinishedInv`); the last is stable because
an ended delivery is never cut off by a crash. That delivery has written a verdict
and its rows (`WrittenInv`, `CountInv`), unless it threw. `SystemCommitsVerdicts` is
the promise of the repository's README, which the code keeps only under its
assumptions: no service fails and memory comes in whole megabytes, so that no
judging throws (`NoneFailed`), and no join passes over a message. `judge_commit` shows
that it fails without the second. `SystemInsertsPerDelivery` counts:
a delivery that ends has inserted once (`CountInv`); a submission is in the log
once, and delivered only from there (`SentInv`); and a delivery beyond the number
of crashes and rebalances so far is possible only while the position is still
before its message, which it then passes (`TurnInv`). The last uses `ScheduleInv` of
the worker.

What is true of submissions alone is carried over by `SystemLivesLife`: the
theorems of `SubmissionLifecycleProofs` are instantiated with `queued` as what is in
the log, and `SystemVerdicts` states its three invariants of the whole path, under
every schedule of the worker. `SystemKeepsAcknowledged` is the safety behind
`AcknowledgedIsDecided`: acknowledged means in the log (`NewInv`); if it is
committed, it was finished, so its delivery ended and wrote a verdict or failed
(`SystemInv`, `WrittenInv`); if a consumer goes on past it, it is in flight, so it
is handled (`FlightHandled`). `SystemDropsOnlyPassedOver` removes the failures: with
every service answering and no fraction of a megabyte, only a join without a
committed offset can drop a submission. `JobsInv` ties each call of
`judgeSubmission` to the job that awaits it, one to one, which gives
`SystemJudgesInOwnBoxes`: never more than `MAX_WORKERS` judgings, each in a box of its own.

`SystemRewritesOnlyInFlight` says when a verdict is final. Only a judging writes one
(`submit` creates a row before its message is in any log, `LoggedIsSent`). A judging
belongs to a job (`JobsInv`, `JudgingInv`), whose message is in flight and ahead of
every commit until a rejoin (`JudgedIsInFlight`, from `AheadInv`), and a submission is
in the log once (`SentInv`). So what the `finally` block has completed is not
written again before it is delivered again, which takes a crash (`FirstLifeInv`) that
finds the group at or below it. That the group was past it once does not exclude
this (section 6).

**Execution** (`ExecutionProofs`). `ExecInv` has, beside the types, what the results
of a call look like at each step (`GatherInv`), that a box is used by one call
at a time (`ExclusiveInv`, which is what the worker's `JobsHaveOwnBox` provides), what
a call has put into its box by then (`ProgramInv`), and that a box in use before
its `--init`, or out of use and present, is known to be uncleaned (`CleanInv`).
`RunsOwnProgram` and `BoxesAreCleaned` follow, and the refinement of `Batch`, whose
state is what the caller sees. `NoForeignOutput` assumes `~ KeeperDies`: a sandbox
that fails leaves the output of the test before, and only the report written by
isolate tells. `ExecKeepsOutputsApart` needs no such assumption: what a test of a
call reports was printed by that call's program (`ApartInv`: what is in a box
between `--init` and `--cleanup` was put there by the call that uses it). So even
then no output of another submission is shown. `ExecCountsDown` is the part of
`BatchEnds` that needs no fairness: `StepsLeft` is a rank that each step of a call
lowers, failures included, and that no other call and no crash raises.

**Submissions** (`SubmissionLifecycleProofs`). `FinalVerdictExplained` says of the
operator what the property says of the table: the first status other than `OK`, and
`WA` if there is none and some output differs. `RowsExplainVerdict` is not
inductive alone, because the verdict is written before the rows: `WitnessInv` says
that a stored verdict is shown by rows, or due by a delivery that is about to
write them, or that a delivery was cut off in between. `NewInv` and `WrittenInv`
relate the parts of a judging to the row: nothing is judged that was not
queued, and a judging that is past its first write has left a verdict. They give
`LifeProcessedIsDecided` (a judging that did not throw leaves a verdict) and
`LifeVerdictStays`: a row is created once and before it is sent, so a verdict may be
written again but never returns to PENDING. `LifeWholeMegabytesDecide` is the
other side of `judge_commit`: without a fraction of a megabyte and with every
service answering, no judging throws (`NoneFailed`).

**Tests and cache** (`TestCasesProofs`). First the cache alone. `EntryInv` makes the
map and the promise chains name each other: a chain under way *is* the entry of
its key. `OneFetchPerKey` and `NoStaleEntry` follow. `AnswersMoveForward` needs an
order on everything that has been or may still be returned for a key: the files
are the newest, then what a fetch under way has read, then what Redis holds,
then the rest (`VersionInv`). A fetch may overwrite Redis because no other fetch
of the key can be under way when it does. `FloorInv` carries a call's floor through
hits and joins. Then the tests: `TestsImplementCache` maps every step to one of
the cache or a stutter, so all that holds of them as well. `SuiteInv` adds the
types, what the bucket may hold (`BucketInv`), what a fetch may have read of its
listing (`ReadInv`), the order between the contents of two fetches of a problem
(`OrderInv`), and which fetch a call's answer is (`CallInv`). It gives
`ContentsMoveForward` and `SuiteIsAsListed`. The latter does not promise a suite of one
version or a whole one, which the code does not give; it says how far a suite may be
from its listing: contents may be newer, never older, and only the end may be
missing. `FullPage` says that a listing that fits its page is whole and `PageIsPrefix`
that a page is cut off at its end. TLC's page of two keys loses the last output
only; that whole tests are lost from the end only is in the proof.
`TestsCoalesce` says of the listing and the reads what was proved of the cache: no two fetches of a
problem's files at the same time, and none left in the map once it has failed.

**Accounts** (`AccountsProofs`). `AccountsInv` has, beside the types, three parts.
`TablesInv` says of the rows alone that an account's user exists and that a user
without a hash has an account; it is what `createOauthUser`'s one nested create
buys, and `LoginFindsHash` rests on it. `RequestInv(r)` says what a request may
rely on after its reads although nothing is locked: rows are never deleted, an
account once made is never moved (the unique pair refuses the second link), a
used token stays used. It is stable because each step of another request only
adds to the tables or overwrites one column. `StoredTokenIsHeld` gives every
stored refresh token the request that wrote it. `AnsweredSessionStands` needs the order
of the writes: `WriterInv` says that every request that is past its write is in the
history `rtWriters`, and that what it wrote is in the column still or a later entry is
of the same user. So of two overlapping refreshes the one that stored last is good.
`SpentTokenIsRefused` follows step by step from the part of `RequestInv` that a finished reset has marked its token.
`PasswordsChangeByOwner` adds `OwnerInv`, what a request about to write a password goes
by: a mailed token, which keeps its user, or a password its user had, which no
step clears. That a registration writes no password over a user made since it looked
is the unique e-mail of `CreateUser`.

**Only model-checked.** Liveness (`ParkedIsServed`, `BatchEnds`, `CallReturns`,
`AcknowledgedIsDecided`): fairness and ENABLED are outside the prover, though
`SemServesInOrder`, `ExecCountsDown` and `SystemKeepsAcknowledged` prove the safety they
rest on. Every safety property of the passing runs is proved. What the safety theorems leave to
TLC is that the steps they say are possible do happen.

## 5. Findings

| Run | What the code does |
|---|---|
| `worker_stall` | The whole topic is paused but only the finished job's partition is resumed, and `isPaused` is cleared: another partition stays paused on an idle worker. |
| `worker_lost` | `fromBeginning: false` with no committed offset: a crash before the group's first commit passes over what was in flight. |
| `judge_commit` | `memory_mb` has two decimals and goes to an `Int` column: the update is refused and the judging throws, with every service working. |
| `judge_commit` | A judging that throws is logged, and the `finally` block commits its offset like any other: the submission stays PENDING and never comes again, although README.md:21 has commits "upon successful job completion" so that none is lost. |
| `submission_solved` | The judge writes `ACC`; the solved problems are looked up by `ACCEPTED`. |
| `monitoring` | The gauge is taken down on `finish` only: a request whose client leaves early stays in `http_requests_in_flight` until the process restarts. |

## 6. Also met while modelling

The models do what the code does here too; no run is spent on it.

- `SkipEmpty`: an empty message keeps its box for ever (the early return of
  `processMessage` is outside the `try`), and its offset stays in flight, so nothing
  above it in its partition is committed. When they have taken every box the
  worker is paused until a restart (`BoxesLostToEmpties`,
  `WorkerStallsWithoutBoxes`). The producer sends none.
- `complete` on the last in-flight offset records that offset even when a higher
  one finished before it (track 0 and 1, complete 1, complete 0 records 0);
  a restart then repeats finished work. Nothing is lost.
- `CommitOffset`: the commits of two jobs may arrive in the other order, and the broker
  takes the last. The group's offset then moves back, and a crash judges a submission
  again that was committed already. `FinalUntilRedelivered` therefore says "in
  flight and not committed now" and not "never committed".
- `FinalVerdict` of no verdicts is `ACC`: a problem whose tests are missing from
  the storage accepts anything, a program that does not compile included.
- `SendFails`: the row stays PENDING, and nothing sends the message again.
- With `KeeperDies = TRUE`, an empty meta file is parsed as exit code 0, hence `OK`,
  and `output.txt` may be that of the test before.
- An output above `exec`'s default `maxBuffer` reads as empty (`Large`).
- A redelivery after a crash between the two writes adds a second list of rows.
- After a rejoin a message is judged a second time while its first job may still be
  running. When the first ends, its offset is committed, and the second judging
  writes its verdict and rows after that. `FinalUntilRedelivered` is therefore
  stated for `rebalances = 0`, and false without it.
- `StoreNewPassword`, `MarkTokenUsed`: a reset that is cut off between its two
  writes can be repeated, and overlapping resets with one token all succeed.
- `UpdateRtHash` writes whatever the column holds by now: a login or refresh that
  is under way when its user logs out stores its token after the logout. Two
  overlapping refreshes both answer, and only the token stored last is good
  (`AnsweredSessionStands` says exactly this much).
- Two refreshes within one second give the same token string again, the old one.
- After the Google callback `req.user` is a row with `role`, not `roles`, so the
  token names no roles and counts as `USER` until it is refreshed.
- `Group`: a test without `.out.txt` is kept and compared with no output, so a
  correct program that prints something gets `WA`. One without `.in.txt` is dropped.
- `FirstPage`: the keys after the thousandth are never seen, and the tests they
  belong to are silently left out (or kept without an output, when the page
  ends between the two files of a test).
- Files of different versions can be read by one fetch, and such a suite stays in
  Redis for its whole lifetime. `SuiteIsAsListed` says how far it can be from its listing.
- The worker subscribes to `KAFKA_TOPIC` and the controller sends to
  `KAFKA_SUBMISSIONS_TOPIC`; the models take them for the same topic.
- Box numbers are per process: that two workers on one host do not collide rests
  on `instances: 1` in `ecosystem.config.js`.
- `mq_messages_produced_total` is incremented before the send
  (`kafka-producer.service.ts:37`), so it counts the sends that fail.
- The http metrics are labelled with the raw URL (`monitoringMiddleware.ts:8`):
  each submission's page is a time series of its own.

## 7. Not modelled

- `clear()` of the tracker, `del` of the cache and `deleteUser` have no caller.
- Problems, the paged lists, counts and details of submissions, `getProfile` and
  `reset-password/verify` are queries: they change nothing, and what they return
  is what the tables hold.
- Email renders a template and sends it; that sending may fail is in `Accounts`.
- The counters and histograms other than those of http requests are added to in
  one place each and never read back.
- Guards decide on one request without state; validation decorators only
  restrict what arrives; the modules, the bootstrap and Prisma's connection are wiring.
- A fetch that gives null (`FetchReadsNull` of `Cache`) never happens below
  `getTestCases`; it is in the proofs of `Cache` and in no run.

## 8. Plan

The order was: the worker side first (what the README of the repository
promises), then what a job does, then the data it leaves, then the account side,
then the path of a submission as a whole and the tests it is judged by.

Done: `Semaphore`, `OffsetTracker`, `WorkerManager` with `JudgeQueue`,
`Execution` with `Batch`, `SubmissionLifecycle`, `Cache`, `Accounts`, `JudgeSystem`,
`TestCases`, `Monitoring`, and the safety theorems of all but the last, where the
one property of interest is false.

The proofs went the same way: each component's safety invariants, then the
refinements, then what needs several of them at once (`SystemKeepsAcknowledged`,
`SystemJudgesInOwnBoxes`, `SystemRewritesOnlyInFlight`), and the exact conditions
under which the worker keeps going (`WorkerPauseEndsByJob` to `WorkerStallsWithoutBoxes`).

What remains are the liveness properties, which stay with TLC, and the parts of
section 7, which have no state that a property could be about.
