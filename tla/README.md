# Formal models of the RunningHub workbench and its license service

This directory holds TLA+ models of the program in this repository, the TLC
configurations that check them on small instances, and TLAPS proofs about them.
Every definition is translated from the source; `PROJECT.json` names for each
one the lines it stands for.

## 1. Inventory

The repository is one product in three programs.

| Part | Source | State it keeps | Operations | What is hard |
|---|---|---|---|---|
| Task scheduler | `client/server.py` | `_tasks`, `_task_queue`, `_account_busy`, futures of `_executor` | run, batch-run, cancel, restart, dispatch, finish, expire, shutdown | HTTP threads, executor threads and done-callbacks share it; exceptions inside the dispatch loop; a restart that overlaps a cancelled attempt |
| Accounts and sessions | `client/server.py` | `profiles/<id>/config.json`, `state.json`, `_login_processes` | save, log in, delete, mark expired | readiness is read from files while logins write them; removal checks first and deletes later |
| Login session | `client/server.py`, `client/sms_login.py` | stage, frame, event queue, token per session | start, pointer, verify, status, frame, events, reap | a browser worker process and the workbench talk over local HTTP; stale session ids, coalescing of pointer moves, privacy of the frame |
| Browser run | `client/runninghub_client/browser.py` | one Playwright page, baseline of outputs, deadlines, cancel flag | run, retry, observe, save, stop, screenshot | retries on OOM or no progress, deadlines that stop while RunningHub queues, results of an earlier attempt, late failures |
| Workflow inputs | `client/server.py` | none (pure) | resolve one task's inputs, resolve a batch (pair, cycle, repeat) | boundary of 500 tasks, unequal list lengths |
| Workflow catalog cache | `client/server.py` | `WORKFLOWS`, time of loading | refresh, clear, look up | 60 s staleness, server unreachable or license refused |
| License client | `client/license_client.py` | `license.json`, cached certificate | activate, renew, check, reset, status | lost answers of non-idempotent calls, crash before the state is saved |
| License server | `server/app/services.py`, `routers/` | cards, licenses, devices, tokens, rebind codes in MySQL | activate, check, renew, revoke, admin card and license operations | concurrent transactions, row locks missing on some reads, unique index, rolled-back updates |
| Data migration | `client/server.py` 62-225 | data directories, a marker file | find and copy old data at start | crash between two copies |
| Screenshot handshake | `client/server.py`, `browser.py` | two events and two fields of a runner | request, take, hand over, stop, cancel | request threads, browser thread, cancellation and the end of the attempt share them without a lock |
| Material library | `client/server.py` | files and one metadata file | upload, manage, delete | metadata written under a lock, files outside it |
| Administration tool | `admin/` | none of its own | forwards to the admin API | thin client |
| Deployment | `server/scripts`, `nginx`, `installer` | - | - | not program logic |

Interactions: the UI polls `GET /api/tasks` (2.5 s) and that calls the
dispatcher; every handler that creates work or frees an account calls it too.
The dispatcher reads account readiness (session files, login registry) and the
workflow catalog, which asks the license client and through it the license
server. An attempt runs one browser run in an executor thread; its done-callback
books the result and calls the dispatcher again. Lock order:
tasks -> login, tasks -> catalog -> license; the library lock stands alone.

The hazards found in the code are listed in `PROJECT.json` under `hazards`,
each at its line; the properties were written for them.

## 2. Plan

| Order | Module | What | State |
|---|---|---|---|
| 1 | `TaskScheduler`, `MCTaskScheduler` | scheduler, readiness of accounts, removal, shutdown | checked, all safety proved |
| 2 | `LicenseServer`, `MCLicenseServer` | transactions of the license service with row locks and snapshot reads | checked, proved |
| 3 | `LoginSession` | login stages, frame and event queue between page, server and worker | checked, all safety proved |
| 4 | `BrowserRun` | retry loop, deadlines, completion and cancellation of one run | checked, all safety proved |
| 5 | `Screenshot` | the request/ready handshake with its timeout | checked, all proved |
| 6 | `WorkflowCatalog`, `BatchInputs`, `MCBatchInputs` | inputs of a single run, of a batch and of the browser run | checked, all proved |
| 7 | `LicenseClient` | activation, gate, catalog cache, state file against the license service | checked, all proved |
| 8 | `DataMigration`, `MaterialLibrary`, `MCMaterialLibrary` | start-up copy with crashes; the library on the same files | checked, all proved |
| 9 | `AccountSlots` | abstract specification of the accounts; `TaskScheduler` implements it | checked with fairness, proved without |

Proofs: `TaskSchedulerProofs`, `LicenseServerProofs`, `LoginSessionProofs`,
`BrowserRunProofs`, `ScreenshotProofs`, `BatchInputsProofs`, `LicenseClientProofs`,
`MaterialLibraryProofs`, one for each component. What TLC alone has checked is listed at
the end of section 11.

## 3. The task scheduler

`TaskScheduler.tla` models `client/server.py`. One action is one critical section
of `_tasks_lock`, or one step of a thread between two of them:

- `Submit` (`/api/run`, `/api/batch-run`; `CheckAccount` is the earlier unlocked
  look at the account), `Cancel`, `Restart`, `Poll` are HTTP handlers.
- `Dispatch` is one call of `_dispatch_tasks`. `calls` counts the calls that a
  handler or callback has issued and that have not got the lock yet, so that the
  trailing `_dispatch_tasks()` of a handler is neither optional nor atomic with
  it. The loop over the queue is stated by what it hands out (`Loop`): in queue
  order a task is picked as soon as an account fits it, and never otherwise.
  Which of the free accounts an auto task gets depends on directory names and is
  left open. With `"catalog"` in `Faults`, `_workflow_config` may raise at any
  picked task, after its queue entry is gone and its account is marked busy.
- `RunBegin`, `StoreRunner`, `RunEnd` are `_run_task` in its executor thread and
  `Finish` is the done-callback `_finish_task`. A future is a record in `live`
  (task, number, account, progress, whether its runner was told to cancel). With
  `"state"` in `Faults` the callback of a rejected login may raise where it writes
  state.json (`FinishRaises`): the rest of it is lost with the exception.
- `LoginStart`, `LoginSaves`, `LoginExits`, `SessionLapses`, `SaveAccount` and
  `RemoveCheck`/`RemoveLogin`/`RemoveWait`/`RemoveTree` are what changes the
  readiness of accounts; `Shutdown`, `CloseExecutor` close the application.

The deque never holds an id twice (ids are fresh or appended under `not in`), so
it is a set plus, for each id, the set in front of it. This is what makes the
model provable: there is no recursion over a sequence. Two history variables do
not exist in the code: `started` (attempts per task) and `seen` (accounts the
last dispatcher call found ready).

Simplifications: the time a task has waited is a Boolean that may turn true at
any moment (`WaitTooLong`, only with `"timeout"`); the two critical sections of
`Shutdown` are one step; `request_cancel` is raised in the step that reads the
runner, since the runner reads the flag later anyway; a restart reads the row
once. Progress texts, files and screenshot waiters are left out.

### Runs

| Run | Instance | Shows |
|---|---|---|
| `queue` | 3 tasks, 1 account, 1 retry, batches of 2, logins, lapsing sessions | `NoTaskLost`, `NoAccountLost`, `ProfileExclusive`, `NoLostWakeup`, `NoOvertaking` |
| `restart` | 1 task, 2 accounts, 1 retry, 1 restart, failing catalog, callbacks that raise, shutdown | `RunningHasAttempt`, `AttemptsBounded`, `CancelReachesRunner`, `ImplementsSlots`, with old attempts overlapping new ones |
| `settle` | 1 task, 1 account, 1 restart, timeouts, logins, lapsing sessions, removal | `TaskSettles`, `ImplementsFairSlots` under fairness |

Bounds: one retry instead of three is enough to see the counter reach its limit;
three tasks are the least at which an older, a younger and a running one compete;
two accounts are the least at which two attempts of one task can overlap. One
dispatcher call pending at a time (`MaxCalls`) loses nothing: calls do the same
and a pending one may be as late as any. The properties that do not depend on a
particular bound are also proved for all.

Fairness (`settle`): `Poll` because the workbench polls on a timer, `Dispatch`
because a thread that waits for the lock gets it, `WaitTooLong` because time passes,
and those steps of an attempt (`SureStep`) that do not depend on RunningHub. The end of
a run is not among them: the polling loop of `BrowserRunner.run` has no limit while
RunningHub keeps the cloud task queued (browser.py:4062, 4136-4142). Only a runner that
was told to cancel is sure to end, which section 6 checks of the run itself. So
`TaskSettles` excepts a task whose browser waits for RunningHub for ever and which
nobody cancels (`Waits`); every other task ends. Nothing is assumed about logins:
sessions may lapse for ever. Nor does `settle` assume that a file fails: with
`"catalog"` or `"state"` tasks do get stuck, as described below.

### The abstract specification

`AccountSlots.tla` says what the dispatcher and the callback promise about accounts,
without queue, rows, retries or threads: a slot is handed out to an attempt nobody
had before, to one at a time until the application closes, and each attempt gives
its own slot back, once. `TaskScheduler` implements it (`Slots`, `ImplementsSlots`):
`held` is what the live attempts occupy (`Holding`), not what `_account_busy` says,
so that the refinement relates the two. How long an attempt lasts is not promised:
attempts become `due` when they are told to stop or come to their end (`Leaving`), a
due attempt is never let off, and with fairness (`ImplementsFairSlots`) it does not
keep its slot for ever.

### Disagreement found

`dispatch_leak`: an exception of `_workflow_config` in the dispatch loop leaves the
task queued for ever, in no queue, and its account busy for ever.

Four more that the model shows without a run of their own:

- the done-callback marks the session of a rejected login in state.json before it frees
  the account and books the row (server.py:1349, reached from 1399). `_write_json` gives
  up after eight refused replacements, or on a full disk; the exception leaves the
  callback, `concurrent.futures` logs it, and the account stays busy and the row
  "running" until the workbench is started again (`FinishRaises`);

- a cancelled task can be restarted while its old attempt is alive: two attempts of
  one row run side by side, and the old one books its result on the restarted row
  (server.py:1608, "restart a terminal task" in the docstring at 1579, "in place");
- a cancellation confirmed between the attempt's last look at the flag and its
  done-callback is overwritten by the retry of the result computed before
  (server.py:1401);
- an account can be deleted under a task that was dispatched between the check of
  `DELETE /api/accounts/<id>` and its `rmtree` (server.py:1929-1952).

### Proofs

For all sets of tasks and accounts, all bounds, all faults; only
`SchedulerAssumption` is assumed. Every safety property the runs check is proved,
and so is the refinement; the liveness (`TaskSettles`, `ImplementsFairSlots`) stays with
TLC. `TypeOK` and `AccountExclusive` are not repeated by a run: the theorems state them
for all instances, and `ImplementsSlots` contains the exclusivity.

`TaskSchedulerProofs.tla`:

- `TypeCorrect`.
- `QueueIsOrdered`, from `QueueInv`: whatever is in front of a queued id is queued
  itself, and queued ids have rows.
- `AccountsAreExclusive`, from `HeldInv`: until shutdown, the account of every live
  attempt is marked busy, and no two share one. `AccountExclusive` alone is not
  inductive: a dispatch is only safe because free accounts are not busy. That one
  call never hands an account out twice (`PickInjective`) rests on the total order
  of the queue.
- `RunningRowsAreAttempted`, by itself inductive over the types.

The refinement, `SchedulerImplementsSlots`, in the same module. Its invariant `KeyInv` says that
an attempt is identified by its task and number, also when a restart runs beside a
cancelled attempt; without it the end of one attempt could stand for the return of
another. `ToldInv` says that only an attempt that has stored its runner is told to stop,
so that what is due stays due. Each action of the scheduler is a `Grant`, a `Call`, a
`Return`, a `Close` or a stutter.

The promises to tasks and accounts, in the same module:

- `NoTaskIsLost`, inductive when the catalog does not fail, and `NoAccountIsLost`, which
  also needs that no callback raises (`RaisedInv`).
- `ProfilesAreExclusive`.
- `AttemptsAreBounded`, from `BudgetInv`: every start of a task, past or waiting in the
  queue, is paid for by its submission, a restart or a counted retry. `AttemptsBounded`
  alone does not know about the entry that waits.
- `CancellationsReachRunners`, from the types and `KeyInv`.
- `NobodyOvertakes`, an action property: the dispatcher looks at the queue in order,
  and its order is transitive (`AheadInv`).
- `NoWakeupIsLost`, from `WakeInv`, which speaks of all accounts that are not busy, also
  those a login is using: `NoLostWakeup` itself is lost when a login ends.
- `RowsGoForward`, the part of `TaskSettles` that does not depend on fairness, an action
  property: a row only goes on, to a later stage of its attempt, to a further counted
  retry or to a further restart (`Onward`), and never disappears. The exception is the
  disagreement above, an attempt that was left behind by a cancellation and a restart: it
  may write its own end over another end, once, as it ceases to exist (`Overwritten`).
  `BlankInv` says that an id without a row has no counts from before.

## 4. The license service

`LicenseServer.tla` models `server/app/services.py` and the administrators'
requests of `server/app/routers/admin.py` on MySQL. A request is a transaction
of one server thread in two or three steps:

- its reads, with the rows it locks (`SELECT ... FOR UPDATE`) and the rows it
  reads from the snapshot of its first plain read. InnoDB gives a locking read
  the latest committed row, and waits while another transaction holds the row
  (`CanLock`);
- `Commit`: SQLAlchemy flushes the attributes that changed (`Columns`: an UPDATE
  names columns, not rows), which waits for rows locked by others, and the
  changes become visible. The unique index of the devices is checked here
  (`Collides`);
- `Abort`, at any time: a deadlock, a lost connection or an `IntegrityError`.

`Renew` has a step of its own between the device's token and the card, because
both are locked there one after the other. `tx[t].work` and `loaded` keep only
the rows the transaction will write. `Tick` moves the clock. `uses` is a history
variable: how often a commit has consumed a card or a rebind code. Three more tell
where the code keeps less than one would like, so that the properties can name the
exception instead of leaving it out: `reissued`, the cards an enable request made unused
after they had been bought; `mostOpen`, the most rebind codes of a license that have
waited to be used at one time; `overruled`, the licenses whose date an administrator was
the last to set.

Simplifications: lock and snapshot read of one request are one step, the flush
and the commit another; locks of foreign keys, audit rows, passwords and lists
are left out; refused requests change nothing and are the absence of a step.

| Run | Instance | Shows |
|---|---|---|
| `cards` | 2 cards, 2 licenses, 1 machine, 2 client threads, 2 administrator threads whose requests overlap | `CardUsedOnce` |
| `devices` | 1 license, 3 machines, 3 cards, 2 rebind codes, 2 client threads, 1 administrator, who can extend the license and make it permanent | `CodeUsedOnce`, `DeviceLimit`, `ServedIsBound`, `DisableSticks`, `RenewAddsDays` |

Two client threads are the least that can race, and two administrators the least that can
make a bought card unused again. Two rebind codes of one license are the least at which
its limit is exceeded, by one; three machines allow for a device that moves again. Three
cards are the least at which the exception of `DisableSticks` happens: one activates, an
older renewal and a newer one overlap an administrator who disables, enables and disables
again. `Extend` is in `devices`, so that a renewal in flight is overtaken by an extension.
Deadlock is not checked: all cards may be void or used and the clock at its bound.

Proved in `LicenseServerProofs.tla`, for any number of cards, codes, licenses, machines
and server threads, from `LicenseAssumption`:

- `TypeCorrect`.
- `ServedDevicesAreBound`: what a commit writes it locks first, and the answer's
  transaction holds the row of the token, which every revocation writes with the device.
- `DisablingSticks`: a commit changes the status of a license only if its request did.
- `CodeIsUsedOnce`, from `CodesInv`: a code that has been consumed is marked as used.
- `CardIsUsedOnce`, from `CardsInv`: a card that has been consumed and is not `reissued`
  is not unused and has a license.
- `OneAdministratorReissuesNothing`: with one administrator `reissued` stays empty, so that
  every card buys one thing. `EditInv`: who sets a card to unused has read it as it still is.
- `DevicesAreLimited` (`DeviceLimit`), from `LimitInv`. A request that binds a device either
  creates the license or revokes the devices it has read and consumes a code of the license,
  whose row it holds. So each set R of codes that requests in flight hold is counted together
  with the devices that all their holders leave alone: the two sums never exceed `mostOpen`
  (`Within`). A commit of one holder takes its code from R and adds its device.
- `RenewalsAdd` (`RenewAddsDays`), from `SeenInv`: the date a renewal has read is that of the
  row, unless the license is `overruled` or has had two codes (`Overtaken`): without these
  the renewals of a license wait for each other on the token of its one device.

They rest on one invariant, `ServiceInv`. The properties alone are not inductive, since
they do not speak of requests that are under way: `TxOk` says for each open transaction
which rows it will write, from which values, and which of them it holds under a lock;
`Apart` that no two hold the same row or create the same license; `RowsInv` that rows
refer to licenses there are and limits are at least one.

No theorem about a property of the runs has a hypothesis about the behaviour: where the code does not give what one
would wish, the exception is in the property, as an event that has happened.

What these exceptions are, and what else was seen while modelling: a license that an
administrator disables while a renewal is in flight becomes active again if that renewal had read "expired" with a
date in the future, as an older renewal leaves it when it commits after a disabling and
an enabling (services.py:158-160, 207; admin.py:179-188): "active" is then a change,
and the UPDATE contains it (the exception in `DisableSticks`); two overlapping enable
requests of a disabled card, with an activation between their commits, put a used card back to unused
(admin.py:174), which the comment at admin.py:170-172 wants to prevent, because the
row is read without a lock; renewing a permanent license with a finite
card gives it an expiry date (`renew` counts from now and leaves `plan_type`,
services.py:203-205); with two rebind codes of one license used
at the same time two devices are active on a one-device license, since the
license's row is not locked; an administrator's extension that commits while a
renewal is in flight is overwritten by its absolute date; an expired license is
refused by `renew` (403), while server/README.md:9 says how its renewal is
counted; a machine that was bound before cannot be bound again by a rebind code,
because its revoked row still holds the unique index; the status EXPIRED that
`_ensure_usable_license` sets is rolled back by the exception it raises next.

## 5. The login session

`LoginSession.tla` models one account's login: the worker's program
(`client/sms_login.py`) by a program counter, the session in the workbench and
its handlers (`client/server.py`), RunningHub's page as the worker's browser
sees it. A status or picture the worker posts is a step of its own (`Deliver`),
which may find the session gone (403, 410), or time out in the worker
(`TimesOut`) and be handled later (`LateArrives`). `Refused` says what main()
does with a failed post: a failed "verifying" counts as a code not submitted, a
failed "failed" is swallowed, any other one ends the login. `Look`, `Capture`
and `Shoot` are the three looks at the page in one turn of the loop; the two
timers between them are left open. `Removal` is the deletion of the account: it
takes the session away first and ends the process later (`EndWorker`).
`Shutdown` is the login part of `_shutdown_application`: it empties the registry and
stops the session, and ends the process later as well, while requests are still served.
One of the two is under way at a time; the program shuts down once, the model as often
as it likes, which adds what a session left "stopped" may still meet.

| Run | Instance | Shows |
|---|---|---|
| `login` | 2 logins, 2 user inputs, queue of 1 event, 1 late post, all faults, with fairness | `FrameNeedsSlider`, `CompletedIsSaved`, `NoStrayWorker`, `ReapSettles`, `LoginEnds` |

Two logins are the least at which an old worker can speak into a new session; two
inputs overflow a queue of one. Fairness: a process runs (HTTP calls have a timeout, and
Playwright's calls are taken to return, most by a timeout), a loop that looks at its deadline again and again finds it
passed (`SF(Overdue)`), and the page polls `/api/accounts`, which reaps. Nothing is
assumed about the user, RunningHub or late posts. Deadlock is not checked: all
logins of the instance may be over.

Seen while modelling, without a run: between `find_slider_region` and
`page.screenshot` (sms_login.py:143-170) the page can turn, and the picture of
what follows the slider, `"later"` in the model, is stored and served, against the
comments at server.py:1797 and sms_login.py:304.

Proved in `LoginSessionProofs.tla`, for any number of logins, inputs and late posts, any
queue and all faults, from `LoginAssumption` alone:

- `TypeCorrect`. That the queue keeps its bound is the lemma `EnqueueType`: merging
  pointer moves never makes it longer, and what overflows it empties it first.
- `FramesNeedSliders`, from `Honest`: a worker that sends a frame has told the stage
  before, and nobody but the end of its login or the next code takes the stage away.
- `NoWorkerStrays`, inductive with the processes: a worker belongs to the login in the
  registry, or to one that a removal or a shutdown has unregistered and will terminate.
- `CompletedLoginsAreSaved`, from `SavedInv`: a worker reports "completed" only after it
  has written the session, and only a removal or a later code takes that away.
- `ReapingSettles`, the action property, from the same invariants.
- `TurnsEnd`, the part of `LoginEnds` that does not depend on fairness: from one look at
  the deadline (`polling`) to the next, every step of a worker lowers `Rank`, which
  compares its place in the program, the events in its hand and what it has still to say;
  the successful `Poll` alone starts another turn (`TurnsAgain`), and nobody else raises
  the rank. `AllLead` says to where a worker goes on after a post, also a late or refused
  one. The order is well-founded (`BelowIsWellFounded`), so a worker that runs comes back
  to its deadline.

`ReapSettles` has one exception, found by the checker: when a removal deletes the
profile of a login that has completed and whose user has sent another code, the
reaped session stays in "verifying".

Not modelled: the worker's stop event. It is queued only by the removal, into the
session it has just unregistered, so no worker can fetch it; the packaged
program's login threads, which the current code no longer starts.

## 6. The browser run

`BrowserRun.tla` models one call of `BrowserRunner.run`
(`client/runninghub_client/browser.py`). The worker thread has a program counter,
`run.pc`, whose values are the stretches of the code between two calls that matter:
`position` and `click` wait for `_upload_lock`; `fit`, `upload`, `fill` and
`submit` hold it; `look`, `read`, `verdict`, `popups`, `wait` are one turn of the
polling loop; `cancel` and `confirm` are the two clicks of
`_cancel_runninghub_task_from_sidebar`, and `run.then` says what follows them.
`Checkpoints` are the places where `_raise_if_cancelled` is called (`NoticeCancel`);
both loops test their own condition first, and when it fails they `Expire`.
The rest of `run` are the local variables the loop decides by: the remaining time,
the last state of the task, the ages of `zero_progress_since` and
`failure_first_seen_at`.

The cloud (`CloudWorks`) runs a task per click, produces media and may fail with a
popup. The worker only sees the page, and the page lags: `Read` takes any
combination of sidebar and progress bar, `Fingerprints` may come back empty. What
else the page may do wrong is a constant, `Faults`: a popup that resists being
closed, an active task whose Cancel button is not found, a confirmation dialog
whose own Cancel button the watcher of `_dismiss_cancel_popups` presses.

Time is counted in waits of the polling loop, one unit each; the steps between take
none. The limits of 120 s, 60 s and up to an hour become 1, 1 and 2 units: the
orders in which they can end are all there. Every workflow of the catalog has a
post id, one output node and `ignore_task_failure` false, so the legacy way of
opening a workflow and the branch at browser.py:4151 are left out and the instance
has one output.

| Run | Instance | Shows |
|---|---|---|
| `browser` | 2 attempts, 2 page loads, 1 upload, 1 output, all faults | `InputsAreNew`, `ResultIsOwn`, `OneCloudTask`, `CloudIsReleased`, `RunEnds` |

Two attempts are the least of which one replaces another. Fairness: the worker
thread runs (Playwright calls return; navigations, clicks and waits have a timeout,
`evaluate` is taken to end as well), it gets a lock the other runs
free again and again (`SF(Acquire)`), and the holder of the lock frees it. Nothing
is assumed about RunningHub: `RunEnds` therefore has to except a task that stays in
its queue for ever while nobody cancels it, since the loop has no limit of its own
there. Deadlock is not checked: a run ends.

Provisos. `OneCloudTask` and `CloudIsReleased` hold unless `missed`: a popup was not
closed or a cloud task not cancelled. `ResultIsOwn` says nothing of a run whose
baseline could not be read: `_output_media_fingerprints` returns `{}` on an error,
every old file then counts as new, and the comment at browser.py:4089 ("The baseline
captured before the first click guarantees the media came from this attempt") does
not hold. It also lets the media of an attempt given up count for the next one,
which is a result of the same inputs.

Proved in `BrowserRunProofs.tla`, for any outputs, uploads, numbers of attempts and page
loads, limits and faults, from `BrowserAssumption`:

- `TypeCorrect`.
- `InputsAreAlwaysNew`, from `FilesInv`: wherever the worker can be past the uploads, all
  nodes hold this run's files, and no later step puts an old one back.
- `AttemptsDoNotOverlap` and `CloudIsAlwaysReleased`, from `CloudInv`: where the worker is
  about to click Run, or an error popup is open, no task is active; where it confirms a
  cancellation, at most the task named in the dialog. A popup or a cancellation that was
  missed (`missed`) ends the promise.
- `ResultsAreOwn`, from `OwnInv`: what is judged complete has gained media over the baseline.
- `WorkIsBounded`, the part of `RunEnds` that does not depend on fairness: every step of the
  worker lowers `Rank`, five natural numbers compared from left to right (does it still
  have to notice or to carry out a cancellation, attempts left, time left, the place in
  the code, page loads and uploads left), or is a poll that finds the task queued once
  more while nobody cancels it; no step of anybody else raises it. `TimeInv` keeps the
  time from running out under a worker that still polls. Lexicographic orders have no
  infinite descent (`BelowIsWellFounded`), so a worker that runs ends or polls a queued
  task for ever; that last conclusion, over an infinite behaviour, is left to TLC.
- `RunsKeepTheirContract`: what `TaskScheduler` takes for granted about a run when it
  models it by `RunEnd` with one of `Outcomes`. A run ends once and its result stands; at
  the end the browser is closed and `_upload_lock` given up; and it reports "cancelled"
  only when `request_cancel` was called, also where the report comes two clicks after the
  worker noticed (`OverInv`).

`PathInv` gives the places at which a run that is told to cancel can still be.

Seen while modelling, without a run: when the file chooser has failed and the direct
upload finds the session revoked, `_upload_one` replaces the `LoginExpiredError` by a
plain error (browser.py:1290), so the task is retried on the account, which the
docstring at browser.py:23-25 wants to prevent; the watcher and the worker race for
the confirmation dialog (browser.py:2773, 335); the clock of missing progress goes on
while a task is queued again (browser.py:4119-4143); a run that times out or fails
leaves its task in the cloud (browser.py:4257); a cancel request that comes after the
last attempt has failed ends in a timeout error, since the retry loop tests its
condition before `_raise_if_cancelled` (browser.py:4021-4022); a login page is reported with the
text "账号登录状态已失效" (browser.py:448), which the patterns of server.py:1306 do not
contain either.

## 7. The license client and the workflow catalog

`LicenseClient.tla` models `client/license_client.py` with the handlers of
`client/server.py` that use it, against a license service that answers in one step
(its transactions are section 4). `call` is the request `LICENSE.lock` is held for:
the lock covers the whole operation with its HTTP call, so nothing else changes the
license in memory meanwhile. `_refresh_workflow_catalog` holds a lock of its own
while it waits for that one. `mem`, `disk` and `legacy` are `LICENSE.state`,
`license_state.json` and the file of an earlier data root: `Recover` is the part of
the migration that copies it, `Load` the constructor, `Crash` the end of the process.
Both readers take a file they cannot read for one without a license (fault "read"):
`Recover` then copies the old root's license over a newer one, or recovers nothing, and
`Load` starts an empty state and saves it over the file.

An answer can be lost before the request arrives, after the service has committed
it, or while it is under way (`Unreachable`, `Abandon`, `ServeLate`). `Store` has the
three ways `_store_response` and `_save_state` can end: saved; not saved; the token
not encrypted, with the new license already in memory. A license is named by the card
that activated it, and a token by its license, so that a license with the token of
another is visible. `fetch_workflows` is all or nothing.

| Run | Instance | Shows |
|---|---|---|
| `license_client` | 2 threads, 2 cards, 1 late request, an old root with a license or none, all faults | `ActivatedIsKept`, `AdmittedWasActive`, `CatalogNeedsLicense`, `NobodyStuck` |

Two cards are the least of which one replaces another; two threads are the least
that can wait for each other's lock. Deadlock is not checked: both cards may be used
and no one asks for anything; `NobodyStuck` says what matters instead.

Provisos. `ActivatedIsKept` excuses a card whose answer was lost or could not be
stored, a reset, an activation that replaces a license, and a start at which the
license file could not be read (`excused`): the code has no other answer to these.
What is left is that nothing else takes a license: crashes at any point, starts that
read what is there, refusals, checks, renewals, late requests, and full disks.
`CatalogNeedsLicense` excuses a reset whose save has failed.

Proved in `LicenseClientProofs.tla`, from `ClientAssumption` alone:

- `TypeCorrect`, from `LockInv`: the license in memory is that of the request under
  way, and the thread that holds the lock is where its request says.
- `NobodyPassesOnOldAnswers` (`AdmittedWasActive`), from `KnownLicenses` and `GateInv`: an
  unused card has no license and the licenses this installation names exist, so no late
  activation can make the license of a gate active unnoticed, only an administrator.
- `ActivationsAreKept` (`ActivatedIsKept`), from `KeepInv`, which counts an activation
  only once it is answered, and knows that late activations are excused.
- `CatalogsNeedLicenses` (`CatalogNeedsLicense`), inductive over `LockInv`.

- `NobodyIsStuck` (`NobodyStuck`), from `Waits`: a thread that waits for a lock waits for a
  thread that is at work, and a thread at work always has a step. `NobodyStuck` says that a
  step is possible by the guards the actions themselves use (`MayAdvance`), which TLC has
  found to agree with ENABLED in every state of the run.

Seen while modelling, without a run: server/README.md:371 describes an offline grace
(`offline_until`), but the client's gate and catalog ask the service each time and
have none; when DPAPI fails, `_store_response` has already replaced the license id and
leaves it with the token of the old license (license_client.py:217-227), and a later
check saves that pair; a reset that cannot save raises before the catalog is cleared
(server.py:2048), so the workflows stay readable without a license; a reset is undone
by the next start if an earlier data root still has a license (server.py:90-93); a
`license_state.json` that cannot be read for a moment is lost: `_read_state` answers
`{}` to any OSError and the constructor saves a new state over it
(license_client.py:169-189), and `_migrate_legacy_install_data` copies the old root's
state over it (server.py:82-93), although it promises to copy "without overwriting
newer data" (server.py:63).

## 8. The screenshot handshake

`Screenshot.tla` models one attempt: `_handle_screenshot` in the request threads, the
waiting loop of the browser thread with `take_screenshot`, `stop()`, `request_cancel`
and the end in `_finish_task`. Only the admission and the row are under `_tasks_lock`;
every other step is one access to `screenshot_requested`, `screenshot_ready`,
`screenshot_data` or `screenshot_error`, in the order of the code. `takes` numbers the
pictures; `floor`, `got` and `tardy` are history.

| Run | Instance | Shows |
|---|---|---|
| `screenshot` | 2 threads, 4 requests | `FreshShot`, `NobodyWaitsInVain` |

Two threads are the least that can meet at the guard, and requests one after the
other are what can see each other's leftovers. Deadlock is not checked: the attempt
ends. Both, and the types with the guard against concurrent requests (`TypeOK`), are
proved in `ScreenshotProofs.tla` for any number of threads and requests: `FreshInv` says that whatever allows a request to read the stored picture
(an event without an error, a hand-over, a cancellation about to set the event) has
seen to it that the picture suits the request; `NobodyWaitsInVain` is inductive as it
stands.

Provisos. A picture the worker was taking for a request that has given up counts as
fresh for the next one. A request that is signalled after `_finish_task` has looked
(`tardy`) waits its five seconds. A take in progress overwrites the error a
cancellation has just set, and the cancelled request is answered with its picture.

## 9. Workflow inputs and batches

`WorkflowCatalog.tla` holds one workflow of each shape the catalog of the service has;
`BatchInputs.tla` the three places that resolve inputs: `Run` is
`_resolve_workflow_inputs` (`POST /api/run`), `Batch` is
`_resolve_batch_workflow_inputs` (`POST /api/batch-run`), `RunnerTakes` the resolution
in `workflow_specs.py` at the start of a browser run. These are pure functions; the
state machine only fills in a form and sends it. A value is a name, and `Bad` is one
that does not parse, is out of range or is not a file of the workbench. `Blank` is the
empty string and `White` a text of blanks: for one task an empty text takes the default
and a white one counts as missing (server.py:1054-1060), in a batch both are dropped. A
white number or switch is refused as a `Bad` one is, and so is a white file of one task;
a batch drops it like a `Blank` one, so the other types have no `White`. The order of
the inputs of a workflow plays no part, so they are a set.

| Run | Instance | Shows |
|---|---|---|
| `inputs` | 5 shapes, up to 5 values, 4 tasks per batch, repetition 2 | `WithinLimits`, `EveryValueServed`, `TaskIsARun`, `RunnerAccepts` |

With five values a list of four meets a shorter one, which is cycled, and one of five
is over the limit of four (500 in the code); repetition 2 (20 in the code) passes the
limit with three values. Deadlock is not checked: a form is sent once.

Proved in `BatchInputsProofs.tla`, for any number of values and any limits, from
`BatchAssumption` and `WorkflowsAssumption`: `LimitsHold`, `AllAreServed`, `BatchesAreRuns`
and `TasksAreTaken`, one for each property. The workflows may be any that are `WellFormed`,
which is what the proofs need of a catalog: keys are unique, conditions name a switch, a
default is a good value, and what the runner demands is required of the user or has a
default. All 17 entries of `workflow_catalog.py` are, and TLC evaluates it on the shapes
here.

- `BatchesAreRuns` and `TasksAreTaken` rest on one idea, `Fits`: what a task of a workflow
  looks like, whoever made it. Both resolutions make tasks that fit (`RunFits`,
  `CombinationFits`), a task that fits is its own resolution (`FitIsARun`) and is taken by
  the runner (`FitIsTaken`). `Sound` adds the form, which does not change once it is sent.
- `LimitsHold` needs that one list is longest (`Longest`) and that no usable value is
  dropped (`UsableKept`).
- `AllAreServed` counts. A value given once stands at one position of its list, whose
  tasks are those of every `L`-th group (`UsesAre`); moving each back by a number of
  groups turns the tasks of one position into those of another, but for the first round
  (`PositionsEven`).

`Without` is a recursive function, and what it keeps is proved by the least
counterexample (`KeptUpTo`, `WithoutOthers`).

Seen while modelling, without a run: a batch list with one blank number has no
default (`[""]`), an empty one has, and a single empty number has none, an empty text
has. The page never sends JSON null, which the model does not tell from an absent
value.

## 10. Old data and the material library

`DataMigration.tla` models the start of the packaged program: earlier data roots are
copied one after the other, directory by directory and file by file
(`_migrate_legacy_install_data`), a root is marked when all is there, and
`_ensure_runtime_layout` rebuilds a metadata file it cannot use. A copy is two steps,
since `shutil.copy2` creates the destination before it is filled. `MaterialLibrary.tla`
extends it with what the running program does on the same files: uploads, single
deletions and `/api/library/manage`. The model keeps two of the seven directories, one
profile and the library, and one folder of materials.

Files behave as on Windows, for which the client is built: an open file is neither
deleted nor renamed, and a rename does not replace a file. `plugged` is emptied
outside a migration, since only the migration looks at the drives.

| Run | Instance | Shows |
|---|---|---|
| `data` | 2 names, 2 old roots with overlapping materials, 2 starts, 2 uploads, 1 fault | `TagsFollow`, `NothingLost`, `MigratedIsWhole` |

Two names are the least between which a material can be renamed or an upload can
evade; two starts are what it takes to meet the leftovers of a crash; uploads are
interchangeable (symmetry; no liveness is checked). One fault (a full disk, a drive
that goes away, a file that cannot be read or replaced for a moment) is allowed,
crashes and missing drives any time. Deadlock is not checked: starts are bounded.

Proved in `MaterialLibraryProofs.tla`, for any roots, names, holdings, uploads, starts and
faults, from `MigrationAssumption` and `LibraryAssumption`:

- `TypeCorrect`, which is not inductive alone: a marker must not be set for a root that
  never was there (`Walk`).
- `TagsFollowMaterials` (`TagsFollow`), from `Tags` and `Quiet`: what a request has in hand
  to write agrees with the file as well, and no request is in hand while the program
  starts.
- `MarkersAreEarned` (`MigratedIsWhole`), from `Walk`: the walk has a place for every file
  of the directories behind it.
- `NothingIsLost` (`NothingLost`), from `WritesMeet`: two writers are at one name only after
  they have chosen it at the same time.

Provisos, each a way the code loses data:

- `NothingLost` excuses two uploads, or an upload and a rename, that choose the same
  free name: the names are chosen without a lock (server.py:1690), and the page
  imports the files of a batch all at once (index.html:277).
- `TagsFollow` promises nothing for a material renamed by a request that failed or
  died before it wrote the metadata, for one tagged before its upload had entered it,
  and after a metadata file that could not be read for a moment: `_read_json` answers
  with nothing, and the next write drops all tags (server.py:437, 374).
- `MigratedIsWhole` asks for a file in the place of each old file, not for a whole one:
  what a crash cut short is taken for newer data by the next start. It excuses a drive
  that goes away between two directories: the rest is skipped as if it did not exist
  and the root is marked (server.py:107), against the comment at server.py:69-70.

Not modelled: `DELETE /api/library/.metadata.json`. The single deletion does not exclude
the metadata file (server.py:1907-1912), as `/api/library/manage` does (1977); the page
cannot ask for it, since the list it shows leaves the file out (918).

Also seen: a torn metadata file is rebuilt empty, and the next start then skips the old
one; a material renamed before its root is marked is copied again under its old name.

## 11. What is not modelled

- Start-up and port choice: sequential code that scans ports and writes one file.
- The administration tool: a stateless forwarder; its requests are the administrators'
  actions of `LicenseServer`.
- Server set-up: configuration, password hashing, tokens.
- The workbench page: presentation. What it sends is the input of the modelled
  handlers, and its polling is what the fairness of `Poll` and of the reaping of
  logins stands on.
- Tests, documents, proposals and the packaging scripts: no program, but read for
  what they say of it.
- Parts of modelled components: lists, statistics, audit rows and the administrators'
  login in the license service; selectors, page scripts and the legacy way of opening a
  workflow in the browser run; cookies, colours and names of accounts; reading a
  catalog from JSON; what RunningHub and the network do is a free choice everywhere.

Only model-checked: all liveness (`TaskSettles`, `ImplementsFairSlots`, `LoginEnds`,
`RunEnds`), since fairness is beyond the prover. What the code itself owes to it is
proved: `RowsGoForward` in section 3 for `TaskSettles`, `TurnsEnd` in section 5 for
`LoginEnds`, `WorkIsBounded` in section 6 for `RunEnds`.
Every other property of a passing run is a theorem.
