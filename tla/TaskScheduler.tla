---------------------------- MODULE TaskScheduler ----------------------------
(***************************************************************************)
(* The task scheduler of the Windows workbench (client/server.py): HTTP    *)
(* handlers create, cancel and restart tasks, a dispatcher gives queued    *)
(* tasks to free RunningHub accounts, executor threads run the attempts    *)
(* and a done-callback books their results.                                *)
(*                                                                         *)
(* One action is one critical section of _tasks_lock (the dispatcher and   *)
(* the login handler hold _login_lock inside it) or one step of a thread   *)
(* between two of them.  The deque _task_queue never holds an id twice     *)
(* (ids are fresh, or appended under "not in _task_queue"), so it is the   *)
(* set "queue" and, for each id in it, the set ahead[t] of ids in front.   *)
(***************************************************************************)
EXTENDS Naturals

CONSTANTS
  Tasks,        \* the task ids this instance may create
  Accounts,     \* the RunningHub accounts (directories under profiles/)
  AnyAccount,   \* requested_account = "auto"
  None,         \* no account
  MaxRequeues,  \* MAX_TASK_REQUEUES
  MaxRestarts,  \* bound: manual restarts per task
  MaxBatch,     \* bound: tasks created by one request (500 in the code)
  MaxCalls,     \* bound: pending _dispatch_tasks() calls an account handler may pile up
  Faults        \* which of FaultKinds this instance lets happen

FaultKinds == {"catalog", "state", "timeout", "lapse", "login", "removal", "shutdown"}

ASSUME SchedulerAssumption ==
  /\ AnyAccount \notin Accounts
  /\ None \notin Accounts
  /\ MaxRequeues \in Nat
  /\ MaxRestarts \in Nat
  /\ MaxBatch \in Nat \ {0}
  /\ MaxCalls \in Nat \ {0}
  /\ Faults \subseteq FaultKinds

VARIABLES
  task,      \* _tasks: the fields the scheduler decides by, per task id
  queue,     \* the ids in _task_queue
  ahead,     \* for an id in the queue, the ids in front of it
  busy,      \* _account_busy
  live,      \* the attempts: submitted futures whose callback has not run to its end
  profiles,  \* the accounts that have a profile directory
  valid,     \* the accounts whose state.json passes _session_info
  login,     \* _login_processes: the registered login worker of an account
  checked,   \* accounts an in-flight /api/run has found ready, before it creates its task
  removal,   \* how far DELETE /api/accounts/<id> has got
  calls,     \* _dispatch_tasks() calls issued that have not taken the lock yet
  shut,      \* "open", "requested" (_shutdown_started), "closed" (executor shut down)
  started,   \* history: how many attempts each task has been given
  seen       \* history: the accounts the last dispatch found ready

sched == <<task, queue, ahead, busy, live>>
env   == <<profiles, valid, login, removal>>
vars  == <<task, queue, ahead, busy, live, profiles, valid, login, checked,
           removal, calls, shut, started, seen>>

Terminal == {"done", "failed", "cancelled"}
Statuses == {"absent", "queued", "running"} \cup Terminal
Targets  == Accounts \cup {AnyAccount}
Results  == {"none", "done", "failed", "auth", "stopped", "cancelled"}

TaskRecord ==
  [status: Statuses, requested: Targets, cancel: BOOLEAN, retry: 0..MaxRequeues,
   account: Accounts \cup {None}, late: BOOLEAN, runner: Nat, restarts: Nat]

Attempt ==
  [task: Tasks, id: Nat, account: Accounts,
   pc: {"submitted", "starting", "running", "returned", "raised"},
   told: BOOLEAN, result: Results]

-----------------------------------------------------------------------------
(* The pieces of state the handlers build and test.                        *)

\* _new_task: a row in its first state; a restart keeps only its counter.
NewTask(requested, restarts) ==
  [status |-> "queued", requested |-> requested, cancel |-> FALSE, retry |-> 0,
   account |-> None, late |-> FALSE, runner |-> 0, restarts |-> restarts]

NoTask == [NewTask(AnyAccount, 0) EXCEPT !.status = "absent"]

Pinned(t) == task[t].requested # AnyAccount

\* _ready_account_ids, after the exited login workers have been reaped.
Ready == {a \in profiles \cap valid : login[a] # "running"}

Free == Ready \ busy

\* _reap_login_processes: a worker that has exited leaves the registry.
Reaped == [a \in Accounts |-> IF login[a] = "exited" THEN "none" ELSE login[a]]

Elements(s) == {s[i] : i \in DOMAIN s}
Before(s, t) == {s[j] : j \in {k \in DOMAIN s : \E i \in DOMAIN s : k < i /\ s[i] = t}}

\* The id lists of one request: distinct tasks that do not exist yet.
Batches ==
  {s \in UNION {[1..n -> Tasks] : n \in 1..MaxBatch} :
     /\ \A i, j \in DOMAIN s : s[i] = s[j] => i = j
     /\ \A i \in DOMAIN s : task[s[i]].status = "absent"}

\* _task_queue.append(task_id) under "task_id not in _task_queue".
Requeue(t) ==
  IF t \in queue
  THEN UNCHANGED <<queue, ahead>>
  ELSE /\ queue' = queue \cup {t}
       /\ ahead' = [ahead EXCEPT ![t] = queue]

Dequeue(S) ==
  /\ queue' = queue \ S
  /\ ahead' = [t \in Tasks |-> IF t \in S THEN {} ELSE ahead[t] \ S]

\* runner.request_cancel() on the runner the row of each task in S refers to;
\* the flag is idempotent and read by the runner later, so it is raised here
\* although the code calls it just after it has released the lock.
TellRunners(S) ==
  {IF f.task \in S /\ f.pc = "running" /\ f.id = task[f.task].runner
   THEN [f EXCEPT !.told = TRUE] ELSE f : f \in live}

-----------------------------------------------------------------------------
(* HTTP handlers.                                                          *)

\* /api/run and /api/batch-run with a fixed account look at _account_list()
\* before they take the lock that creates the task.
CheckAccount(a) ==
  /\ a \in Ready \ checked
  /\ checked' = checked \cup {a}
  /\ login' = Reaped
  /\ UNCHANGED <<sched, profiles, valid, removal, calls, shut, started, seen>>

\* /api/run (a list of one) and /api/batch-run: all rows under one lock, then
\* one call of the dispatcher.
Submit(s, requested) ==
  /\ requested = AnyAccount \/ requested \in checked
  /\ checked' = checked \ {requested}
  /\ task' = [t \in Tasks |->
                IF t \in Elements(s) THEN NewTask(requested, 0) ELSE task[t]]
  /\ queue' = queue \cup Elements(s)
  /\ ahead' = [t \in Tasks |->
                 IF t \in Elements(s) THEN queue \cup Before(s, t) ELSE ahead[t]]
  /\ calls' = calls + 1
  /\ UNCHANGED <<busy, live, env, shut, started, seen>>

\* Wrong on purpose: cancelling a running task frees its account at once.
Cancel_FreesAccount(t) ==
  /\ task[t].status = "running"
  /\ task' = [task EXCEPT ![t] = [task[t] EXCEPT !.status = "cancelled", !.cancel = TRUE]]
  /\ live' = TellRunners({t})
  /\ busy' = busy \ {task[t].account}
  /\ UNCHANGED <<queue, ahead, env, checked, calls, shut, started, seen>>

\* POST /api/tasks/cancel.  A queued task leaves the queue; a running one is
\* flagged and its runner told, and keeps its account until the attempt ends.
Cancel(t) ==
  /\ \/ /\ task[t].status = "queued"
        /\ Dequeue({t})
        /\ task' = [task EXCEPT ![t] = [task[t] EXCEPT !.status = "cancelled"]]
        /\ UNCHANGED live
     \/ /\ task[t].status = "running"
        /\ task' = [task EXCEPT ![t] = [task[t] EXCEPT !.status = "cancelled", !.cancel = TRUE]]
        /\ live' = TellRunners({t})
        /\ UNCHANGED <<queue, ahead>>
  /\ UNCHANGED <<busy, env, checked, calls, shut, started, seen>>

\* POST /api/restart: the row of a task that is neither queued nor running is
\* cleared and filled anew.  Its requested account and counter are read in an
\* earlier critical section that makes the same check and changes nothing; they
\* are taken here at the second one.
Restart(t) ==
  /\ task[t].status \notin {"absent", "queued", "running"}
  /\ task[t].restarts < MaxRestarts
  /\ task' = [task EXCEPT ![t] = NewTask(task[t].requested, task[t].restarts + 1)]
  /\ Requeue(t)
  /\ calls' = calls + 1
  /\ UNCHANGED <<busy, live, env, checked, shut, started, seen>>

\* GET /api/tasks, the workbench's timer: it only calls the dispatcher.
Poll ==
  /\ calls = 0
  /\ calls' = 1
  /\ UNCHANGED <<sched, env, checked, shut, started, seen>>

-----------------------------------------------------------------------------
(* _dispatch_tasks.                                                        *)

\* _expire_queued_tasks: entries whose row is no longer queued are dropped,
\* those that waited too long fail.
Stale   == {t \in queue : task[t].status # "queued"}
\* Wrong on purpose: nothing times out in the queue.
Expired_Never == {}

Expired == {t \in queue : task[t].status = "queued" /\ task[t].late}
Kept    == queue \ (Stale \cup Expired)

\* Wrong on purpose: the last of the queue is served first.
FreeAt_LastFirst(pick, t) ==
  Free \ {pick[d] : d \in {e \in DOMAIN pick : t \in ahead[e]}}

\* The accounts that are still free when the loop, which has given the tasks
\* of DOMAIN pick their accounts, comes to task t.
FreeAt(pick, t) == Free \ {pick[d] : d \in DOMAIN pick \cap ahead[t]}

\* A fixed account or, for "auto", the first of the free ones; which one that
\* is depends on the directory names and is left open.
Fits(pick, t, a) ==
  /\ a \in FreeAt(pick, t)
  /\ Pinned(t) => a = task[t].requested

\* pick is what the loop over the tasks T of the queue hands out: in queue
\* order, a task is picked as soon as an account fits it, and never otherwise.
Loop(pick, T) ==
  /\ DOMAIN pick \subseteq T
  /\ \A t \in DOMAIN pick : Fits(pick, t, pick[t])
  /\ \A t \in T \ DOMAIN pick : \A a \in Accounts : ~Fits(pick, t, a)

NewAttempt(t, a) ==
  [task |-> t, id |-> started[t] + 1, account |-> a, pc |-> "submitted",
   told |-> FALSE, result |-> "none"]

\* One call of the dispatcher.  "broken" holds the task whose _workflow_config()
\* raises, if any: the exception leaves the loop after the queue entry is gone
\* and the account is marked busy, and before the row is updated.
Begun(pick, broken) == IF shut = "closed" THEN {} ELSE DOMAIN pick \ broken

\* A submission to an executor that is shut down raises: the task fails and its
\* account is free again, yet no longer in the list this call hands out.
Refused(pick, broken) == (DOMAIN pick \ broken) \ Begun(pick, broken)

DispatchWith(pick, broken) ==
  /\ task' = [t \in Tasks |->
                CASE t \in Expired \cup Refused(pick, broken) ->
                       [task[t] EXCEPT !.status = "failed"]
                  [] t \in Begun(pick, broken) ->
                       [task[t] EXCEPT !.status = "running", !.account = pick[t]]
                  [] OTHER -> task[t]]
  /\ Dequeue(Stale \cup Expired \cup DOMAIN pick)
  /\ busy' = busy \cup {pick[t] : t \in Begun(pick, broken) \cup broken}
  /\ live' = live \cup {NewAttempt(t, pick[t]) : t \in Begun(pick, broken)}
  /\ started' = [t \in Tasks |->
                   started[t] + (IF t \in Begun(pick, broken) THEN 1 ELSE 0)]

Dispatch ==
  /\ calls > 0
  /\ calls' = calls - 1
  /\ login' = Reaped
  /\ seen' = Ready
  /\ \/ \E D \in SUBSET Kept : \E pick \in [D -> Free] :
          Loop(pick, Kept) /\ DispatchWith(pick, {})
     \/ /\ "catalog" \in Faults
        /\ \E b \in Kept :
             LET T == {b} \cup (Kept \cap ahead[b])
             IN \E D \in SUBSET T : \E pick \in [D -> Free] :
                  b \in D /\ Loop(pick, T) /\ DispatchWith(pick, {b})
  /\ UNCHANGED <<profiles, valid, removal, checked, shut>>

-----------------------------------------------------------------------------
(* The attempt: _run_task in an executor thread, then _finish_task.        *)

Becomes(f, g) == live' = (live \ {f}) \cup {g}

\* _run_task copies the row and loads the workflow; an exception here is
\* outside its try block and becomes the future's.
RunBegin(f) ==
  /\ f.pc = "submitted"
  /\ \/ Becomes(f, [f EXCEPT !.pc = "starting"])
     \/ /\ "catalog" \in Faults
        /\ Becomes(f, [f EXCEPT !.pc = "returned", !.result = "failed"])
     \/ /\ shut = "closed"     \* executor.shutdown(cancel_futures=True)
        /\ Becomes(f, [f EXCEPT !.pc = "returned", !.result = "failed"])
  /\ UNCHANGED <<task, queue, ahead, busy, env, checked, calls, shut, started, seen>>

\* Wrong on purpose: the stored runner does not look for an earlier cancellation.
StoreRunner_Deaf(f) ==
  /\ f.pc = "starting"
  /\ task' = [task EXCEPT ![f.task] = [task[f.task] EXCEPT !.runner = f.id]]
  /\ Becomes(f, [f EXCEPT !.pc = "running"])
  /\ UNCHANGED <<queue, ahead, busy, env, checked, calls, shut, started, seen>>

\* The runner is published in the row and hears a cancellation that came first.
StoreRunner(f) ==
  /\ f.pc = "starting"
  /\ task' = [task EXCEPT ![f.task] = [task[f.task] EXCEPT !.runner = f.id]]
  /\ Becomes(f, [f EXCEPT !.pc = "running", !.told = task[f.task].cancel])
  /\ UNCHANGED <<queue, ahead, busy, env, checked, calls, shut, started, seen>>

\* What BrowserRunner.run can end with: saved files, a failure, a rejected
\* login, or the error "cancelled" of a runner that was told.
Outcomes(f) ==
  (IF f.pc = "running" THEN {"done"} ELSE {}) \cup {"failed", "auth"}
    \cup (IF f.told THEN {"stopped"} ELSE {})

\* The end of _run_task reads the cancel flag of the row under the lock.
RunEnd(f, outcome) ==
  /\ f.pc \in {"starting", "running"}
  /\ Becomes(f, [f EXCEPT !.pc = "returned",
                          !.result = IF task[f.task].cancel THEN "cancelled" ELSE outcome])
  /\ UNCHANGED <<task, queue, ahead, busy, env, checked, calls, shut, started, seen>>

\* Wrong on purpose: one retry too many.
Retries_OffByOne(f) ==
  /\ f.result \in {"failed", "auth"}
  /\ task[f.task].retry <= MaxRequeues

\* _automatic_retry_reason: every failure but a cancellation is tried again.
Retries(f) ==
  /\ f.result \in {"failed", "auth"}
  /\ task[f.task].retry < MaxRequeues

\* The row of a task that is to be tried again; a rejected login unpins it.
RetryRow(row, result) ==
  [row EXCEPT !.status = "queued", !.retry = row.retry + 1, !.account = None, !.runner = 0,
              !.requested = IF result = "auth" THEN AnyAccount ELSE row.requested]

\* Wrong on purpose: only the expected results end the row.
ResultRow_Forgets(row, result) ==
  [row EXCEPT !.status = IF result \in Terminal THEN result ELSE row.status, !.runner = 0]

ResultRow(row, result) ==
  [row EXCEPT !.status = IF result \in Terminal THEN result ELSE "failed", !.runner = 0]

\* Wrong on purpose: the row is reset but not put back into the queue.
BookRetry_NoAppend(f) ==
  /\ task' = [task EXCEPT ![f.task] = RetryRow(task[f.task], f.result)]
  /\ UNCHANGED <<queue, ahead>>

BookRetry(f) ==
  /\ task' = [task EXCEPT ![f.task] = RetryRow(task[f.task], f.result)]
  /\ Requeue(f.task)

BookResult(f) ==
  /\ task' = [task EXCEPT ![f.task] = ResultRow(task[f.task], f.result)]
  /\ UNCHANGED <<queue, ahead>>

\* Wrong on purpose: a retried task keeps its account marked busy.
Finish_KeepsBusy(f) ==
  /\ f.pc = "returned"
  /\ IF Retries(f) THEN BookRetry(f) ELSE BookResult(f)
  /\ valid' = IF f.result = "auth" THEN valid \ {f.account} ELSE valid
  /\ busy' = IF Retries(f) THEN busy ELSE busy \ {f.account}
  /\ live' = live \ {f}
  /\ calls' = calls + 1
  /\ UNCHANGED <<profiles, login, removal, checked, shut, started, seen>>

\* Wrong on purpose: the dispatcher is only called when a retry was scheduled.
Finish_NoDispatch(f) ==
  /\ f.pc = "returned"
  /\ IF Retries(f) THEN BookRetry(f) ELSE BookResult(f)
  /\ valid' = IF f.result = "auth" THEN valid \ {f.account} ELSE valid
  /\ busy' = busy \ {f.account}
  /\ live' = live \ {f}
  /\ calls' = IF Retries(f) THEN calls + 1 ELSE calls
  /\ UNCHANGED <<profiles, login, removal, checked, shut, started, seen>>

\* Wrong on purpose: the callback leaves the attempt of a cancelled task alone.
Finish_SkipsCancelled(f) ==
  /\ f.pc = "returned"
  /\ task[f.task].status # "cancelled"
  /\ IF Retries(f) THEN BookRetry(f) ELSE BookResult(f)
  /\ valid' = IF f.result = "auth" THEN valid \ {f.account} ELSE valid
  /\ busy' = busy \ {f.account}
  /\ live' = live \ {f}
  /\ calls' = calls + 1
  /\ UNCHANGED <<profiles, login, removal, checked, shut, started, seen>>

\* _finish_task, the done-callback of the future.
Finish(f) ==
  /\ f.pc = "returned"
  /\ IF Retries(f) THEN BookRetry(f) ELSE BookResult(f)
  /\ valid' = IF f.result = "auth" THEN valid \ {f.account} ELSE valid
  /\ busy' = busy \ {f.account}
  /\ live' = live \ {f}
  /\ calls' = calls + 1
  /\ UNCHANGED <<profiles, login, removal, checked, shut, started, seen>>

\* Its error path: for a rejected login the callback first marks state.json
\* (_mark_account_session_expired), and the write may raise.  concurrent.futures
\* drops the exception of a callback, so nothing else of it happens, ever: the
\* row keeps its status, the account stays busy, no dispatcher is called.
FinishRaises(f) ==
  /\ "state" \in Faults
  /\ f.pc = "returned" /\ f.result = "auth"
  /\ Becomes(f, [f EXCEPT !.pc = "raised"])
  /\ UNCHANGED <<task, queue, ahead, busy, env, checked, calls, shut, started, seen>>

-----------------------------------------------------------------------------
(* Accounts: logins, sessions that lapse, removal.                         *)

\* Wrong on purpose: a login starts on an account that runs a task.
LoginStart_IgnoresBusy(a) ==
  /\ "login" \in Faults
  /\ a \in profiles
  /\ login[a] # "running"
  /\ login' = [login EXCEPT ![a] = "running"]
  /\ UNCHANGED <<sched, profiles, valid, removal, checked, calls, shut, started, seen>>

\* POST /api/accounts/login, both locks held.
LoginStart(a) ==
  /\ "login" \in Faults
  /\ a \in profiles \ busy
  /\ login[a] # "running"
  /\ login' = [login EXCEPT ![a] = "running"]
  /\ UNCHANGED <<sched, profiles, valid, removal, checked, calls, shut, started, seen>>

\* The worker process saves state.json; later it exits, for whatever reason.
LoginSaves(a) ==
  /\ login[a] = "running"
  /\ a \in profiles \ valid
  /\ valid' = valid \cup {a}
  /\ UNCHANGED <<sched, profiles, login, removal, checked, calls, shut, started, seen>>

LoginExits(a) ==
  /\ login[a] = "running"
  /\ login' = [login EXCEPT ![a] = "exited"]
  /\ UNCHANGED <<sched, profiles, valid, removal, checked, calls, shut, started, seen>>

\* The saved session runs out.
SessionLapses(a) ==
  /\ "lapse" \in Faults
  /\ a \in valid
  /\ valid' = valid \ {a}
  /\ UNCHANGED <<sched, profiles, login, removal, checked, calls, shut, started, seen>>

\* QUEUE_TIMEOUT_SECONDS pass since created_at, which no retry renews.
WaitTooLong(t) ==
  /\ "timeout" \in Faults
  /\ task[t].status # "absent"
  /\ ~task[t].late
  /\ task' = [task EXCEPT ![t] = [task[t] EXCEPT !.late = TRUE]]
  /\ UNCHANGED <<queue, ahead, busy, live, env, checked, calls, shut, started, seen>>

\* POST /api/accounts: the profile directory and its config.json.
SaveAccount(a) ==
  /\ a \notin profiles
  /\ calls < MaxCalls
  /\ profiles' = profiles \cup {a}
  /\ calls' = calls + 1
  /\ UNCHANGED <<sched, valid, login, removal, checked, shut, started, seen>>

\* DELETE /api/accounts/<id>: the check under _tasks_lock,
RemoveCheck(a) ==
  /\ "removal" \in Faults
  /\ removal[a] = "no"
  /\ a \in profiles \ busy
  /\ \A t \in Tasks : ~(task[t].status = "queued" /\ task[t].requested = a)
  /\ removal' = [removal EXCEPT ![a] = "checked"]
  /\ UNCHANGED <<sched, profiles, valid, login, checked, calls, shut, started, seen>>

\* the login worker taken out of the registry under _login_lock,
RemoveLogin(a) ==
  /\ removal[a] = "checked"
  /\ login' = [login EXCEPT ![a] = "none"]
  /\ removal' = [removal EXCEPT ![a] = IF login[a] = "running" THEN "stopping" ELSE "stopped"]
  /\ UNCHANGED <<sched, profiles, valid, checked, calls, shut, started, seen>>

\* waited for until it is dead,
RemoveWait(a) ==
  /\ removal[a] = "stopping"
  /\ removal' = [removal EXCEPT ![a] = "stopped"]
  /\ UNCHANGED <<sched, profiles, valid, login, checked, calls, shut, started, seen>>

\* and rmtree(profile), followed by a call of the dispatcher.
RemoveTree(a) ==
  /\ removal[a] = "stopped"
  /\ calls < MaxCalls
  /\ removal' = [removal EXCEPT ![a] = "no"]
  /\ profiles' = profiles \ {a}
  /\ valid' = valid \ {a}
  /\ calls' = calls + 1
  /\ UNCHANGED <<sched, login, checked, shut, started, seen>>

-----------------------------------------------------------------------------
(* Closing the application.                                                *)

\* _shutdown_application: the two critical sections of its body.
Shutdown ==
  /\ "shutdown" \in Faults
  /\ shut = "open"
  /\ shut' = "requested"
  /\ LET dropped == {t \in queue : task[t].status = "queued"}
         running == {t \in Tasks : task[t].status = "running"}
     IN /\ task' = [t \in Tasks |->
                      CASE t \in dropped -> [task[t] EXCEPT !.status = "cancelled"]
                        [] t \in running -> [task[t] EXCEPT !.status = "cancelled",
                                                            !.cancel = TRUE]
                        [] OTHER -> task[t]]
        /\ live' = TellRunners(running)
  /\ Dequeue(queue)
  /\ busy' = {}
  /\ login' = [a \in Accounts |-> "none"]
  /\ UNCHANGED <<profiles, valid, removal, checked, calls, started, seen>>

\* main's finally: _executor.shutdown(wait=False, cancel_futures=True).
CloseExecutor ==
  /\ shut = "requested"
  /\ shut' = "closed"
  /\ UNCHANGED <<sched, env, checked, calls, started, seen>>

-----------------------------------------------------------------------------
Init ==
  /\ task = [t \in Tasks |-> NoTask]
  /\ queue = {}
  /\ ahead = [t \in Tasks |-> {}]
  /\ busy = {}
  /\ live = {}
  /\ profiles = Accounts
  /\ valid = Accounts
  /\ login = [a \in Accounts |-> "none"]
  /\ checked = {}
  /\ removal = [a \in Accounts |-> "no"]
  /\ calls = 0
  /\ shut = "open"
  /\ started = [t \in Tasks |-> 0]
  /\ seen = {}

AttemptStep(f) ==
  \/ RunBegin(f)
  \/ StoreRunner(f)
  \/ \E outcome \in Outcomes(f) : RunEnd(f, outcome)
  \/ Finish(f)
  \/ FinishRaises(f)

\* The steps of an attempt that come whatever RunningHub does.  While it keeps
\* the cloud task queued, BrowserRunner.run waits without a limit, so that only
\* a runner that was told to cancel is sure to end.
SureStep(f) ==
  \/ RunBegin(f)
  \/ StoreRunner(f)
  \/ f.told /\ \E outcome \in Outcomes(f) : RunEnd(f, outcome)
  \/ Finish(f)

Next ==
  \/ \E a \in Accounts : CheckAccount(a)
  \/ \E s \in Batches, r \in Targets : Submit(s, r)
  \/ \E t \in Tasks : Cancel(t)
  \/ \E t \in Tasks : Restart(t)
  \/ Poll
  \/ Dispatch
  \/ \E f \in live : AttemptStep(f)
  \/ \E a \in Accounts : LoginStart(a)
  \/ \E a \in Accounts : LoginSaves(a)
  \/ \E a \in Accounts : LoginExits(a)
  \/ \E a \in Accounts : SessionLapses(a)
  \/ \E t \in Tasks : WaitTooLong(t)
  \/ \E a \in Accounts : SaveAccount(a)
  \/ \E a \in Accounts : RemoveCheck(a)
  \/ \E a \in Accounts : RemoveLogin(a)
  \/ \E a \in Accounts : RemoveWait(a)
  \/ \E a \in Accounts : RemoveTree(a)
  \/ Shutdown
  \/ CloseExecutor

Spec == Init /\ [][Next]_vars

\* The workbench polls on a timer, the lock is granted in the end, a thread that
\* is not waiting for RunningHub goes on, and wall-clock time passes.
Fairness ==
  /\ WF_vars(Poll)
  /\ WF_vars(Dispatch)
  /\ \A t \in Tasks, a \in Accounts :
       WF_vars(\E f \in live : f.task = t /\ f.account = a /\ SureStep(f))
  /\ \A t \in Tasks : WF_vars(WaitTooLong(t))

FairSpec == Spec /\ Fairness

-----------------------------------------------------------------------------
(* What the scheduler promises.                                            *)

\* Every variable stays in its type (the rows of _tasks, the deque, the sets
\* of accounts, the futures).
TypeOK ==
  /\ task \in [Tasks -> TaskRecord]
  /\ queue \in SUBSET Tasks
  /\ ahead \in [Tasks -> SUBSET Tasks]
  /\ busy \in SUBSET Accounts
  /\ live \in SUBSET Attempt
  /\ profiles \in SUBSET Accounts
  /\ valid \in SUBSET Accounts
  /\ login \in [Accounts -> {"none", "running", "exited"}]
  /\ checked \in SUBSET Accounts
  /\ removal \in [Accounts -> {"no", "checked", "stopping", "stopped"}]
  /\ calls \in Nat
  /\ shut \in {"open", "requested", "closed"}
  /\ started \in [Tasks -> Nat]
  /\ seen \in SUBSET Accounts

\* "one active task per account" (_dispatch_tasks): until the application is
\* closed, no two attempts, of the same or of different tasks, whether current
\* or left behind by a cancellation and a restart, hold the same account.
AccountExclusive ==
  shut = "open" => \A f, g \in live : f.account = g.account => f = g

\* A row that says "running" on an account has an attempt of its own alive on
\* that account, so that _finish_task, which comes for every future, can end it;
\* it stays with the row even when that callback has raised.
RunningHasAttempt ==
  \A t \in Tasks : task[t].status = "running" =>
    \E f \in live : f.task = t /\ f.account = task[t].account

\* A task shown as queued is in the queue the dispatcher reads, as long as the
\* workflow catalog can be read whenever the dispatcher needs it.
NoTaskLost ==
  "catalog" \notin Faults =>
    \A t \in Tasks : task[t].status = "queued" => t \in queue

\* A busy mark belongs to a live attempt, so a callback will take it away
\* again, as long as the catalog can be read and state.json be written.
NoAccountLost ==
  Faults \cap {"catalog", "state"} = {} =>
    \A a \in busy : \E f \in live : f.account = a /\ f.pc # "raised"

\* MAX_TASK_REQUEUES bounds the attempts: in all its life a task is attempted
\* at most once and MaxRequeues times again for each time a user starts it,
\* even when a restart overlaps an attempt that is still being cancelled.
AttemptsBounded ==
  \A t \in Tasks :
    started[t] <= (MaxRequeues + 1) * (task[t].restarts + 1)

\* The runner a row refers to has been told as soon as the row is flagged,
\* whichever of the cancel request and the start of the browser came first.
CancelReachesRunner ==
  \A f \in live :
    /\ f.pc = "running"
    /\ task[f.task].cancel
    /\ task[f.task].runner = f.id
    => f.told

\* A profile directory is never opened by a login worker and by the browser of
\* a task at the same time (unless DELETE has taken the worker out of the
\* registry or the application is closing).
ProfileExclusive ==
  "removal" \notin Faults /\ shut = "open" =>
    \A f \in live : login[f.account] # "running"

\* The deque order is total: of two queued ids exactly one is in front.
QueueOrdered ==
  \A s, t \in queue :
    /\ s # t => (s \in ahead[t] <=> t \notin ahead[s])
    /\ t \notin ahead[t]

\* Every change that could let a task start is followed by a dispatcher call:
\* when none is pending, no account that the last call saw ready is left free
\* while a task waits that could run on it.
NoLostWakeup ==
  calls = 0 /\ "catalog" \notin Faults /\ shut = "open" =>
    \A a \in seen \cap Free, t \in queue :
      task[t].status = "queued" => Pinned(t) /\ task[t].requested # a

\* First come, first served: an "auto" task does not get an account while an
\* "auto" task that was in front of it in the queue stays there.
NoOvertaking ==
  [][\A s, t \in queue :
       /\ s \in ahead[t] /\ ~Pinned(s) /\ ~Pinned(t)
       /\ started'[t] > started[t]
       => s \notin queue' \/ task[s].status # "queued"]_vars

\* No task is left "permanently queued" (_finish_task): whatever keeps it
\* waiting, the dispatcher gives it to an account or the queue timeout fails it.
NeverStuckQueued ==
  \A t \in Tasks : task[t].status = "queued" ~> task[t].status # "queued"

\* The browser of the task waits for RunningHub, and nobody has cancelled it.
Waits(t) == \E f \in live : f.task = t /\ f.pc = "running" /\ ~f.told

\* Every submitted task comes to an end for good: the retries are bounded and
\* the queue timeout ends those no account ever takes.  The exception is a task
\* that RunningHub keeps in its own queue for ever and no user cancels; and the
\* catalog and state.json can be read and written whenever they are needed.
TaskSettles ==
  Faults \cap {"catalog", "state"} = {} =>
    \A t \in Tasks :
      task[t].status # "absent" ~> [](task[t].status \in Terminal) \/ []Waits(t)

-----------------------------------------------------------------------------
(* The abstract specification the scheduler implements.                    *)

\* The attempts that hold an account, as AccountSlots counts them.
Holding(a) == {<<f.task, f.id>> : f \in {g \in live : g.account = a}}

\* Those of them that are on their way back: told to stop, or at their end.
Leaving(a) ==
  {<<f.task, f.id>> :
     f \in {g \in live : g.account = a /\ (g.told \/ g.pc \in {"returned", "raised"})}}

Slots == INSTANCE AccountSlots WITH
  held   <- [a \in Accounts |-> Holding(a)],
  due    <- [a \in Accounts |-> Leaving(a)],
  issued <- started,
  open   <- (shut = "open")

\* Whatever is cancelled, restarted, retried or broken, accounts are handed out
\* and given back as AccountSlots says: to new attempts only, to one at a time
\* until the application closes, each given back by its own attempt and once.
ImplementsSlots == Slots!Spec

\* The same with its liveness: an attempt that was told to stop, or has come to
\* its end, gives its account back, however it is cancelled, restarted or retried.
ImplementsFairSlots == Slots!FairSpec
=============================================================================
