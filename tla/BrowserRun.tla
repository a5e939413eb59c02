----------------------------- MODULE BrowserRun ------------------------------
(***************************************************************************)
(* One run of a workflow in a browser (BrowserRunner.run of                *)
(* client/runninghub_client/browser.py): the worker thread opens the       *)
(* workflow, uploads the inputs, clicks Run, polls the page until every    *)
(* output node holds new media, saves it and cancels the task in           *)
(* RunningHub's cloud to free the account.  An HTTP handler may ask it to  *)
(* cancel at any time; other runs compete for _upload_lock.                *)
(*                                                                         *)
(* The page is all the worker sees of the cloud: what the sidebar and the  *)
(* progress bar show may lag or be missing, so a reading is any the page   *)
(* may give.  Time passes in the waits of the polling loop, one unit each; *)
(* waits elsewhere are steps.                                              *)
(***************************************************************************)
EXTENDS Integers, FiniteSets

CONSTANTS
  Outputs,      \* workflow_spec.outputs: the output nodes
  Uploads,      \* the upload nodes the inputs resolve to
  MaxRetries,   \* max_retries
  Navigations,  \* how often _open_post_workflow loads the post page
  Limit,        \* execution_limit, in polls
  ZeroLimit,    \* ZERO_PROGRESS_TIMEOUT_SECONDS, in polls
  Grace,        \* TASK_FAILURE_GRACE_SECONDS, in polls
  Faults        \* which of FaultKinds this instance lets happen

\* "snapshot": reading the output media fails; "popup": an error popup resists
\* being closed; "sidebar": an active task's Cancel is not found; "dialog":
\* RunningHub's confirmation dialog has a Cancel button of its own.
FaultKinds == {"snapshot", "popup", "sidebar", "dialog"}

ASSUME BrowserAssumption ==
  /\ Outputs # {} /\ IsFiniteSet(Outputs)
  /\ IsFiniteSet(Uploads)
  /\ MaxRetries \in Nat
  /\ {Navigations, Limit, ZeroLimit, Grace} \subseteq Nat \ {0}
  /\ Faults \subseteq FaultKinds

VARIABLES
  run,       \* the worker thread and its local variables
  lock,      \* who holds _upload_lock: "free", "self", "other"
  files,     \* the file each upload node holds: an old one, this run's, or none
  baseline,  \* output_media_baseline
  cancelAt,  \* cancel_requested: where the worker was when it was set, or "no"
  cloud,     \* the tasks the clicks on Run have created, by attempt
  media,     \* per output node, which task its media come from; 0: from before
  popup,     \* the error popup on the page
  dialog,    \* the task RunningHub asks whether it is really to be cancelled, 0 for none
  missed     \* history: a popup was not closed, or a cloud task not cancelled

vars == <<run, lock, files, baseline, cancelAt, cloud, media, popup, dialog,
          missed>>
page == <<cloud, media, popup, dialog>>

Attempts == 1..MaxRetries + 1

Results == {"none", "completed", "cancelled", "timeout", "failed", "auth", "invalid"}
PCs ==
  {"begin", "launch", "login", "open", "prepare", "position", "fit", "upload", "fill",
   "baseline", "attempt", "click", "submit", "look", "read", "verdict", "popups",
   "wait", "again", "save", "cancel", "confirm", "ended"}

Worker ==
  [pc: PCs,
   then: {"again", "cancelled", "completed"}, \* what a cloud cancellation leads to
   result: Results,             \* how run() has ended
   page: BOOLEAN,               \* _page is not None
   told: BOOLEAN,               \* _cloud_cancel_attempted
   tries: 0..Navigations,       \* loads of the post page
   attempt: 0..MaxRetries + 1,
   left: Int,                   \* deadline - now
   last: {"none", "queued", "running", "failed"}, \* last_task_state
   zero: -1..ZeroLimit,         \* age of zero_progress_since, -1 for None
   fail: -1..Grace]             \* age of failure_first_seen_at, -1 for None

\* A wrong variant: the polling loop does not.
Checkpoints_NotInLoop ==
  {"launch", "login", "open", "prepare", "fit", "baseline", "attempt", "save"}

\* The points where _raise_if_cancelled is called.
Checkpoints ==
  {"launch", "login", "open", "prepare", "fit", "baseline", "attempt", "look",
   "wait", "save"}

Active == {k \in Attempts : cloud[k] \in {"queued", "running"}}
Newest(S) == CHOOSE k \in S : \A j \in S : j <= k

\* The condition of the retry loop, and of the polling loop.
Retrying == run.attempt <= MaxRetries
Polling  == run.left > 0 \/ run.last = "queued"

-----------------------------------------------------------------------------
(* How the worker moves on, ends, and notices a cancellation.              *)

At(pc) == run.pc = pc /\ (pc \in Checkpoints => cancelAt = "no")

\* Both loops test their condition before they call it.
AtCheckpoint ==
  /\ run.pc \in Checkpoints
  /\ run.pc = "attempt" => Retrying
  /\ run.pc = "look" => Polling

Goto(pc) == run' = [run EXCEPT !.pc = pc] /\ UNCHANGED lock

Release == lock' = IF lock = "self" THEN "free" ELSE lock

\* run() returns or raises: the with statement frees the lock, stop() closes
\* the browser.
Finish(r) ==
  /\ run' = [run EXCEPT !.pc = "ended", !.result = r, !.page = FALSE]
  /\ Release

\* _cancel_runninghub_task_from_sidebar is called.
CancelCloud(then) ==
  /\ run' = [run EXCEPT !.pc = "cancel", !.then = then,
                        !.told = IF then = "cancelled" THEN TRUE ELSE run.told]
  /\ UNCHANGED lock

\* _raise_if_cancelled: once a page is open, the cloud task is cancelled first.
NoticeCancel ==
  /\ cancelAt # "no" /\ AtCheckpoint
  /\ IF run.page /\ ~run.told THEN CancelCloud("cancelled") ELSE Finish("cancelled")
  /\ UNCHANGED <<files, baseline, cancelAt, page, missed>>

-----------------------------------------------------------------------------
(* Setup: from the call of run() to the baseline.                          *)

\* The inputs are resolved before the browser is opened.
Begin ==
  /\ At("begin")
  /\ Goto("launch") \/ Finish("invalid")
  /\ UNCHANGED <<files, baseline, cancelAt, page, missed>>

\* start() up to new_page().
Launch ==
  /\ At("launch")
  /\ \/ run' = [run EXCEPT !.pc = "login", !.page = TRUE] /\ UNCHANGED lock
     \/ Finish("failed")
  /\ UNCHANGED <<files, baseline, cancelAt, page, missed>>

\* _restore_saved_login.
Login ==
  /\ At("login")
  /\ Goto("open") \/ Finish("failed")
  /\ UNCHANGED <<files, baseline, cancelAt, page, missed>>

\* One navigation of _open_post_workflow: it reaches the canvas, fails and is
\* repeated, ends at a login page, or ends at a canvas that does not load, which
\* a probe may blame on the session.
OpenPost ==
  /\ At("open")
  /\ \/ Goto("prepare")
     \/ /\ run.tries + 1 < Navigations
        /\ run' = [run EXCEPT !.tries = run.tries + 1]
        /\ UNCHANGED lock
     \/ Finish("failed")
     \/ Finish("auth")
  /\ UNCHANGED <<files, baseline, cancelAt, page, missed>>

\* Leftover popups are closed, a notice of an earlier run among them.
Prepare ==
  /\ At("prepare")
  /\ Goto("position") \/ Finish("failed")
  /\ UNCHANGED <<files, baseline, cancelAt, page, missed>>

Acquire ==
  /\ lock = "free"
  /\ \/ At("position") /\ run' = [run EXCEPT !.pc = "fit"]
     \/ At("click") /\ run' = [run EXCEPT !.pc = "submit"]
  /\ lock' = "self"
  /\ UNCHANGED <<files, baseline, cancelAt, page, missed>>

\* _fit_nodes_on_canvas, set_node_modes and set_widget_inputs.
Fit ==
  /\ At("fit")
  /\ Goto("upload") \/ Finish("failed")
  /\ UNCHANGED <<files, baseline, cancelAt, page, missed>>

\* _upload_via_fetch_and_callback: the file is in, or the upload is refused; the
\* live probe may find that the session is to blame.
Direct(u, refused, expired) ==
  \/ files' = [files EXCEPT ![u] = "new"] /\ UNCHANGED <<run, lock>>
  \/ Finish(refused) /\ UNCHANGED files
  \/ Finish(expired) /\ UNCHANGED files

\* A wrong variant: an unchanged value passes for an upload, the bug that left
\* "node 214 continuing to use its old video".
Upload_Unverified(u) ==
  /\ At("upload")
  /\ files[u] # "new"
  /\ \/ files' = [files EXCEPT ![u] = "new"] /\ UNCHANGED <<run, lock>>
     \/ Goto("fill") /\ UNCHANGED files
     \/ Finish("failed") /\ UNCHANGED files
     \/ Direct(u, "failed", "failed")
  /\ UNCHANGED <<baseline, cancelAt, page, missed>>

\* _upload_one: the chooser changes the value; or leaves no valid one; or raises
\* or leaves the old one, and the file is uploaded directly.  When it has raised,
\* whatever the direct upload raises is wrapped in a plain RuntimeError.
Upload(u) ==
  /\ At("upload")
  /\ files[u] # "new"
  /\ \/ files' = [files EXCEPT ![u] = "new"] /\ UNCHANGED <<run, lock>>
     \/ Finish("failed") /\ UNCHANGED files
     \/ Direct(u, "failed", "failed")
     \/ files[u] = "old" /\ Direct(u, "failed", "auth")
  /\ UNCHANGED <<baseline, cancelAt, page, missed>>

UploadsDone ==
  /\ At("upload")
  /\ \A u \in Uploads : files[u] = "new"
  /\ Goto("fill")
  /\ UNCHANGED <<files, baseline, cancelAt, page, missed>>

\* set_text_inputs, then the lock is released.
FillIn ==
  /\ At("fill")
  /\ \/ run' = [run EXCEPT !.pc = "baseline"] /\ Release
     \/ Finish("failed")
  /\ UNCHANGED <<files, baseline, cancelAt, page, missed>>

\* _output_media_fingerprints: what the output nodes hold, or nothing at all
\* when the page cannot be asked.
Fingerprints == {media} \cup IF "snapshot" \in Faults THEN {[o \in Outputs |-> {}]} ELSE {}

TakeBaseline ==
  /\ At("baseline")
  /\ baseline' \in Fingerprints
  /\ Goto("attempt")
  /\ UNCHANGED <<files, cancelAt, page, missed>>

-----------------------------------------------------------------------------
(* An attempt: the click on Run and the polling loop.                      *)

\* The head of the retry loop.
StartAttempt ==
  /\ At("attempt") /\ Retrying
  /\ run' = [run EXCEPT !.pc = "click", !.attempt = run.attempt + 1]
  /\ UNCHANGED lock
  /\ UNCHANGED <<files, baseline, cancelAt, page, missed>>

\* select_plus_mode closes what popups it can and clicks Run, or finds no button;
\* the page may also fail after the click.
Submit ==
  /\ At("submit")
  /\ \/ /\ cloud' = [cloud EXCEPT ![run.attempt] = "queued"]
        /\ popup' \in {"none"} \cup IF "popup" \in Faults THEN {popup} ELSE {}
        /\ missed' = (missed \/ popup' # "none")
        /\ \/ /\ run' = [run EXCEPT !.pc = "look", !.left = Limit, !.last = "none",
                                    !.zero = -1, !.fail = -1]
              /\ Release
           \/ Finish("failed")
     \/ Finish("failed") /\ UNCHANGED <<cloud, popup, missed>>
  /\ UNCHANGED <<files, baseline, cancelAt, media, dialog>>

\* _all_outputs_have_results and _has_new_output_media.
Gained(now, o) == now[o] \ baseline[o] # {}
AllGained(now) == \A o \in Outputs : Gained(now, o)
SomeGained(now) == \E o \in Outputs : Gained(now, o)

\* The head of the polling loop and its test for completion.
Look ==
  /\ At("look") /\ Polling
  /\ \E now \in Fingerprints : Goto(IF AllGained(now) THEN "save" ELSE "read")
  /\ UNCHANGED <<files, baseline, cancelAt, page, missed>>

\* A loop ends by its condition, whoever has asked to cancel meanwhile: the time
\* of the attempt is up, or it was the last one.
Expire ==
  /\ \/ run.pc = "look" /\ ~Polling
     \/ run.pc = "attempt" /\ ~Retrying
  /\ Finish("timeout")
  /\ UNCHANGED <<files, baseline, cancelAt, page, missed>>

Cards    == {"none", "queued", "running", "failed"}
Progress == {"none", "zero", "some"}

\* A canvas that shows progress overrules a sidebar that still says "queued".
TaskState(card, progress) ==
  IF progress = "some" /\ card = "queued" THEN "running" ELSE card

\* zero_progress_since: started by a running task at 0 %, kept in the queue.
ZeroTimer(state, progress) ==
  CASE state = "running" /\ progress = "zero" -> IF run.zero = -1 THEN 0 ELSE run.zero
    [] state = "queued" -> run.zero
    [] OTHER -> -1

\* _observe_task_failure.
FailureTimer(card) ==
  CASE card \in {"running", "queued"} -> -1
    [] card = "failed" /\ run.fail = -1 -> 0
    [] OTHER -> run.fail

\* A wrong variant: the stalled task is left alone.
GiveUp_LeavesTask(worker) == [worker EXCEPT !.pc = "again"]

\* _cancel_for_retry.
GiveUp(worker) == [worker EXCEPT !.pc = "cancel", !.then = "again"]

\* The rest of the completion test: progress, sidebar, and the three clocks.
Read ==
  /\ At("read")
  /\ \E card \in Cards, progress \in Progress :
       LET state == TaskState(card, progress)
           zero  == ZeroTimer(state, progress)
           seen  == [run EXCEPT !.last = state, !.zero = zero]
           later == [seen EXCEPT
                       !.left = run.left + IF state = "queued" /\ run.last = "queued"
                                           THEN 1 ELSE 0,
                       !.fail = FailureTimer(card)]
       IN  run' = IF zero = ZeroLimit /\ state = "running"
                  THEN GiveUp(seen)
                  ELSE IF card = "failed" /\ run.fail = Grace
                  THEN [later EXCEPT !.pc = "verdict"]
                  ELSE [later EXCEPT !.pc = "popups"]
  /\ UNCHANGED <<lock, files, baseline, cancelAt, page, missed>>

\* A wrong variant: a failure is believed without a look at the outputs.
Verdict_Hasty ==
  /\ At("verdict")
  /\ Goto("save")
  /\ UNCHANGED <<files, baseline, cancelAt, page, missed>>

\* A confirmed failure: any new output makes it a success all the same.
Verdict ==
  /\ At("verdict")
  /\ \E now \in Fingerprints : IF SomeGained(now) THEN Goto("save") ELSE Finish("failed")
  /\ UNCHANGED <<files, baseline, cancelAt, page, missed>>

\* _detect_error_popup and _dismiss_error_popup: out of memory leads to a retry,
\* every other error ends the run.
Popups ==
  /\ At("popups")
  /\ CASE popup = "none"  -> Goto("wait")
       [] popup = "oom"   -> Goto("again") \/ Finish("failed")
       [] popup = "fatal" -> Finish("failed")
  /\ popup' \in {"none"} \cup IF "popup" \in Faults THEN {popup} ELSE {}
  /\ missed' = (missed \/ popup' # "none")
  /\ UNCHANGED <<files, baseline, cancelAt, cloud, media, dialog>>

Aged(x, cap) == IF x \in {-1, cap} THEN x ELSE x + 1

\* cancel_requested.wait(poll_interval) times out.
Wait ==
  /\ At("wait")
  /\ run' = [run EXCEPT !.pc = "look", !.left = run.left - 1,
                        !.zero = Aged(run.zero, ZeroLimit), !.fail = Aged(run.fail, Grace)]
  /\ UNCHANGED <<lock, files, baseline, cancelAt, page, missed>>

\* The polling loop was left by a break: time for another attempt, or none left.
Again ==
  /\ At("again")
  /\ IF run.left > 0 THEN Goto("attempt") ELSE Finish("timeout")
  /\ UNCHANGED <<files, baseline, cancelAt, page, missed>>

-----------------------------------------------------------------------------
(* The end: the result is saved, the cloud task cancelled.                 *)

\* A wrong variant: the task is left to run on in the cloud.
Save_LeavesTask ==
  /\ At("save")
  /\ Finish("completed")
  /\ UNCHANGED <<files, baseline, cancelAt, page, missed>>

\* download_outputs: a file is stored, or none is, or the session is revoked.
Save ==
  /\ At("save")
  /\ \/ CancelCloud("completed")
     \/ Finish("failed")
     \/ Finish("auth")
  /\ UNCHANGED <<files, baseline, cancelAt, page, missed>>

\* After _cancel_runninghub_task_from_sidebar.
Resume == IF run.then = "again" THEN Goto("again") ELSE Finish(run.then)

CloudCancelled(k) == cloud' = [cloud EXCEPT ![k] = "cancelled"]

\* The newest active task's Cancel is clicked; RunningHub obeys or asks back.
ClickCancel ==
  /\ At("cancel")
  /\ \/ /\ Active = {} \/ "sidebar" \in Faults
        /\ missed' = (missed \/ Active # {})
        /\ Resume
        /\ UNCHANGED <<cloud, dialog>>
     \/ /\ Active # {}
        /\ \/ CloudCancelled(Newest(Active)) /\ Resume /\ UNCHANGED dialog
           \/ dialog' = Newest(Active) /\ Goto("confirm") /\ UNCHANGED cloud
        /\ UNCHANGED missed
  /\ UNCHANGED <<files, baseline, cancelAt, media, popup>>

\* 800 ms later the dialog is confirmed, if it is still there.
Confirm ==
  /\ At("confirm")
  /\ IF dialog \in Active THEN CloudCancelled(dialog) ELSE UNCHANGED cloud
  /\ missed' = (missed \/ dialog = 0)
  /\ dialog' = 0
  /\ Resume
  /\ UNCHANGED <<files, baseline, cancelAt, media, popup>>

\* The watcher _dismiss_cancel_popups has left in the page presses the dialog's
\* own Cancel button.
WatcherCancels ==
  /\ "dialog" \in Faults
  /\ dialog # 0
  /\ dialog' = 0
  /\ UNCHANGED <<run, lock, files, baseline, cancelAt, cloud, media, popup, missed>>

-----------------------------------------------------------------------------
(* The others: the HTTP handler, the other runs, RunningHub.               *)

\* request_cancel.
RequestCancel ==
  /\ cancelAt = "no" /\ run.pc # "ended"
  /\ cancelAt' = run.pc
  /\ UNCHANGED <<run, lock, files, baseline, page, missed>>

\* Another BrowserRunner takes _upload_lock, and frees it.
OtherRun ==
  /\ \/ lock = "free" /\ run.pc \in {"position", "click"} /\ lock' = "other"
     \/ lock = "other" /\ lock' = "free"
  /\ UNCHANGED <<run, files, baseline, cancelAt, page, missed>>

\* RunningHub starts a task, produces media, ends it, or lets it fail.
CloudWorks(k) ==
  /\ \/ cloud[k] = "queued" /\ cloud' = [cloud EXCEPT ![k] = "running"]
        /\ UNCHANGED <<media, popup>>
     \/ /\ cloud[k] = "running"
        /\ \E o \in Outputs :
             k \notin media[o] /\ media' = [media EXCEPT ![o] = media[o] \cup {k}]
        /\ UNCHANGED <<cloud, popup>>
     \/ /\ cloud[k] = "running" /\ \A o \in Outputs : k \in media[o]
        /\ cloud' = [cloud EXCEPT ![k] = "done"]
        /\ UNCHANGED <<media, popup>>
     \/ /\ k \in Active
        /\ cloud' = [cloud EXCEPT ![k] = "failed"]
        /\ popup' \in {popup, "oom", "fatal"}
        /\ UNCHANGED media
  /\ UNCHANGED <<run, lock, files, baseline, cancelAt, dialog, missed>>

-----------------------------------------------------------------------------
Init ==
  /\ run = [pc |-> "begin", then |-> "again", result |-> "none", page |-> FALSE,
            told |-> FALSE, tries |-> 0, attempt |-> 0, left |-> 0, last |-> "none",
            zero |-> -1, fail |-> -1]
  /\ lock = "free"
  /\ files \in [Uploads -> {"old", "none"}]
  /\ baseline = [o \in Outputs |-> {}]
  /\ cancelAt = "no"
  /\ cloud = [k \in Attempts |-> "none"]
  /\ media \in [Outputs -> {{}, {0}}]
  /\ popup = "none"
  /\ dialog = 0
  /\ missed = FALSE

\* The steps of the worker thread but for the wait for the lock.
Program ==
  \/ NoticeCancel \/ Begin \/ Launch \/ Login \/ OpenPost \/ Prepare
  \/ Fit \/ (\E u \in Uploads : Upload(u)) \/ UploadsDone \/ FillIn \/ TakeBaseline
  \/ StartAttempt \/ Submit \/ Look \/ Expire \/ Read \/ Verdict \/ Popups \/ Wait
  \/ Again \/ Save \/ ClickCancel \/ Confirm

Next ==
  \/ Program \/ Acquire
  \/ WatcherCancels \/ RequestCancel \/ OtherRun
  \/ \E k \in Attempts : CloudWorks(k)

Spec == Init /\ [][Next]_vars

\* The thread runs; it gets a lock that the other runs free again and again.
FairSpec ==
  /\ Spec
  /\ WF_vars(Program) /\ SF_vars(Acquire)
  /\ WF_vars(lock = "other" /\ OtherRun)

-----------------------------------------------------------------------------
(* Properties.                                                             *)

\* Every variable keeps its type, and only setup and the click hold the lock.
TypeOK ==
  /\ run \in Worker
  /\ lock \in {"free", "self", "other"}
  /\ lock = "self" => run.pc \in {"fit", "upload", "fill", "submit", "cancel", "confirm"}
  /\ files \in [Uploads -> {"none", "old", "new"}]
  /\ {baseline, media} \subseteq [Outputs -> SUBSET (0..MaxRetries + 1)]
  /\ cancelAt \in PCs \cup {"no"}
  /\ cloud \in [Attempts -> {"none", "queued", "running", "done", "failed", "cancelled"}]
  /\ popup \in {"none", "oom", "fatal"}
  /\ dialog \in 0..MaxRetries + 1
  /\ missed \in BOOLEAN

\* No click on Run pays for a task while an upload node still holds a file of an
\* earlier run, whichever upload strategy was used (_upload_one, browser.py:1305).
InputsAreNew ==
  (\E k \in Attempts : cloud[k] # "none") => \A u \in Uploads : files[u] = "new"

\* A run that reports a result has one of its own: all outputs got new media, or
\* some did when the sidebar insists on a failure.  Of a run whose baseline could
\* not be read nothing is said: it may take old media for new.
ResultIsOwn ==
  run.result = "completed" /\ (\A o \in Outputs : 0 \in media[o] => 0 \in baseline[o])
    => IF run.fail < Grace THEN \A o \in Outputs : media[o] \ {0} # {}
                           ELSE \E o \in Outputs : media[o] \ {0} # {}

\* A retry is not started beside the task it replaces, provided that popups close
\* and cancellations are confirmed (the retry loop, browser.py:4021).
OneCloudTask == missed \/ Cardinality(Active) <= 1

\* A run that ends with its result or is cancelled leaves no task in the cloud
\* behind, with the same proviso ("the account releases its slot at once",
\* browser.py:4284).
CloudIsReleased == run.result \in {"completed", "cancelled"} => missed \/ Active = {}

\* A run ends unless RunningHub keeps its task queued for ever; one that is
\* cancelled ends even then, wherever the request finds it.
RunEnds ==
  \/ <>(run.pc = "ended")
  \/ <>[](run.last = "queued") /\ [](cancelAt = "no")
=============================================================================
