---------------------------- MODULE LoginSession -----------------------------
(***************************************************************************)
(* The interactive RunningHub login of one account.  A worker process      *)
(* (client/sms_login.py) drives a headless browser and reports stages and  *)
(* screenshots of the slider over local HTTP; the workbench                *)
(* (client/server.py) keeps one session per account, shows the slider to   *)
(* the user and passes pointer events and the SMS code on.                 *)
(*                                                                         *)
(* Every handler works on the session in one critical section of           *)
(* _login_lock.  A status or frame the worker posts is a step of its own   *)
(* (pc "post"), so that anything may happen between the worker's decision  *)
(* and the handler, and a post may time out and still be handled later.    *)
(***************************************************************************)
EXTENDS Naturals, Sequences, FiniteSets, SequencesExt

CONSTANTS
  MaxLogins,  \* bound: login requests for the account
  MaxEvents,  \* the length of the event queue (512 in the code)
  MaxInput,   \* bound: pointer events and codes the user sends
  MaxLate,    \* bound: posts handled later than their sender waits, at a time
  Faults      \* which of FaultKinds this instance lets happen

FaultKinds == {"exception", "crash", "timeout", "removal", "shutdown"}

ASSUME LoginAssumption ==
  /\ MaxLogins \in Nat
  /\ MaxEvents \in Nat \ {0}
  /\ MaxInput \in Nat
  /\ MaxLate \in Nat
  /\ Faults \subseteq FaultKinds

VARIABLES
  sess,     \* _login_sessions[account]; its id is 0 when there is none
  proc,     \* _login_processes[account]: the id of the session it serves, 0 for none
  worker,   \* the worker process of each session
  late,     \* posts whose sender has given up waiting, not handled yet
  ending,   \* the workers (0 for none) that a removal or a shutdown still has to end
  state,    \* profiles/<account>/state.json passes _session_info
  input     \* history: how many pointer events and codes the user has sent

vars == <<sess, proc, worker, late, ending, state, input>>

Ids      == 1..MaxLogins
Ended    == {"completed", "failed", "stopped"}
Stages   == {"starting", "slider", "code_required", "verifying"} \cup Ended
Shots    == {"slider", "later"}      \* a picture of the slider, or of what comes after it
Pointers == {"down", "move", "up"}
Events   == Pointers \cup {"verify"}
Posts    == [stage: Stages] \cup [shot: Shots]

Endings == [id: 0..MaxLogins, by: {"removal", "shutdown"}]

Session == [id: 0..MaxLogins, stage: Stages, frame: Shots \cup {"none"}, events: Seq(Events)]

PCs == {"absent", "opening", "arming", "snapping", "announcing", "polling", "handling",
        "capturing", "shooting", "checking", "saving", "failing",
        "closing", "exited", "post"}

Pages == {"loading", "slider", "form", "pending", "wrong", "in"}

Worker ==
  [pc: PCs,         \* where its program is; "post": a post is on its way ...
   post: Posts,     \* ... this one,
   next: PCs,       \* ... after which it goes on here
   page: Pages,     \* what RunningHub shows in its browser
   armed: BOOLEAN,  \* its user has been asked to move the slider
   done: BOOLEAN,   \* captcha_done
   ticks: 0..1,     \* missing_ticks, until the captcha is done
   down: BOOLEAN,   \* pointer_down, until then
   code: BOOLEAN,   \* submitted_code is set
   batch: Seq(Events), \* the events it has fetched and not handled yet
   saved: BOOLEAN,  \* it has written state.json
   ok: BOOLEAN]     \* returncode is (going to be) 0

NoSession == [id |-> 0, stage |-> "failed", frame |-> "none", events |-> <<>>]
NoPost    == [stage |-> "starting"]

NewWorker(pc) ==
  [pc |-> pc, post |-> NoPost, next |-> "opening", page |-> "loading",
   armed |-> FALSE, done |-> FALSE, ticks |-> 0, down |-> FALSE, code |-> FALSE,
   batch |-> <<>>, saved |-> FALSE, ok |-> FALSE]

-----------------------------------------------------------------------------
(* What the handlers do to a session.                                      *)

\* A wrong variant: the picture stays when the stage moves on.
SetStage_KeepsFrame(s, stage) == [s EXCEPT !.stage = stage]

\* _set_login_status_locked: only the slider stage keeps a picture.
SetStage(s, stage) ==
  [s EXCEPT !.stage = stage, !.frame = IF stage = "slider" THEN s.frame ELSE "none"]

\* _queue_login_event_locked: a move replaces a move; a queue that is too long
\* loses its oldest move or, if it has none, its oldest event.
Enqueue(events, e) ==
  LET longer  == IF e = "move" /\ events # <<>> /\ Last(events) = "move"
                 THEN events ELSE Append(events, e)
      moves   == {k \in DOMAIN longer : longer[k] = "move"}
      dropped == IF moves = {} THEN 1 ELSE CHOOSE k \in moves : \A j \in moves : k <= j
  IN  IF Len(longer) > MaxEvents THEN RemoveAt(longer, dropped) ELSE longer

\* A wrong variant: the session is looked up by account.
Known_ByAccount(i) == sess.id # 0

\* _login_internal_session finds the session worker i speaks for.
Known(i) == sess.id = i

\* The session after a post of worker i: a status sets the stage, a picture is
\* kept in the first two stages only.
Posted(i, post) ==
  IF ~Known(i) THEN sess
  ELSE IF "stage" \in DOMAIN post THEN SetStage(sess, post.stage)
  ELSE IF sess.stage \in {"starting", "slider"} THEN [sess EXCEPT !.frame = post.shot]
  ELSE sess

-----------------------------------------------------------------------------
(* The worker: main() of sms_login.py.                                     *)

Becomes(i, w) == worker' = [worker EXCEPT ![i] = w]

\* What the worker still knows at pc: once the login is over, only how it ended.
Carried(w, pc) ==
  IF pc \in {"failing", "closing"} THEN [NewWorker(pc) EXCEPT !.saved = w.saved, !.ok = w.ok]
  ELSE w

GoesOn(w, pc) == [Carried(w, pc) EXCEPT !.pc = pc, !.post = NoPost, !.next = "opening"]

\* w posts something and goes on at pc when that has been handled.
Reports(w, post, pc) == [Carried(w, pc) EXCEPT !.pc = "post", !.post = post, !.next = pc]

AsksForCode(w, pc) == Reports([w EXCEPT !.code = FALSE], [stage |-> "code_required"], pc)

\* The process has ended; all that is left of it is its exit code and the file.
Dead(w, ok) == [NewWorker("exited") EXCEPT !.saved = w.saved, !.ok = ok]

\* Where a worker goes whose post has failed: a failure to report a failure is
\* swallowed, a code that is not known to be reported counts as not submitted,
\* any other exception ends the login.
Refused(w) ==
  IF w.post = [stage |-> "failed"] THEN GoesOn(w, "closing")
  ELSE IF w.post = [stage |-> "verifying"] THEN AsksForCode(w, w.next)
  ELSE GoesOn(w, "failing")

\* The post is handled, or refused (403, 410), which raises in the worker.
Deliver(i) ==
  /\ worker[i].pc = "post"
  /\ sess' = Posted(i, worker[i].post)
  /\ Becomes(i, IF Known(i) THEN GoesOn(worker[i], worker[i].next) ELSE Refused(worker[i]))
  /\ UNCHANGED <<proc, late, ending, state, input>>

\* The post times out in the worker and is handled later.
TimesOut(i) ==
  /\ "timeout" \in Faults
  /\ worker[i].pc = "post"
  /\ Cardinality(late) < MaxLate
  /\ late' = late \cup {[id |-> i, post |-> worker[i].post]}
  /\ Becomes(i, Refused(worker[i]))
  /\ UNCHANGED <<sess, proc, ending, state, input>>

LateArrives ==
  \E p \in late :
    /\ late' = late \ {p}
    /\ sess' = Posted(p.id, p.post)
    /\ UNCHANGED <<proc, worker, ending, state, input>>

\* The top of the loop, once the deadline (600 s) and the login cookie have been
\* looked at: fetch the queued events.  The request may time out; they leave the
\* queue all the same.
LoggedIn(w) == w.code /\ w.page = "in"

Poll(i) ==
  /\ worker[i].pc = "polling"
  /\ ~LoggedIn(worker[i])
  /\ sess' = IF Known(i) THEN [sess EXCEPT !.events = <<>>] ELSE sess
  /\ \/ Known(i) /\ Becomes(i, [GoesOn(worker[i], "handling") EXCEPT !.batch = sess.events])
     \/ ~Known(i) /\ Becomes(i, GoesOn(worker[i], "failing"))
     \/ "timeout" \in Faults /\ Becomes(i, GoesOn(worker[i], "failing"))
  /\ UNCHANGED <<proc, late, ending, state, input>>

\* storage_state writes the session file, and success is reported.
Save(i) ==
  /\ worker[i].pc = "saving"
  /\ state' = TRUE
  /\ Becomes(i, Reports([worker[i] EXCEPT !.saved = TRUE, !.ok = TRUE],
                       [stage |-> "completed"], "closing"))
  /\ UNCHANGED <<sess, proc, late, ending, input>>

-----------------------------------------------------------------------------
(* The steps of the worker that concern it and its browser only: worker i, at *)
(* pc, becomes w.                                                          *)

Step(i, pc, w) ==
  worker[i].pc = pc /\ Becomes(i, w) /\ UNCHANGED <<sess, proc, late, ending, state, input>>

\* The start is reported; then the browser opens the login dialog and asks for
\* an SMS code.
Open(i) == Step(i, "opening", Reports(worker[i], [stage |-> "starting"], "arming"))

\* Before the loop: wait until the slider is there, send its first picture and
\* announce it.
Arm(i) == worker[i].page = "slider" /\ Step(i, "arming", GoesOn(worker[i], "snapping"))

\* page.screenshot takes that part of the page, whatever it shows by now.
Picture(w) == [shot |-> IF w.page = "slider" THEN "slider" ELSE "later"]

Snap(i) == Step(i, "snapping", Reports(worker[i], Picture(worker[i]), "announcing"))

Announce(i) ==
  Step(i, "announcing", Reports([worker[i] EXCEPT !.armed = TRUE], [stage |-> "slider"], "polling"))

\* A wrong variant: the loop has no deadline.
Overdue_Never(i) == FALSE

Overdue(i) == Step(i, "polling", GoesOn(worker[i], "failing"))

SeeLogin(i) == LoggedIn(worker[i]) /\ Step(i, "polling", GoesOn(worker[i], "saving"))

\* The next event of the batch.
HasNext(i, kinds) == worker[i].batch # <<>> /\ Head(worker[i].batch) \in kinds

Handled(w) == [w EXCEPT !.batch = Tail(w.batch)]

\* A code is typed into the form and submitted, or that fails, and the user is
\* asked again.
HandleVerify(i) ==
  LET w == Handled(worker[i]) IN
  /\ HasNext(i, {"verify"})
  /\ \/ /\ w.page \in {"form", "pending", "wrong"}
        /\ Step(i, "handling", Reports([w EXCEPT !.page = "pending", !.code = TRUE, !.done = TRUE,
                                                !.ticks = 0, !.down = FALSE],
                                      [stage |-> "verifying"], "handling"))
     \/ Step(i, "handling", AsksForCode(w, "handling"))

\* Pointer events go to the page until the captcha is done.
HandlePointer(i) ==
  LET w == Handled(worker[i])
      e == Head(worker[i].batch)
  IN  /\ HasNext(i, Pointers)
      /\ Step(i, "handling",
              IF w.done \/ e = "move" THEN w ELSE [w EXCEPT !.down = e = "down"])

\* A slider missing that often does not come back.
GoneForGood(ticks) == ticks >= 2

\* When all events are handled, and unless the pointer is down, look whether the
\* slider is still there (not at every turn); when it is gone, the captcha is
\* done for good.
Look(i) ==
  LET w    == GoesOn(worker[i], "capturing")
      gone == w.page # "slider"
  IN
  /\ worker[i].batch = <<>>
  /\ \/ Step(i, "handling", w)
     \/ /\ ~w.done /\ ~w.down
        /\ \/ ~gone /\ Step(i, "handling", [w EXCEPT !.ticks = 0])
           \/ /\ gone /\ ~GoneForGood(w.ticks + 1)
              /\ Step(i, "handling", [w EXCEPT !.ticks = w.ticks + 1])
           \/ /\ gone /\ GoneForGood(w.ticks + 1)
              /\ Step(i, "handling",
                      Reports([w EXCEPT !.done = TRUE, !.ticks = 0],
                              [stage |-> "code_required"], "capturing"))

\* Until the captcha is done, capture_slider looks for the slider again (not at
\* every turn either) ...
Capture(i) ==
  \/ Step(i, "capturing", GoesOn(worker[i], "checking"))
  \/ /\ ~worker[i].done /\ worker[i].page = "slider"
     /\ Step(i, "capturing", GoesOn(worker[i], "shooting"))

\* ... and takes its picture.
Shoot(i) == Step(i, "shooting", Reports(worker[i], Picture(worker[i]), "checking"))

\* With a code submitted: logged in, a wrong code, or no answer yet.
Check(i) ==
  LET w == worker[i] IN
  Step(i, "checking",
       IF LoggedIn(w) THEN GoesOn(w, "saving")
       ELSE IF w.code /\ w.page = "wrong" THEN AsksForCode(w, "polling")
       ELSE GoesOn(w, "polling"))

\* An exception: the failure is reported and main() re-raises it.
Fail(i) == Step(i, "failing", Reports([worker[i] EXCEPT !.ok = FALSE], [stage |-> "failed"], "closing"))

\* The browser is closed, which may raise as well, and the process ends.
Exit(i) ==
  \/ Step(i, "closing", Dead(worker[i], worker[i].ok))
  \/ "exception" \in Faults /\ Step(i, "closing", Dead(worker[i], FALSE))

\* A Playwright call raises; the slider may never appear.
Raises(i) ==
  /\ \/ worker[i].pc = "arming" /\ worker[i].page # "slider"
     \/ /\ "exception" \in Faults
        /\ worker[i].pc \in {"arming", "handling", "shooting", "checking", "saving"}
  /\ Step(i, worker[i].pc, GoesOn(worker[i], "failing"))

\* The process is killed.
Crash(i) ==
  /\ "crash" \in Faults
  /\ worker[i].pc \notin {"absent", "exited"}
  /\ Step(i, worker[i].pc, Dead(worker[i], FALSE))

-----------------------------------------------------------------------------
(* RunningHub, the clock, the user and the workbench.                      *)

\* The dialog shows its slider; it takes it away, solved or not; it answers to a
\* code.
PageTurns(i) ==
  LET w == worker[i] IN
  \/ w.page = "loading" /\ Step(i, "arming", [w EXCEPT !.page = "slider"])
  \/ w.page = "slider" /\ w.armed /\ Step(i, w.pc, [w EXCEPT !.page = "form"])
  \/ w.page = "pending" /\ \E p \in {"in", "wrong"} : Step(i, w.pc, [w EXCEPT !.page = p])

\* A wrong variant: the process registered before is forgotten.
Registered_Never == FALSE

\* The account has a login process that still runs.
Registered == proc # 0 /\ worker[proc].pc # "exited"

\* POST /api/accounts/login: a new session and its worker, unless one runs.
Start(i) ==
  /\ worker[i].pc = "absent"
  /\ \A j \in Ids : j < i => worker[j].pc # "absent"
  /\ ~Registered
  /\ sess' = [id |-> i, stage |-> "starting", frame |-> "none", events |-> <<>>]
  /\ proc' = i
  /\ Becomes(i, NewWorker("opening"))
  /\ UNCHANGED <<late, ending, state, input>>

\* POST /api/accounts/login/pointer.
Pointer(e) ==
  /\ input < MaxInput
  /\ sess.id # 0
  /\ sess.stage = "slider"
  /\ sess' = [sess EXCEPT !.events = Enqueue(sess.events, e)]
  /\ input' = input + 1
  /\ UNCHANGED <<proc, worker, late, ending, state>>

\* POST /api/accounts/login/verify, in any stage.
Verify ==
  /\ input < MaxInput
  /\ Registered
  /\ sess.id # 0
  /\ sess' = SetStage([sess EXCEPT !.events = Enqueue(sess.events, "verify")], "verifying")
  /\ input' = input + 1
  /\ UNCHANGED <<proc, worker, late, ending, state>>

\* A wrong variant: a login that stopped or failed is taken for a success when
\* an older session file is still good.
Reaped_AnyCode(s, w) ==
  IF state /\ s.stage \notin {"completed", "failed"} THEN SetStage(s, "completed") ELSE s

\* What _reap_login_processes makes of a session whose worker w has ended.
Reaped(s, w) ==
  IF w.ok /\ state /\ s.stage \notin {"completed", "failed"} THEN SetStage(s, "completed")
  ELSE IF ~w.ok /\ s.stage \notin {"failed", "stopped"} THEN SetStage(s, "failed")
  ELSE s

\* GET /api/accounts reaps the worker that has ended.
Reap ==
  /\ proc # 0
  /\ worker[proc].pc = "exited"
  /\ proc' = 0
  /\ sess' = IF sess.id = proc THEN Reaped(sess, worker[proc]) ELSE sess
  /\ UNCHANGED <<worker, late, ending, state, input>>

\* The registered process, if any, is left to be ended; one ending at a time.
Unregisters(by) ==
  /\ by \in Faults
  /\ ending = {}
  /\ proc' = 0
  /\ ending' = {[id |-> proc, by |-> by]}

\* DELETE /api/accounts/<id> takes process and session out of the registries.
\* The stop event it queues goes to the session that nobody finds any more, so
\* that no worker ever fetches one.
Removal ==
  /\ Unregisters("removal")
  /\ sess' = NoSession
  /\ UNCHANGED <<worker, late, state, input>>

\* _shutdown_application takes the process out of its registry and stops the
\* session.  Requests are served until the program has ended.
Shutdown ==
  /\ Unregisters("shutdown")
  /\ sess' = IF sess.stage \in Ended THEN sess ELSE SetStage(sess, "stopped")
  /\ UNCHANGED <<worker, late, state, input>>

\* Then either ends the process, if it still runs; a removal deletes the profile.
EndWorker ==
  \E e \in ending :
    /\ ending' = ending \ {e}
    /\ worker' = IF e.id = 0 \/ worker[e.id].pc = "exited" THEN worker
                 ELSE [worker EXCEPT ![e.id] = Dead(worker[e.id], FALSE)]
    /\ state' = (state /\ e.by # "removal")
    /\ UNCHANGED <<sess, proc, late, input>>

-----------------------------------------------------------------------------
Init ==
  /\ sess = NoSession
  /\ proc = 0
  /\ worker = [i \in Ids |-> NewWorker("absent")]
  /\ late = {}
  /\ ending = {}
  /\ state \in BOOLEAN
  /\ input = 0

\* The steps a running worker process takes by itself.
Program(i) ==
  \/ Deliver(i) \/ Open(i) \/ Arm(i) \/ Snap(i) \/ Announce(i)
  \/ Overdue(i) \/ SeeLogin(i) \/ Poll(i)
  \/ HandleVerify(i) \/ HandlePointer(i)
  \/ Look(i) \/ Capture(i) \/ Shoot(i) \/ Check(i) \/ Save(i) \/ Fail(i) \/ Exit(i)
  \/ Raises(i)

Next ==
  \/ \E i \in Ids : \/ Program(i) \/ TimesOut(i) \/ Crash(i) \/ Start(i)
                    \/ PageTurns(i)
  \/ LateArrives
  \/ \E e \in Pointers : Pointer(e)
  \/ Verify
  \/ Reap
  \/ Removal \/ Shutdown \/ EndWorker

Spec == Init /\ [][Next]_vars

\* A process runs, one that looks at the clock again and again finds its time up,
\* and the workbench polls its accounts.
FairSpec ==
  /\ Spec
  /\ \A i \in Ids : WF_vars(Program(i)) /\ SF_vars(Overdue(i))
  /\ WF_vars(Reap)

-----------------------------------------------------------------------------
(* Properties.                                                             *)

\* Every variable keeps its type, and no queue of events outgrows its bound
\* (_queue_login_event_locked).
TypeOK ==
  /\ sess \in Session /\ Len(sess.events) <= MaxEvents
  /\ proc \in 0..MaxLogins
  /\ worker \in [Ids -> Worker]
  /\ late \subseteq [id: Ids, post: Posts]
  /\ ending \subseteq Endings
  /\ state \in BOOLEAN
  /\ input \in 0..MaxInput

\* A picture is kept only while the slider is being solved, whatever posts come
\* late and whatever workers come and go ("A captcha frame is meaningful only
\* while the official slider is active", server.py:513).
FrameNeedsSlider == sess.frame # "none" => sess.stage \in {"starting", "slider"}

\* A session the user sees completed has stored its login: no other worker's
\* report and no old session file makes it so (_reap_login_processes).
CompletedIsSaved == sess.stage = "completed" => worker[sess.id].saved

\* Every login process that runs is registered, or a removal or a shutdown is
\* about to end it: only then do two browsers work on one profile.
NoStrayWorker ==
  \A i \in Ids : worker[i].pc \notin {"absent", "exited"} =>
    i = proc \/ \E e \in ending : e.id = i

\* When the process of a session is found ended, the session is over as well, so
\* that the user is not left with a slider nobody reads (_reap_login_processes);
\* only a login that a removal has taken the saved session from may hang on.
ReapSettles ==
  [][proc # 0 /\ proc' = 0 /\ sess'.id = proc
       => sess'.stage \in Ended \/ (worker[proc].ok /\ ~state)]_vars

\* Every login process ends and is reaped: again and again none is left, and the
\* account can log in anew.
LoginEnds ==
  []<>(proc = 0 /\ \A i \in Ids : worker[i].pc \in {"absent", "exited"})
=============================================================================
