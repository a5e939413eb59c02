-------------------------- MODULE BrowserRunProofs ---------------------------
(***************************************************************************)
(* Proofs about one browser run, for any outputs, uploads, limits and      *)
(* faults of the page: its safety properties, that its work is bounded,    *)
(* and what the scheduler takes for granted about it.                      *)
(***************************************************************************)
EXTENDS BrowserRun, FiniteSetTheorems, WellFoundedInduction, TLAPS

USE BrowserAssumption

-----------------------------------------------------------------------------
(* How the actions move the worker: the fields the properties speak of.    *)

Turns(pc, then, result, page_, told, fail) ==
  /\ run' \in Worker
  /\ run'.pc = pc /\ run'.then = then /\ run'.result = result
  /\ run'.page = page_ /\ run'.told = told /\ run'.fail = fail

\* The worker goes on at pc and changes nothing else the properties speak of.
Steps(pc) == Turns(pc, run.then, run.result, run.page, run.told, run.fail)

\* The run ends with r.
Ends(r) == Turns("ended", run.then, r, FALSE, run.told, run.fail)

LEMMA GotoSteps ==
  ASSUME run \in Worker, NEW pc \in PCs, Goto(pc)
  PROVE  Steps(pc) /\ lock' = lock
BY DEF Goto, Steps, Turns, Worker

LEMMA FinishEnds ==
  ASSUME run \in Worker, NEW r \in Results, Finish(r)
  PROVE  Ends(r) /\ lock' = IF lock = "self" THEN "free" ELSE lock
<1>1. run' = [run EXCEPT !.pc = "ended", !.result = r, !.page = FALSE]
  BY DEF Finish
<1>2. run' \in Worker
  BY <1>1 DEF Worker, PCs
<1> QED
  BY <1>1, <1>2 DEF Finish, Release, Ends, Turns, Worker

LEMMA CancelCloudTurns ==
  ASSUME run \in Worker, NEW then \in {"cancelled", "completed"}, CancelCloud(then)
  PROVE  /\ Turns("cancel", then, run.result, run.page,
                  IF then = "cancelled" THEN TRUE ELSE run.told, run.fail)
         /\ lock' = lock
<1> DEFINE told == IF then = "cancelled" THEN TRUE ELSE run.told
<1>1. run' = [run EXCEPT !.pc = "cancel", !.then = then, !.told = told]
  BY DEF CancelCloud
<1>2. told \in BOOLEAN
  BY DEF Worker
<1> HIDE DEF told
<1>3. run' \in Worker
  BY <1>1, <1>2 DEF Worker, PCs
<1>4. Turns("cancel", then, run.result, run.page, told, run.fail)
  BY <1>1, <1>3 DEF Turns, Worker
<1> QED
  BY <1>4 DEF CancelCloud, told

LEMMA ReadTurns ==
  ASSUME run \in Worker, Read
  PROVE  \/ Turns("cancel", "again", run.result, run.page, run.told, run.fail)
         \/ run.fail = Grace /\ Steps("verdict")
         \/ \E fail \in -1..Grace :
              Turns("popups", run.then, run.result, run.page, run.told, fail)
<1>1. PICK card \in Cards, progress \in Progress :
       LET state == TaskState(card, progress)
           zero  == ZeroTimer(state, progress)
           seen  == [run EXCEPT !.last = state, !.zero = zero]
           later == [seen EXCEPT
                       !.left = run.left + IF state = "queued" /\ run.last = "queued"
                                           THEN 1 ELSE 0,
                       !.fail = FailureTimer(card)]
       IN  run' = IF zero = ZeroLimit /\ state = "running"
                  THEN GiveUp(seen)
                  ELSE IF card = "failed" /\ run.fail = Grace
                  THEN [later EXCEPT !.pc = "verdict"]
                  ELSE [later EXCEPT !.pc = "popups"]
  BY DEF Read
<1> DEFINE state == TaskState(card, progress)
           zero  == ZeroTimer(state, progress)
           seen  == [run EXCEPT !.last = state, !.zero = zero]
           left  == run.left + IF state = "queued" /\ run.last = "queued" THEN 1 ELSE 0
           fail  == FailureTimer(card)
           later == [seen EXCEPT !.left = left, !.fail = fail]
<1>2. /\ state \in {"none", "queued", "running", "failed"}
      /\ zero \in -1..ZeroLimit /\ left \in Int /\ fail \in -1..Grace
  BY DEF Worker, TaskState, ZeroTimer, FailureTimer, Cards, Progress
<1>3. card = "failed" /\ run.fail = Grace => fail = Grace
  BY DEF FailureTimer, Worker
<1>4. run' = IF zero = ZeroLimit /\ state = "running" THEN GiveUp(seen)
             ELSE IF card = "failed" /\ run.fail = Grace THEN [later EXCEPT !.pc = "verdict"]
             ELSE [later EXCEPT !.pc = "popups"]
  BY <1>1
<1> HIDE DEF state, zero, left, fail
<1>5. /\ seen \in Worker /\ seen.then = run.then /\ seen.result = run.result
      /\ seen.page = run.page /\ seen.told = run.told /\ seen.fail = run.fail
  BY <1>2 DEF Worker
<1> HIDE DEF seen
<1>6. /\ later \in Worker /\ later.then = run.then /\ later.result = run.result
      /\ later.page = run.page /\ later.told = run.told /\ later.fail = fail
  BY <1>2, <1>5 DEF Worker
<1> HIDE DEF later
<1>7. CASE run' = GiveUp(seen)
  <2>1. run' = [seen EXCEPT !.pc = "cancel", !.then = "again"]
    BY <1>7 DEF GiveUp
  <2>2. run' \in Worker
    BY <2>1, <1>5 DEF Worker, PCs
  <2> QED
    BY <2>1, <2>2, <1>5 DEF Turns, Worker
<1>8. CASE card = "failed" /\ run.fail = Grace /\ run' = [later EXCEPT !.pc = "verdict"]
  <2>1. run' \in Worker
    BY <1>8, <1>6 DEF Worker, PCs
  <2> QED
    BY <2>1, <1>8, <1>6, <1>3 DEF Steps, Turns, Worker
<1>9. CASE run' = [later EXCEPT !.pc = "popups"]
  <2>1. run' \in Worker
    BY <1>9, <1>6 DEF Worker, PCs
  <2> QED
    BY <2>1, <1>9, <1>6, <1>2 DEF Turns, Worker
<1> QED
  BY <1>4, <1>7, <1>8, <1>9

LEMMA WaitTurns ==
  ASSUME run \in Worker, Wait
  PROVE  \E fail \in -1..Grace :
           Turns("look", run.then, run.result, run.page, run.told, fail)
<1> DEFINE zero == Aged(run.zero, ZeroLimit)
           fail == Aged(run.fail, Grace)
<1>1. run' = [run EXCEPT !.pc = "look", !.left = run.left - 1, !.zero = zero, !.fail = fail]
  BY DEF Wait
<1>2. zero \in -1..ZeroLimit /\ fail \in -1..Grace /\ run.left - 1 \in Int
  BY DEF Aged, Worker
<1> HIDE DEF zero, fail
<1>3. run' \in Worker
  BY <1>1, <1>2 DEF Worker, PCs
<1> QED
  BY <1>1, <1>2, <1>3 DEF Turns, Worker

LEMMA SubmitTurns ==
  ASSUME run \in Worker, NEW left \in Int, NEW zero \in -1..ZeroLimit, NEW fail \in -1..Grace,
         run' = [run EXCEPT !.pc = "look", !.left = left, !.last = "none",
                            !.zero = zero, !.fail = fail]
  PROVE  Turns("look", run.then, run.result, run.page, run.told, fail)
<1>1. run' \in Worker
  BY DEF Worker, PCs
<1> QED
  BY <1>1 DEF Turns, Worker

LEMMA AttemptSteps ==
  ASSUME run \in Worker, run.attempt <= MaxRetries,
         run' = [run EXCEPT !.pc = "click", !.attempt = run.attempt + 1]
  PROVE  Steps("click")
<1>1. run.attempt + 1 \in 0..MaxRetries + 1
  BY DEF Worker
<1>2. run' \in Worker
  BY <1>1 DEF Worker, PCs
<1> QED
  BY <1>2 DEF Steps, Turns, Worker

\* What becomes of the worker and the lock: it goes on, ends, or calls for the
\* cancellation of the cloud task.
GoesTo(pc)  == Steps(pc) /\ lock' = lock
EndsWith(r) == Ends(r) /\ lock' = IF lock = "self" THEN "free" ELSE lock
Calls(then) ==
  /\ Turns("cancel", then, run.result, run.page,
           IF then = "cancelled" THEN TRUE ELSE run.told, run.fail)
  /\ lock' = lock

\* The end of _cancel_runninghub_task_from_sidebar.
Resumes == IF run.then = "again" THEN GoesTo("again") ELSE EndsWith(run.then)

\* Every step of the program, by the worker's moves.
Moves ==
  \/ /\ AtCheckpoint /\ cancelAt # "no"
     /\ IF run.page /\ ~run.told THEN Calls("cancelled") ELSE EndsWith("cancelled")
  \/ run.pc = "begin" /\ (GoesTo("launch") \/ EndsWith("invalid"))
  \/ /\ run.pc = "launch"
     /\ \/ /\ Turns("login", run.then, run.result, TRUE, run.told, run.fail)
           /\ lock' = lock
        \/ EndsWith("failed")
  \/ run.pc = "login" /\ (GoesTo("open") \/ EndsWith("failed"))
  \/ run.pc = "open" /\ (GoesTo("open") \/ GoesTo("prepare") \/ EndsWith("failed") \/ EndsWith("auth"))
  \/ run.pc = "prepare" /\ (GoesTo("position") \/ EndsWith("failed"))
  \/ run.pc = "position" /\ Steps("fit") /\ lock' = "self"
  \/ run.pc = "fit" /\ (GoesTo("upload") \/ EndsWith("failed"))
  \/ run.pc = "upload" /\ (GoesTo("upload") \/ EndsWith("failed") \/ EndsWith("auth"))
  \/ run.pc = "upload" /\ GoesTo("fill") /\ \A u \in Uploads : files[u] = "new"
  \/ /\ run.pc = "fill"
     /\ \/ Steps("baseline") /\ lock' = IF lock = "self" THEN "free" ELSE lock
        \/ EndsWith("failed")
  \/ run.pc = "baseline" /\ GoesTo("attempt")
  \/ run.pc = "attempt" /\ (GoesTo("click") \/ EndsWith("timeout"))
  \/ run.pc = "click" /\ Steps("submit") /\ lock' = "self"
  \/ /\ run.pc = "submit"
     /\ \/ /\ Turns("look", run.then, run.result, run.page, run.told, -1)
           /\ lock' = IF lock = "self" THEN "free" ELSE lock
        \/ EndsWith("failed")
  \/ run.pc = "look" /\ (GoesTo("save") \/ GoesTo("read") \/ EndsWith("timeout"))
  \/ /\ run.pc = "read" /\ lock' = lock
     /\ \/ Turns("cancel", "again", run.result, run.page, run.told, run.fail)
        \/ run.fail = Grace /\ Steps("verdict")
        \/ \E fail \in -1..Grace :
             Turns("popups", run.then, run.result, run.page, run.told, fail)
  \/ run.pc = "verdict" /\ (GoesTo("save") \/ EndsWith("failed"))
  \/ run.pc = "popups" /\ (GoesTo("wait") \/ GoesTo("again") \/ EndsWith("failed"))
  \/ /\ run.pc = "wait" /\ lock' = lock
     /\ \E fail \in -1..Grace :
          Turns("look", run.then, run.result, run.page, run.told, fail)
  \/ run.pc = "again" /\ (GoesTo("attempt") \/ EndsWith("timeout"))
  \/ run.pc = "save" /\ (Calls("completed") \/ EndsWith("failed") \/ EndsWith("auth"))
  \/ run.pc = "cancel" /\ (Resumes \/ GoesTo("confirm"))
  \/ run.pc = "confirm" /\ Resumes

LEMMA GotoGoes ==
  ASSUME run \in Worker
  PROVE  \A pc \in PCs : Goto(pc) => GoesTo(pc)
BY GotoSteps DEF GoesTo

LEMMA FinishGoes ==
  ASSUME run \in Worker
  PROVE  \A r \in Results : Finish(r) => EndsWith(r)
BY FinishEnds DEF EndsWith

LEMMA ResumeGoes == ASSUME run \in Worker, Resume PROVE Resumes
<1>1. run.then \in {"again", "cancelled", "completed"}
  BY DEF Worker
<1> QED
  BY <1>1, GotoGoes, FinishGoes DEF Resume, Resumes, PCs, Results

LEMMA ProgramMoves ==
  ASSUME run \in Worker, popup \in {"none", "oom", "fatal"}, Program \/ Acquire
  PROVE  Moves
<1>1. \A pc \in PCs : Goto(pc) => GoesTo(pc)
  BY GotoGoes
<1>2. \A r \in Results : Finish(r) => EndsWith(r)
  BY FinishGoes
<1> USE DEF At
<1>a. CASE NoticeCancel
  <2>1. CancelCloud("cancelled") => Calls("cancelled")
    BY CancelCloudTurns DEF Calls
  <2> QED
    BY <1>a, <1>2, <2>1 DEF NoticeCancel, Moves, Results
<1>b. CASE Begin
  BY <1>b, <1>1, <1>2 DEF Begin, Moves, PCs, Results
<1>c. CASE Launch
  <2>1. run' = [run EXCEPT !.pc = "login", !.page = TRUE] =>
          Turns("login", run.then, run.result, TRUE, run.told, run.fail)
    <3> SUFFICES ASSUME run' = [run EXCEPT !.pc = "login", !.page = TRUE]
                 PROVE  Turns("login", run.then, run.result, TRUE, run.told, run.fail)
      OBVIOUS
    <3>1. run' \in Worker
      BY DEF Worker, PCs
    <3> QED
      BY <3>1 DEF Turns, Worker
  <2> QED
    BY <1>c, <1>2, <2>1 DEF Launch, Moves, Results
<1>d. CASE Login
  BY <1>d, <1>1, <1>2 DEF Login, Moves, PCs, Results
<1>e. CASE OpenPost
  <2>1. run.tries + 1 < Navigations /\ run' = [run EXCEPT !.tries = run.tries + 1] =>
          (run.pc = "open" => Steps("open"))
    BY DEF Steps, Turns, Worker
  <2> QED
    BY <1>e, <1>1, <1>2, <2>1 DEF OpenPost, Moves, GoesTo, PCs, Results
<1>f. CASE Prepare
  BY <1>f, <1>1, <1>2 DEF Prepare, Moves, PCs, Results
<1>g. CASE Fit
  BY <1>g, <1>1, <1>2 DEF Fit, Moves, PCs, Results
<1>h. ASSUME NEW u \in Uploads, Upload(u) PROVE Moves
  <2>1. UNCHANGED <<run, lock>> => GoesTo(run.pc)
    BY DEF GoesTo, Steps, Turns
  <2> QED
    BY <1>h, <1>2, <2>1 DEF Upload, Direct, Moves, Results
<1>i. CASE UploadsDone
  BY <1>i, <1>1 DEF UploadsDone, Moves, PCs
<1>j. CASE FillIn
  <2>1. run' = [run EXCEPT !.pc = "baseline"] => Steps("baseline")
    BY DEF Steps, Turns, Worker, PCs
  <2> QED
    BY <1>j, <1>2, <2>1 DEF FillIn, Release, Moves, Results
<1>k. CASE TakeBaseline
  BY <1>k, <1>1 DEF TakeBaseline, Moves, PCs
<1>l. CASE StartAttempt
  BY <1>l, AttemptSteps DEF StartAttempt, Retrying, GoesTo, Moves
<1>m. CASE Submit
  <2>1. run' = [run EXCEPT !.pc = "look", !.left = Limit, !.last = "none",
                           !.zero = -1, !.fail = -1]
          => Turns("look", run.then, run.result, run.page, run.told, -1)
    <3>1. Limit \in Int /\ -1 \in -1..ZeroLimit /\ -1 \in -1..Grace
      OBVIOUS
    <3> QED
      BY <3>1, SubmitTurns
  <2> QED
    BY <1>m, <1>2, <2>1 DEF Submit, Release, Moves, Results
<1>n. CASE Look
  <2>1. Goto("save") \/ Goto("read")
    BY <1>n DEF Look
  <2> QED
    BY <1>n, <2>1, <1>1 DEF Look, Moves, PCs
<1>o. CASE Expire
  BY <1>o, <1>2 DEF Expire, Moves, Results
<1>p. CASE Read
  <2>1. lock' = lock /\ run.pc = "read"
    BY <1>p DEF Read
  <2> QED
    BY <1>p, <2>1, ReadTurns DEF Moves
<1>q. CASE Verdict
  <2>1. Goto("save") \/ Finish("failed")
    BY <1>q DEF Verdict
  <2> QED
    BY <1>q, <2>1, <1>1, <1>2 DEF Verdict, Moves, PCs, Results
<1>r. CASE Popups
  <2>1. Goto("wait") \/ Goto("again") \/ Finish("failed")
    BY <1>r DEF Popups
  <2> QED
    BY <1>r, <2>1, <1>1, <1>2 DEF Popups, Moves, PCs, Results
<1>s. CASE Wait
  BY <1>s, WaitTurns DEF Wait, Moves
<1>t. CASE Again
  BY <1>t, <1>1, <1>2 DEF Again, Moves, PCs, Results
<1>u. CASE Save
  <2>1. CancelCloud("completed") => Calls("completed")
    BY CancelCloudTurns DEF Calls
  <2> QED
    BY <1>u, <1>2, <2>1 DEF Save, Moves, Results
<1>v. CASE ClickCancel
  BY <1>v, <1>1, ResumeGoes DEF ClickCancel, Moves, PCs
<1>w. CASE Confirm
  BY <1>w, ResumeGoes DEF Confirm, Moves
<1>x. CASE Acquire
  <2>1. /\ run' = [run EXCEPT !.pc = "fit"] => Steps("fit")
        /\ run' = [run EXCEPT !.pc = "submit"] => Steps("submit")
    BY DEF Steps, Turns, Worker, PCs
  <2> QED
    BY <1>x, <2>1 DEF Acquire, Moves
<1> QED
  BY <1>a, <1>b, <1>c, <1>d, <1>e, <1>f, <1>g, <1>h, <1>i, <1>j, <1>k, <1>l, <1>m, <1>n,
     <1>o, <1>p, <1>q, <1>r, <1>s, <1>t, <1>u, <1>v, <1>w, <1>x DEF Program

-----------------------------------------------------------------------------
(* Types, and the way the worker has come.                                 *)

\* A worker that holds the lock while it cancels does so because it was told to;
\* it is told once, on an open page; it has no result before the end; and it
\* judges a failure only when the grace period is over.
PathInv ==
  /\ lock = "self" /\ run.pc \in {"cancel", "confirm"} => run.then = "cancelled"
  /\ run.told => run.pc = "ended" \/ (run.pc \in {"cancel", "confirm"} /\ run.then = "cancelled")
  /\ run.pc \notin {"begin", "launch", "ended"} => run.page
  /\ run.pc # "ended" => run.result = "none"
  /\ run.pc = "verdict" => run.fail = Grace

TypeInv == TypeOK /\ PathInv

LEMMA TypeInit == Init => TypeInv
<1> SUFFICES ASSUME Init PROVE TypeInv
  OBVIOUS
<1>1. run \in Worker
  BY DEF Init, Worker, PCs, Results
<1>2. PathInv
  BY DEF Init, PathInv
<1>3. {baseline, media} \subseteq [Outputs -> SUBSET (0..MaxRetries + 1)]
  BY DEF Init
<1>4. cloud \in [Attempts -> {"none", "queued", "running", "done", "failed", "cancelled"}]
  BY DEF Init
<1>5. files \in [Uploads -> {"none", "old", "new"}]
  BY DEF Init
<1>6. /\ lock = "free" /\ cancelAt = "no" /\ popup = "none" /\ dialog \in 0..MaxRetries + 1
      /\ missed = FALSE
  BY DEF Init
<1> QED
  BY <1>1, <1>2, <1>3, <1>4, <1>5, <1>6 DEF TypeInv, TypeOK

LEMMA MovesKeepPath ==
  ASSUME TypeInv, Moves
  PROVE  /\ run' \in Worker /\ PathInv' /\ lock' \in {"free", "self", "other"}
         /\ lock' = "self" =>
              run'.pc \in {"fit", "upload", "fill", "submit", "cancel", "confirm"}
<1> USE DEF GoesTo, EndsWith, Calls, Resumes, Steps, Ends, Turns
<1>1. /\ run \in Worker /\ lock \in {"free", "self", "other"} /\ PathInv
      /\ lock = "self" => run.pc \in {"fit", "upload", "fill", "submit", "cancel", "confirm"}
      /\ run.pc \in PCs /\ run.then \in {"again", "cancelled", "completed"}
      /\ run.result \in Results
  BY DEF TypeInv, TypeOK, Worker
<1>2. run' \in Worker
  BY DEF Moves
<1>3. lock' \in {"free", "self", "other"}
  BY <1>1 DEF Moves
<1>4. lock' = "self" =>
        run'.pc \in {"fit", "upload", "fill", "submit", "cancel", "confirm"}
  BY <1>1 DEF Moves, AtCheckpoint, Checkpoints, PathInv
<1>5. (lock = "self" /\ run.pc \in {"cancel", "confirm"} => run.then = "cancelled")'
  BY <1>1 DEF Moves, AtCheckpoint, Checkpoints, PathInv
<1>6. (run.told => run.pc = "ended" \/ (run.pc \in {"cancel", "confirm"} /\ run.then = "cancelled"))'
  BY <1>1 DEF Moves, AtCheckpoint, Checkpoints, PathInv
<1>7. (run.pc \notin {"begin", "launch", "ended"} => run.page)'
  BY <1>1 DEF Moves, AtCheckpoint, Checkpoints, PathInv
<1>8. (run.pc # "ended" => run.result = "none")'
  BY <1>1 DEF Moves, AtCheckpoint, Checkpoints, PathInv
<1>9. (run.pc = "verdict" => run.fail = Grace)'
  BY <1>1 DEF Moves, AtCheckpoint, Checkpoints, PathInv
<1> QED
  BY <1>2, <1>3, <1>4, <1>5, <1>6, <1>7, <1>8, <1>9 DEF PathInv

\* The other variables by their types, whoever takes the step.
PageType ==
  /\ files \in [Uploads -> {"none", "old", "new"}]
  /\ {baseline, media} \subseteq [Outputs -> SUBSET (0..MaxRetries + 1)]
  /\ cancelAt \in PCs \cup {"no"}
  /\ cloud \in [Attempts -> {"none", "queued", "running", "done", "failed", "cancelled"}]
  /\ popup \in {"none", "oom", "fatal"}
  /\ dialog \in 0..MaxRetries + 1
  /\ missed \in BOOLEAN

\* Of some attempts one is the newest.
LEMMA Greatest ==
  ASSUME NEW S \in SUBSET Attempts, S # {}
  PROVE  \E m \in S : \A k \in S : k <= m
<1> DEFINE Age(k) == MaxRetries + 1 - k
           Ages   == {Age(k) : k \in S}
           Less   == {p \in Nat \X Nat : p[1] < p[2]}
<1>1. \A k \in S : k \in Nat /\ Age(k) \in Nat
  BY DEF Attempts
<1>2. Ages \subseteq Nat /\ Ages # {}
  BY <1>1
<1>3. IsWellFoundedOn(Less, Nat)
  BY NatLessThanWellFounded DEF OpToRel
<1> HIDE DEF Less
<1>4. PICK a \in Ages : \A b \in Ages : <<b, a>> \notin Less
  BY <1>2, <1>3, WFMin
<1>5. PICK m \in S : a = Age(m)
  BY <1>4
<1>6. \A k \in S : ~(Age(k) < Age(m))
  BY <1>1, <1>4, <1>5 DEF Less
<1>7. \A k \in S : k <= m
  BY <1>1, <1>6
<1> QED BY <1>7

LEMMA NewestActive == Active # {} => Newest(Active) \in Active /\ Active \subseteq Attempts
<1>1. Active \in SUBSET Attempts
  BY DEF Active
<1> QED
  BY <1>1, Greatest DEF Newest

LEMMA PageStep ==
  ASSUME TypeInv, [Next]_vars
  PROVE  PageType'
<1> USE DEF TypeInv, TypeOK, PageType, page
<1>1. ASSUME UNCHANGED <<files, baseline, cancelAt, page, missed>> PROVE PageType'
  BY <1>1
<1>2. ASSUME UNCHANGED <<lock, files, baseline, cancelAt, page, missed>> PROVE PageType'
  BY <1>2
<1> HIDE DEF page
<1>a. CASE NoticeCancel \/ Begin \/ Launch \/ Login \/ OpenPost \/ Prepare \/ Fit \/ UploadsDone
           \/ FillIn \/ StartAttempt \/ Look \/ Expire \/ Read \/ Verdict \/ Wait \/ Again \/ Save
           \/ Acquire \/ OtherRun
  BY <1>a, <1>1, <1>2
     DEF NoticeCancel, Begin, Launch, Login, OpenPost, Prepare, Fit, UploadsDone, FillIn,
         StartAttempt, Look, Expire, Read, Verdict, Wait, Again, Save, Acquire, OtherRun
<1> USE DEF page
<1>b. ASSUME NEW u \in Uploads, Upload(u) PROVE PageType'
  <2>1. files' = files \/ files' = [files EXCEPT ![u] = "new"]
    BY <1>b DEF Upload, Direct
  <2>2. files' \in [Uploads -> {"none", "old", "new"}]
    BY <2>1
  <2> QED
    BY <1>b, <2>2 DEF Upload
<1>c. CASE TakeBaseline
  <2>1. baseline' \in [Outputs -> SUBSET (0..MaxRetries + 1)]
    BY <1>c DEF TakeBaseline, Fingerprints
  <2> QED
    BY <1>c, <2>1 DEF TakeBaseline
<1>d. CASE Submit
  <2>1. /\ cloud' = [cloud EXCEPT ![run.attempt] = "queued"] \/ cloud' = cloud
        /\ popup' \in {"none", popup} /\ missed' \in {missed, missed \/ popup' # "none"}
        /\ UNCHANGED <<files, baseline, cancelAt, media, dialog>>
    BY <1>d DEF Submit
  <2> QED
    BY <2>1
<1>e. CASE Popups
  BY <1>e DEF Popups
<1>f. CASE ClickCancel
  <2>1. /\ missed' = missed \/ missed' = (missed \/ Active # {})
        /\ UNCHANGED <<files, baseline, cancelAt, media, popup>>
        /\ \/ UNCHANGED <<cloud, dialog>>
           \/ Active # {} /\ CloudCancelled(Newest(Active)) /\ UNCHANGED dialog
           \/ Active # {} /\ dialog' = Newest(Active) /\ UNCHANGED cloud
    BY <1>f DEF ClickCancel
  <2>2. cloud' \in [Attempts -> {"none", "queued", "running", "done", "failed", "cancelled"}]
    BY <2>1 DEF CloudCancelled
  <2>3. dialog' \in 0..MaxRetries + 1
    BY <2>1, NewestActive DEF Attempts
  <2> QED
    BY <2>1, <2>2, <2>3
<1>g. CASE Confirm
  <2>1. cloud' \in [Attempts -> {"none", "queued", "running", "done", "failed", "cancelled"}]
    BY <1>g DEF Confirm, CloudCancelled
  <2>2. dialog' = 0 /\ missed' \in BOOLEAN /\ UNCHANGED <<files, baseline, cancelAt, media, popup>>
    BY <1>g DEF Confirm
  <2> QED
    BY <2>1, <2>2
<1>h. CASE WatcherCancels
  BY <1>h DEF WatcherCancels
<1>i. CASE RequestCancel
  BY <1>i DEF RequestCancel, Worker
<1>j. ASSUME NEW k \in Attempts, CloudWorks(k) PROVE PageType'
  <2>1. /\ UNCHANGED <<files, baseline, cancelAt, dialog, missed>>
        /\ cloud' = cloud \/ \E c \in {"running", "done", "failed"} : cloud' = [cloud EXCEPT ![k] = c]
        /\ media' = media \/ \E o \in Outputs : media' = [media EXCEPT ![o] = media[o] \cup {k}]
        /\ popup' \in {popup, "oom", "fatal"}
    BY <1>j DEF CloudWorks
  <2>2. cloud' \in [Attempts -> {"none", "queued", "running", "done", "failed", "cancelled"}]
    BY <2>1
  <2>3. media' \in [Outputs -> SUBSET (0..MaxRetries + 1)]
    BY <2>1 DEF Attempts
  <2> QED
    BY <2>1, <2>2, <2>3
<1>k. CASE UNCHANGED vars
  BY <1>k DEF vars
<1> QED
  BY <1>a, <1>b, <1>c, <1>d, <1>e, <1>f, <1>g, <1>h, <1>i, <1>j, <1>k DEF Next, Program

\* The steps of the others leave the worker where it is.
LEMMA OthersWait ==
  ASSUME TypeInv, [Next]_vars
  PROVE  \/ Program \/ Acquire
         \/ run' = run /\ (lock' = lock \/ lock' \in {"free", "other"})
BY DEF Next, WatcherCancels, RequestCancel, OtherRun, CloudWorks, vars

LEMMA TypeStep == TypeInv /\ [Next]_vars => TypeInv'
<1> SUFFICES ASSUME TypeInv, [Next]_vars PROVE TypeInv'
  OBVIOUS
<1>1. PageType'
  BY PageStep
<1>2. CASE Program \/ Acquire
  <2>1. Moves
    BY <1>2, ProgramMoves DEF TypeInv, TypeOK
  <2> QED
    BY <2>1, <1>1, MovesKeepPath DEF TypeInv, TypeOK, PageType
<1>3. CASE run' = run /\ (lock' = lock \/ lock' \in {"free", "other"})
  BY <1>1, <1>3 DEF TypeInv, TypeOK, PageType, PathInv
<1> QED
  BY <1>2, <1>3, OthersWait

\* Every variable keeps its type, and _upload_lock is only ever held by a worker
\* that prepares the canvas or clicks Run, or that was cancelled meanwhile.
THEOREM TypeCorrect == Spec => []TypeOK
<1>1. TypeInv => TypeOK
  BY DEF TypeInv
<1> QED
  BY <1>1, TypeInit, TypeStep, PTL DEF Spec

-----------------------------------------------------------------------------
(* The inputs.                                                             *)

AllNew == \A u \in Uploads : files[u] = "new"

\* Where the worker is between the uploads and the end of the run.
Filled ==
  \/ run.pc \in {"fill", "baseline", "attempt", "click", "submit", "look", "read", "verdict",
                 "popups", "wait", "again", "save"}
  \/ run.pc \in {"cancel", "confirm"} /\ run.then = "again"

FilesInv == (Filled => AllNew) /\ InputsAreNew

\* A file once uploaded is not replaced by an old one.
LEMMA FilesStayNew ==
  ASSUME TypeInv, [Next]_vars, AllNew
  PROVE  AllNew'
<1>1. files \in [Uploads -> {"none", "old", "new"}]
  BY DEF TypeInv, TypeOK
<1>2. ASSUME NEW u \in Uploads, Upload(u) PROVE AllNew'
  <2>1. files' = files \/ files' = [files EXCEPT ![u] = "new"]
    BY <1>2 DEF Upload, Direct
  <2> QED
    BY <1>1, <2>1 DEF AllNew
<1>3. CASE UNCHANGED files
  BY <1>3 DEF AllNew
<1>4. UNCHANGED files \/ \E u \in Uploads : Upload(u)
  BY DEF Next, Program, NoticeCancel, Begin, Launch, Login, OpenPost, Prepare, Fit, UploadsDone,
         FillIn, TakeBaseline, StartAttempt, Submit, Look, Expire, Read, Verdict, Popups, Wait,
         Again, Save, ClickCancel, Confirm, Acquire, WatcherCancels, RequestCancel, OtherRun,
         CloudWorks, vars
<1> QED
  BY <1>2, <1>3, <1>4

\* Only the click on Run makes a task of an attempt that had none.
LEMMA OnlySubmitCreates ==
  ASSUME TypeInv, [Next]_vars
  PROVE  run.pc = "submit" \/ \A k \in Attempts : cloud[k] = "none" => cloud'[k] = "none"
<1>1. cloud \in [Attempts -> {"none", "queued", "running", "done", "failed", "cancelled"}]
  BY DEF TypeInv, TypeOK
<1>2. CASE UNCHANGED cloud
  BY <1>2
<1>3. ASSUME NEW k \in Attempts, cloud[k] # "none", NEW c, cloud' = [cloud EXCEPT ![k] = c]
      PROVE  \A j \in Attempts : cloud[j] = "none" => cloud'[j] = "none"
  BY <1>1, <1>3
<1>4. CASE Submit
  BY <1>4 DEF Submit, At
<1>5. CASE ClickCancel
  <2>1. UNCHANGED cloud \/ (Active # {} /\ cloud' = [cloud EXCEPT ![Newest(Active)] = "cancelled"])
    BY <1>5 DEF ClickCancel, CloudCancelled
  <2>2. Active # {} => Newest(Active) \in Attempts /\ cloud[Newest(Active)] # "none"
    BY NewestActive DEF Active
  <2> QED
    BY <1>2, <1>3, <2>1, <2>2
<1>6. CASE Confirm
  <2>1. UNCHANGED cloud \/ (dialog \in Active /\ cloud' = [cloud EXCEPT ![dialog] = "cancelled"])
    BY <1>6 DEF Confirm, CloudCancelled
  <2>2. dialog \in Active => dialog \in Attempts /\ cloud[dialog] # "none"
    BY DEF Active
  <2> QED
    BY <1>2, <1>3, <2>1, <2>2
<1>7. ASSUME NEW k \in Attempts, CloudWorks(k)
      PROVE  \A j \in Attempts : cloud[j] = "none" => cloud'[j] = "none"
  <2>1. UNCHANGED cloud \/ (cloud[k] # "none" /\ \E c \in {"running", "done", "failed"} :
                              cloud' = [cloud EXCEPT ![k] = c])
    BY <1>7 DEF CloudWorks, Active
  <2> QED
    BY <1>2, <1>3, <2>1
<1>8. \/ UNCHANGED cloud \/ Submit \/ ClickCancel \/ Confirm
      \/ \E k \in Attempts : CloudWorks(k)
  BY DEF Next, Program, NoticeCancel, Begin, Launch, Login, OpenPost, Prepare, Fit, Upload,
         UploadsDone, FillIn, TakeBaseline, StartAttempt, Look, Expire, Read, Verdict, Popups,
         Wait, Again, Save, Acquire, WatcherCancels, RequestCancel, OtherRun, vars, page
<1> QED
  BY <1>2, <1>4, <1>5, <1>6, <1>7, <1>8

LEMMA FilesStep == TypeInv /\ FilesInv /\ [Next]_vars => FilesInv'
<1> SUFFICES ASSUME TypeInv, FilesInv, [Next]_vars PROVE FilesInv'
  OBVIOUS
<1>1. AllNew => AllNew'
  BY FilesStayNew
<1>2. Filled' => AllNew'
  <2>1. CASE Program \/ Acquire
    <3>1. Moves
      BY <2>1, ProgramMoves DEF TypeInv, TypeOK
    <3>2. run.then \in {"again", "cancelled", "completed"}
      BY DEF TypeInv, TypeOK, Worker
    <3>3. Filled' => Filled \/ AllNew
      BY <3>1, <3>2 DEF Moves, Filled, AllNew, GoesTo, EndsWith, Calls, Resumes, Steps, Ends,
                        Turns, AtCheckpoint, Checkpoints
    <3> QED
      BY <1>1, <3>3 DEF FilesInv
  <2>2. CASE run' = run
    BY <1>1, <2>2 DEF FilesInv, Filled
  <2> QED
    BY <2>1, <2>2, OthersWait
<1>3. InputsAreNew'
  <2>1. CASE run.pc = "submit"
    BY <1>1, <2>1 DEF FilesInv, Filled, InputsAreNew, AllNew
  <2>2. CASE \A k \in Attempts : cloud[k] = "none" => cloud'[k] = "none"
    BY <1>1, <2>2 DEF FilesInv, InputsAreNew, AllNew
  <2> QED
    BY <2>1, <2>2, OnlySubmitCreates
<1> QED
  BY <1>2, <1>3 DEF FilesInv

\* No click on Run pays for a task while an upload node still holds a file of an
\* earlier run, in whatever order uploads fail and are repeated (_upload_one,
\* browser.py:1305): all files are new from the end of the uploads to the end of
\* the run, also when the worker comes back for another attempt.
THEOREM InputsAreAlwaysNew == Spec => []InputsAreNew
<1>1. Init => FilesInv
  BY DEF Init, FilesInv, Filled, InputsAreNew, Attempts
<1>2. FilesInv => InputsAreNew
  BY DEF FilesInv
<1> QED
  BY <1>1, <1>2, TypeInit, TypeStep, FilesStep, PTL DEF Spec

-----------------------------------------------------------------------------
(* The cloud.                                                              *)

\* Where the worker has not yet started a task, or has done with the last one.
Alone ==
  run.pc \in {"begin", "launch", "login", "open", "prepare", "position", "fit", "upload", "fill",
              "baseline", "attempt", "click", "submit", "again"}

OneActive == \A j, k \in Active : j = k

\* As long as nothing was missed there is one task at most, and none where the
\* worker goes on to the next attempt, where a popup reports a failure, or after
\* the end; and the dialog is about the one there is.
CloudInv ==
  \/ missed
  \/ /\ OneActive
     /\ Alone => Active = {}
     /\ popup # "none" => Active = {}
     /\ run.pc = "confirm" /\ dialog # 0 => Active \subseteq {dialog}
     /\ run.result \in {"completed", "cancelled"} => Active = {}

CloudType == [Attempts -> {"none", "queued", "running", "done", "failed", "cancelled"}]

LEMMA Ceases ==
  ASSUME cloud \in CloudType, NEW k \in Attempts, NEW c, c \notin {"queued", "running"},
         cloud' = [cloud EXCEPT ![k] = c]
  PROVE  Active' = Active \ {k}
BY DEF CloudType, Active

LEMMA SubmitCloud == TypeInv /\ CloudInv /\ Submit => CloudInv'
<1> SUFFICES ASSUME TypeInv, CloudInv, Submit, ~missed' PROVE CloudInv'
  BY DEF CloudInv
<1>1. run \in Worker /\ cloud \in CloudType /\ missed \in BOOLEAN /\ PathInv
  BY DEF TypeInv, TypeOK, CloudType
<1>2. /\ run.pc = "submit" /\ ~missed
      /\ \/ cloud' = [cloud EXCEPT ![run.attempt] = "queued"] /\ popup' = "none"
         \/ cloud' = cloud /\ popup' = popup
    BY <1>1 DEF Submit, At
<1>3. Active = {} /\ OneActive
  BY <1>2 DEF CloudInv, Alone
<1>4. Active' \subseteq {run.attempt}
  BY <1>1, <1>2, <1>3 DEF Active, CloudType
<1>5. popup' # "none" => Active' = {}
  BY <1>2, <1>3 DEF CloudInv, Active
<1>6. \/ Steps("look")
      \/ run'.pc \in {"look", "ended"} /\ run'.result \in {"none", "failed"}
  <2>1. Moves
    BY ProgramMoves DEF Program, TypeInv, TypeOK
  <2> QED
    BY <1>1, <1>2, <2>1 DEF PathInv, Moves, AtCheckpoint, Checkpoints, EndsWith, Ends, Turns
<1> QED
  BY <1>1, <1>2, <1>4, <1>5, <1>6 DEF CloudInv, OneActive, Alone, PathInv, Steps, Turns

\* Where no task is left, nothing else about the cloud matters.
LEMMA NoneLeft == Active' = {} => CloudInv'
BY DEF CloudInv, OneActive

LEMMA CancelCloudInv == TypeInv /\ CloudInv /\ ClickCancel => CloudInv'
<1> SUFFICES ASSUME TypeInv, CloudInv, ClickCancel, ~missed' PROVE CloudInv'
  BY DEF CloudInv
<1>1. run \in Worker /\ cloud \in CloudType /\ missed \in BOOLEAN /\ PathInv
  BY DEF TypeInv, TypeOK, CloudType
<1>2. ~missed /\ run.pc = "cancel"
  BY <1>1 DEF ClickCancel, At
<1>3. OneActive
  BY <1>2 DEF CloudInv
<1>4. CASE Active = {} /\ UNCHANGED cloud
  BY <1>4, NoneLeft DEF Active
<1>5. CASE Active # {} /\ CloudCancelled(Newest(Active))
  BY <1>1, <1>3, <1>5, NewestActive, NoneLeft, Ceases DEF CloudCancelled, OneActive
<1>6. CASE Active # {} /\ dialog' = Newest(Active) /\ Goto("confirm") /\ UNCHANGED <<cloud, popup>>
  <2>1. Steps("confirm")
    BY <1>1, <1>6, GotoSteps DEF PCs
  <2>2. Active' = Active /\ Active' \subseteq {dialog'}
    BY <1>3, <1>6, NewestActive DEF Active, OneActive
  <2> QED
    BY <1>1, <1>2, <1>3, <1>6, <2>1, <2>2
       DEF CloudInv, OneActive, Alone, PathInv, Steps, Turns
<1> QED
  BY <1>1, <1>4, <1>5, <1>6 DEF ClickCancel

LEMMA ConfirmCloud == TypeInv /\ CloudInv /\ Confirm => CloudInv'
<1> SUFFICES ASSUME TypeInv, CloudInv, Confirm, ~missed' PROVE CloudInv'
  BY DEF CloudInv
<1>1. cloud \in CloudType /\ missed \in BOOLEAN
  BY DEF TypeInv, TypeOK, CloudType
<1>2. ~missed /\ run.pc = "confirm" /\ dialog # 0
  BY <1>1 DEF Confirm, At
<1>3. Active \subseteq {dialog}
  BY <1>2 DEF CloudInv
<1>4. CASE dialog \in Active
  <2>1. cloud' = [cloud EXCEPT ![dialog] = "cancelled"] /\ dialog \in Attempts
    BY <1>4 DEF Confirm, CloudCancelled, Active
  <2> QED
    BY <1>1, <1>3, <2>1, Ceases, NoneLeft
<1>5. CASE dialog \notin Active
  BY <1>3, <1>5, NoneLeft DEF Confirm, Active
<1> QED
  BY <1>4, <1>5

LEMMA PopupsCloud == TypeInv /\ CloudInv /\ Popups => CloudInv'
<1> SUFFICES ASSUME TypeInv, CloudInv, Popups, ~missed' PROVE CloudInv'
  BY DEF CloudInv
<1>1. /\ run \in Worker /\ missed \in BOOLEAN /\ PathInv
      /\ popup \in {"none", "oom", "fatal"}
  BY DEF TypeInv, TypeOK
<1>2. /\ ~missed /\ run.pc = "popups" /\ popup' = "none" /\ UNCHANGED cloud
      /\ Goto("wait") \/ (popup # "none" /\ Goto("again")) \/ Finish("failed")
  BY <1>1 DEF Popups, At
<1>3. Active' = Active
  BY <1>2 DEF Active
<1>4. Steps("wait") \/ (popup # "none" /\ Steps("again")) \/ Ends("failed")
  BY <1>1, <1>2, GotoSteps, FinishEnds DEF PCs, Results
<1> QED
  BY <1>1, <1>2, <1>3, <1>4
     DEF CloudInv, OneActive, Alone, PathInv, Steps, Ends, Turns

LEMMA WorksCloud ==
  ASSUME TypeInv, CloudInv, NEW k \in Attempts, CloudWorks(k)
  PROVE  CloudInv'
<1> SUFFICES ASSUME ~missed PROVE CloudInv'
  BY DEF CloudInv, CloudWorks
<1>1. cloud \in CloudType
  BY DEF TypeInv, TypeOK, CloudType
<1>2. OneActive
  BY DEF CloudInv
<1>3. CASE k \in Active /\ cloud' = [cloud EXCEPT ![k] = "failed"]
  BY <1>1, <1>2, <1>3, Ceases, NoneLeft DEF OneActive
<1>4. CASE Active' \subseteq Active /\ UNCHANGED popup
  BY <1>2, <1>4 DEF CloudWorks, CloudInv, OneActive, Alone
<1>5. \/ k \in Active /\ cloud' = [cloud EXCEPT ![k] = "failed"]
      \/ Active' \subseteq Active /\ UNCHANGED popup
  BY <1>1 DEF CloudWorks, CloudType, Active
<1> QED
  BY <1>3, <1>4, <1>5

\* The steps that leave the page alone.
LEMMA QuietCloud ==
  ASSUME TypeInv, CloudInv, UNCHANGED <<cloud, popup, missed>>,
         \/ run' = run /\ dialog' \in {0, dialog}
         \/ Moves /\ run.pc \notin {"submit", "popups", "cancel", "confirm"}
  PROVE  CloudInv'
<1> SUFFICES ASSUME ~missed PROVE CloudInv'
  BY DEF CloudInv
<1>1. Active' = Active
  BY DEF Active
<1>2. CASE run' = run /\ dialog' \in {0, dialog}
  BY <1>1, <1>2 DEF CloudInv, OneActive, Alone
<1>3. CASE Moves /\ run.pc \notin {"submit", "popups", "cancel", "confirm"}
  <2> USE DEF GoesTo, EndsWith, Calls, Resumes, Steps, Ends, Turns, AtCheckpoint, Checkpoints
  <2>1. PathInv
    BY DEF TypeInv
  <2>2. Alone' => Alone
    BY <1>3 DEF Moves, Alone
  <2>3. run'.pc # "confirm"
    BY <1>3 DEF Moves
  <2>4. run'.result \in {"completed", "cancelled"} => Alone \/ run.result \in {"completed", "cancelled"}
    BY <1>3, <2>1 DEF Moves, Alone, PathInv
  <2> QED
    BY <1>1, <2>2, <2>3, <2>4 DEF CloudInv, OneActive
<1> QED
  BY <1>2, <1>3

LEMMA CloudStep == TypeInv /\ CloudInv /\ [Next]_vars => CloudInv'
<1> SUFFICES ASSUME TypeInv, CloudInv, [Next]_vars PROVE CloudInv'
  OBVIOUS
<1>1. CASE NoticeCancel \/ Begin \/ Launch \/ Login \/ OpenPost \/ Prepare \/ Fit \/ UploadsDone
           \/ FillIn \/ TakeBaseline \/ StartAttempt \/ Look \/ Expire \/ Read \/ Verdict \/ Wait
           \/ Again \/ Save \/ Acquire \/ \E u \in Uploads : Upload(u)
  <2>1. Moves
    BY <1>1, ProgramMoves DEF Program, TypeInv, TypeOK
  <2>2. UNCHANGED <<cloud, popup, missed>> /\ run.pc \notin {"submit", "popups", "cancel", "confirm"}
    BY <1>1 DEF NoticeCancel, Begin, Launch, Login, OpenPost, Prepare, Fit, UploadsDone, FillIn,
         TakeBaseline, StartAttempt, Look, Expire, Read, Verdict, Wait, Again, Save, Acquire,
         Upload, At, AtCheckpoint, Checkpoints, page
  <2> QED
    BY <2>1, <2>2, QuietCloud
<1>2. CASE WatcherCancels \/ RequestCancel \/ OtherRun \/ UNCHANGED vars
  <2>1. UNCHANGED <<cloud, popup, missed, run>> /\ dialog' \in {0, dialog}
    BY <1>2 DEF WatcherCancels, RequestCancel, OtherRun, vars, page
  <2> QED
    BY <2>1, QuietCloud
<1> QED
  BY <1>1, <1>2, SubmitCloud, CancelCloudInv, ConfirmCloud, PopupsCloud, WorksCloud
     DEF Next, Program

LEMMA CloudInit == Init => CloudInv
<1> SUFFICES ASSUME Init PROVE CloudInv
  OBVIOUS
<1>1. Active = {}
  BY DEF Init, Active
<1> QED
  BY <1>1 DEF Init, CloudInv, OneActive

\* A retry is not started beside the task it replaces, unless a popup was not
\* closed or a cancellation not confirmed (the retry loop, browser.py:4021),
\* whatever the page shows and however often the run is repeated.
THEOREM AttemptsDoNotOverlap == Spec => []OneCloudTask
<1>1. TypeInv /\ CloudInv => OneCloudTask
  <2> SUFFICES ASSUME TypeInv, ~missed, OneActive PROVE Cardinality(Active) <= 1
    BY DEF CloudInv, OneCloudTask
  <2>1. CASE Active = {}
    BY <2>1, FS_EmptySet
  <2>2. ASSUME NEW k \in Active PROVE Cardinality(Active) <= 1
    <3>1. Active = {k}
      BY <2>2 DEF OneActive
    <3> QED
      BY <3>1, FS_Singleton
  <2> QED
    BY <2>1, <2>2
<1> QED
  BY <1>1, TypeInit, TypeStep, CloudInit, CloudStep, PTL DEF Spec

\* A run that ends with its result or is cancelled leaves no task in the cloud
\* behind, with the same proviso (browser.py:4284).
THEOREM CloudIsAlwaysReleased == Spec => []CloudIsReleased
<1>1. CloudInv => CloudIsReleased
  BY DEF CloudInv, CloudIsReleased
<1> QED
  BY <1>1, TypeInit, TypeStep, CloudInit, CloudStep, PTL DEF Spec

-----------------------------------------------------------------------------
(* The result.                                                             *)

\* The worker has decided that the run has a result.
Judged ==
  \/ run.pc = "save"
  \/ run.pc \in {"cancel", "confirm"} /\ run.then = "completed"
  \/ run.result = "completed"

\* The baseline holds what was there from before.
BaselineRead == \A o \in Outputs : 0 \in media[o] => 0 \in baseline[o]

\* The media of every output come from this run, or of some if it failed.
Own ==
  IF run.fail < Grace THEN \A o \in Outputs : media[o] \ {0} # {}
                      ELSE \E o \in Outputs : media[o] \ {0} # {}

OwnInv == Judged => (BaselineRead => Own)

\* Media stay, and none from before is added.
LEMMA MediaGrow ==
  ASSUME TypeInv, [Next]_vars
  PROVE  \A o \in Outputs : media[o] \subseteq media'[o] /\ (0 \in media'[o] => 0 \in media[o])
<1>1. CASE UNCHANGED media
  BY <1>1
<1>2. ASSUME NEW k \in Attempts, CloudWorks(k)
      PROVE  \A o \in Outputs : media[o] \subseteq media'[o] /\ (0 \in media'[o] => 0 \in media[o])
  <2>1. media \in [Outputs -> SUBSET (0..MaxRetries + 1)] /\ k # 0
    BY DEF TypeInv, TypeOK, Attempts
  <2>2. UNCHANGED media \/ \E o \in Outputs : media' = [media EXCEPT ![o] = media[o] \cup {k}]
    BY <1>2 DEF CloudWorks
  <2> QED
    BY <2>1, <2>2
<1>3. UNCHANGED media \/ \E k \in Attempts : CloudWorks(k)
  BY DEF Next, Program, NoticeCancel, Begin, Launch, Login, OpenPost, Prepare, Fit, Upload,
         UploadsDone, FillIn, TakeBaseline, StartAttempt, Submit, Look, Expire, Read, Verdict,
         Popups, Wait, Again, Save, ClickCancel, Confirm, Acquire, WatcherCancels, RequestCancel,
         OtherRun, vars, page
<1> QED
  BY <1>1, <1>2, <1>3

\* What _output_media_fingerprints shows to be new is of this run.
LEMMA NewIsOwn ==
  ASSUME BaselineRead, NEW now \in Fingerprints, NEW o \in Outputs, Gained(now, o)
  PROVE  media[o] \ {0} # {}
<1>1. now[o] \subseteq media[o]
  BY DEF Fingerprints
<1> QED
  BY <1>1 DEF Gained, BaselineRead

LEMMA JudgedStep ==
  ASSUME TypeInv, OwnInv, Program \/ Acquire, UNCHANGED <<baseline, media>>
  PROVE  OwnInv'
<1> SUFFICES ASSUME Judged', BaselineRead PROVE Own'
  BY DEF OwnInv, BaselineRead
<1> USE DEF GoesTo, EndsWith, Calls, Resumes, Steps, Ends, Turns
<1>1. PathInv /\ run.then \in {"again", "cancelled", "completed"}
  BY DEF TypeInv, TypeOK, Worker
<1>2. Moves
  BY ProgramMoves DEF TypeInv, TypeOK
<1>3. CASE Judged
  <2>1. run'.fail = run.fail
    BY <1>1, <1>2, <1>3 DEF Moves, Judged, PathInv, AtCheckpoint, Checkpoints
  <2> QED
    BY <1>3, <2>1 DEF OwnInv, Own
<1>4. CASE ~Judged
  <2>1. run.pc \in {"look", "verdict"} /\ GoesTo("save")
    BY <1>1, <1>2, <1>4 DEF Moves, Judged, PathInv, AtCheckpoint, Checkpoints
  <2>2. CASE run.pc = "look"
    <3>1. Look
      <4>1. Look \/ NoticeCancel \/ Expire
        BY <2>2 DEF Program, Begin, Launch, Login, OpenPost, Prepare, Fit, Upload, UploadsDone,
             FillIn, TakeBaseline, StartAttempt, Submit, Read, Verdict, Popups, Wait, Again,
             Save, ClickCancel, Confirm, Acquire, At
      <4>2. run \in Worker /\ run'.pc = "save"
        BY <2>1 DEF TypeInv, TypeOK
      <4>3. ~NoticeCancel
        BY <4>2, CancelCloudTurns, FinishEnds DEF NoticeCancel, Results
      <4>4. ~Expire
        BY <4>2, FinishEnds DEF Expire, Results
      <4> QED
        BY <4>1, <4>3, <4>4
    <3>2. PICK now \in Fingerprints : Goto(IF AllGained(now) THEN "save" ELSE "read")
      BY <3>1 DEF Look
    <3>3. AllGained(now)
      BY <2>1, <3>2, GotoSteps DEF TypeInv, TypeOK, PCs
    <3>4. \A o \in Outputs : media[o] \ {0} # {}
      BY <3>3, NewIsOwn DEF AllGained
    <3> QED
      BY <3>4 DEF Own
  <2>3. CASE run.pc = "verdict"
    <3>1. Verdict
      BY <2>1, <2>3 DEF Program, NoticeCancel, Begin, Launch, Login, OpenPost, Prepare, Fit,
           Upload, UploadsDone, FillIn, TakeBaseline, StartAttempt, Submit, Look, Expire, Read,
           Popups, Wait, Again, Save, ClickCancel, Confirm, Acquire, At, AtCheckpoint, Checkpoints
    <3>2. PICK now \in Fingerprints : IF SomeGained(now) THEN Goto("save") ELSE Finish("failed")
      BY <3>1 DEF Verdict
    <3>3. SomeGained(now)
      BY <2>1, <3>2, FinishEnds DEF TypeInv, TypeOK, Results
    <3>4. \E o \in Outputs : media[o] \ {0} # {}
      BY <3>3, NewIsOwn DEF SomeGained
    <3>5. ~(run'.fail < Grace)
      BY <1>1, <2>1, <2>3 DEF PathInv
    <3> QED
      BY <3>4, <3>5 DEF Own
  <2> QED
    BY <2>1, <2>2, <2>3
<1> QED
  BY <1>3, <1>4

LEMMA OwnStep == TypeInv /\ OwnInv /\ [Next]_vars => OwnInv'
<1> SUFFICES ASSUME TypeInv, OwnInv, [Next]_vars PROVE OwnInv'
  OBVIOUS
<1>1. CASE (Program \/ Acquire) /\ UNCHANGED <<baseline, media>>
  BY <1>1, JudgedStep
<1>2. CASE TakeBaseline
  <2>1. PathInv /\ run \in Worker /\ run.pc = "baseline" /\ Goto("attempt")
    BY <1>2 DEF TypeInv, TypeOK, TakeBaseline, At
  <2>2. Steps("attempt")
    BY <2>1, GotoSteps DEF PCs
  <2> QED
    BY <2>1, <2>2 DEF PathInv, OwnInv, Judged, Steps, Turns
<1>3. CASE run' = run /\ UNCHANGED baseline
  <2> SUFFICES ASSUME Judged, BaselineRead' PROVE Own'
    BY <1>3 DEF OwnInv, Judged
  <2>1. BaselineRead /\ Own
    BY <1>3, MediaGrow DEF OwnInv, BaselineRead
  <2>2. \A o \in Outputs : media[o] \ {0} # {} => media'[o] \ {0} # {}
    BY MediaGrow
  <2> QED
    BY <1>3, <2>1, <2>2 DEF Own
<1>4. \/ (Program \/ Acquire) /\ UNCHANGED <<baseline, media>>
      \/ TakeBaseline
      \/ run' = run /\ UNCHANGED baseline
  BY DEF Next, Program, NoticeCancel, Begin, Launch, Login, OpenPost, Prepare, Fit, Upload,
         UploadsDone, FillIn, StartAttempt, Submit, Look, Expire, Read, Verdict,
         Popups, Wait, Again, Save, ClickCancel, Confirm, Acquire, WatcherCancels, RequestCancel,
         OtherRun, CloudWorks, vars, page
<1> QED
  BY <1>1, <1>2, <1>3, <1>4

\* A run that reports a result has one of its own: an output that holds new media
\* when the baseline could be read, all of them unless the sidebar insists on a
\* failure (the completion test of the polling loop, browser.py:4089).
THEOREM ResultsAreOwn == Spec => []ResultIsOwn
<1>1. Init => OwnInv
  BY DEF Init, OwnInv, Judged
<1>2. OwnInv => ResultIsOwn
  BY DEF OwnInv, Judged, BaselineRead, Own, ResultIsOwn
<1> QED
  BY <1>1, <1>2, TypeInit, TypeStep, OwnStep, PTL DEF Spec
-----------------------------------------------------------------------------
(* The work of a run is bounded.                                           *)

\* What the worker still has to do, in five numbers of which an earlier one
\* outweighs all that follow: it goes round the loop once more until it notices a
\* cancellation, and cancels the cloud task once;
Warned ==
  IF run.told THEN 0 ELSE IF cancelAt # "no" /\ run.pc # "read" THEN 1 ELSE 2

\* it has so many attempts left,
Retries == MaxRetries + 1 - run.attempt

\* and in this attempt so many polls;
Time ==
  CASE run.pc = "ended" -> 0
    [] run.pc \in {"click", "submit"} -> Limit + 2
    [] OTHER -> run.left + 1

\* between two polls it moves in this direction only;
PlaceOf(pc) ==
  CASE pc = "begin"    -> 22 [] pc = "launch"  -> 21 [] pc = "login"    -> 20
    [] pc = "open"     -> 19 [] pc = "prepare" -> 18 [] pc = "position" -> 17
    [] pc = "fit"      -> 16 [] pc = "upload"  -> 15 [] pc = "fill"     -> 14
    [] pc = "baseline" -> 13 [] pc = "look"    -> 12 [] pc = "read"     -> 11
    [] pc = "verdict"  -> 10 [] pc = "save"    -> 9  [] pc = "popups"   -> 8
    [] pc = "wait"     -> 7  [] pc = "cancel"  -> 6  [] pc = "confirm"  -> 5
    [] pc = "again"    -> 4  [] pc = "attempt" -> 3  [] pc = "click"    -> 2
    [] pc = "submit"   -> 1  [] OTHER -> 0

Place == PlaceOf(run.pc)

\* and it loads the page and uploads files only so often.
Missing == {u \in Uploads : files[u] # "new"}
Rest    == Navigations - run.tries + Cardinality(Missing)

Rank == <<Warned, Retries, Time, Place, Rest>>

\* The lexicographic order of five numbers.
Less  == {p \in Nat \X Nat : p[1] < p[2]}
Below == LexProductOrdering(Less, Nat, 5)

\* Why an infinite descent in that order cannot be.
LEMMA BelowIsWellFounded == IsWellFoundedOn(Below, [1..5 -> Nat])
<1>1. IsWellFoundedOn(Less, Nat)
  BY NatLessThanWellFounded DEF Less, OpToRel
<1> HIDE DEF Less
<1> QED
  BY <1>1, WFLexProductOrdering DEF Below

LEMMA Lexicographic ==
  ASSUME NEW a \in [1..5 -> Nat], NEW b \in [1..5 -> Nat],
         NEW j \in 1..5, a[j] < b[j], \A i \in 1..(j - 1) : a[i] = b[i]
  PROVE  <<a, b>> \in Below
<1>1. <<a[j], b[j]>> \in Less
  BY DEF Less
<1> HIDE DEF Less
<1> QED
  BY <1>1 DEF Below, LexProductOrdering

\* The clock does not run out under a worker that still polls: it is one poll over
\* at most, and a queued task gets its time back.
TimeInv ==
  /\ run.left >= -1
  /\ run.last = "queued" => run.left >= 0
  /\ run.pc = "read" => run.left >= 0 /\ (run.last # "queued" => run.left >= 1)
  /\ run.pc \in {"popups", "wait"} => run.left >= 0 /\ (run.last = "queued" => run.left >= 1)

\* A poll that finds the task in the queue, as the one before did.
StillQueued ==
  run.pc = "read" /\ cancelAt = "no" /\ run.last = "queued" /\ run'.last = "queued"

Falls == <<Rank', Rank>> \in Below

LEMMA MissingIsFinite == IsFiniteSet(Missing) /\ Cardinality(Missing) \in Nat
<1>1. Missing \in SUBSET Uploads
  BY DEF Missing
<1>2. IsFiniteSet(Missing)
  BY <1>1, FS_Subset
<1> QED
  BY <1>2, FS_CardinalityType

LEMMA RankIsNat == TypeInv /\ TimeInv => Rank \in [1..5 -> Nat]
<1> SUFFICES ASSUME TypeInv, TimeInv PROVE Rank \in [1..5 -> Nat]
  OBVIOUS
<1>1. run \in Worker
  BY DEF TypeInv, TypeOK
<1>2. Warned \in Nat
  BY DEF Warned
<1>3. Retries \in Nat
  BY <1>1 DEF Retries, Worker
<1>4. Time \in Nat
  BY <1>1 DEF Time, TimeInv, Worker
<1>5. Place \in Nat
  BY DEF Place, PlaceOf
<1>6. Rest \in Nat
  <2>1. Navigations - run.tries \in Nat
    BY <1>1 DEF Worker
  <2> QED
    BY <2>1, MissingIsFinite DEF Rest
<1> QED
  BY <1>2, <1>3, <1>4, <1>5, <1>6 DEF Rank

\* How a rank falls: one number does, and those that outweigh it stay.
LEMMA FallsBy ==
  ASSUME TypeInv, TimeInv, TypeInv', TimeInv',
         \/ Warned' < Warned
         \/ Warned' = Warned /\ Retries' < Retries
         \/ Warned' = Warned /\ Retries' = Retries /\ Time' < Time
         \/ Warned' = Warned /\ Retries' = Retries /\ Time' = Time /\ Place' < Place
         \/ Warned' = Warned /\ Retries' = Retries /\ Time' = Time /\ Place' = Place /\ Rest' < Rest
  PROVE  Falls
<1>1. Rank \in [1..5 -> Nat] /\ Rank' \in [1..5 -> Nat]
  <2>1. Rank \in [1..5 -> Nat]
    BY RankIsNat
  <2>2. (Rank \in [1..5 -> Nat])'
    BY RankIsNat, PTL
  <2> QED
    BY <2>1, <2>2
<1>2. /\ Rank[1] = Warned /\ Rank[2] = Retries /\ Rank[3] = Time /\ Rank[4] = Place
      /\ Rank[5] = Rest
  BY DEF Rank
<1>3. /\ Rank'[1] = Warned' /\ Rank'[2] = Retries' /\ Rank'[3] = Time' /\ Rank'[4] = Place'
      /\ Rank'[5] = Rest'
  BY DEF Rank
<1> HIDE DEF Rank, Warned, Retries, Time, Place, Rest, Below, TypeInv, TimeInv
<1>4. PICK j \in 1..5 : Rank'[j] < Rank[j] /\ \A i \in 1..(j - 1) : Rank'[i] = Rank[i]
  <2>1. ASSUME Warned' < Warned
        PROVE  \E j \in 1..5 : Rank'[j] < Rank[j] /\ \A i \in 1..(j - 1) : Rank'[i] = Rank[i]
    <3> WITNESS 1 \in 1..5
    <3> QED BY <2>1, <1>2, <1>3
  <2>2. ASSUME Warned' = Warned, Retries' < Retries
        PROVE  \E j \in 1..5 : Rank'[j] < Rank[j] /\ \A i \in 1..(j - 1) : Rank'[i] = Rank[i]
    <3> WITNESS 2 \in 1..5
    <3>1. \A i \in 1..(2 - 1) : i = 1
      OBVIOUS
    <3> QED BY <2>2, <1>2, <1>3, <3>1
  <2>3. ASSUME Warned' = Warned, Retries' = Retries, Time' < Time
        PROVE  \E j \in 1..5 : Rank'[j] < Rank[j] /\ \A i \in 1..(j - 1) : Rank'[i] = Rank[i]
    <3> WITNESS 3 \in 1..5
    <3>1. \A i \in 1..(3 - 1) : i \in {1, 2}
      OBVIOUS
    <3> QED BY <2>3, <1>2, <1>3, <3>1
  <2>4. ASSUME Warned' = Warned, Retries' = Retries, Time' = Time, Place' < Place
        PROVE  \E j \in 1..5 : Rank'[j] < Rank[j] /\ \A i \in 1..(j - 1) : Rank'[i] = Rank[i]
    <3> WITNESS 4 \in 1..5
    <3>1. \A i \in 1..(4 - 1) : i \in {1, 2, 3}
      OBVIOUS
    <3> QED BY <2>4, <1>2, <1>3, <3>1
  <2>5. ASSUME Warned' = Warned, Retries' = Retries, Time' = Time, Place' = Place, Rest' < Rest
        PROVE  \E j \in 1..5 : Rank'[j] < Rank[j] /\ \A i \in 1..(j - 1) : Rank'[i] = Rank[i]
    <3> WITNESS 5 \in 1..5
    <3>1. \A i \in 1..(5 - 1) : i \in {1, 2, 3, 4}
      OBVIOUS
    <3> QED BY <2>5, <1>2, <1>3, <3>1
  <2> QED
    BY <2>1, <2>2, <2>3, <2>4, <2>5
<1>5. <<Rank', Rank>> \in Below
  BY <1>1, <1>4, Lexicographic
<1> QED
  BY <1>5 DEF Falls

\* A step on the way that spends nothing but its place.
Kept ==
  /\ run' \in Worker
  /\ run'.attempt = run.attempt /\ run'.left = run.left /\ run'.last = run.last
  /\ run'.tries = run.tries

KeptAt(pc) == Kept /\ run'.told = run.told /\ run'.pc = pc

LEMMA GotoKeeps == ASSUME run \in Worker, NEW pc \in PCs, Goto(pc) PROVE KeptAt(pc)
BY DEF Goto, KeptAt, Kept, Worker

LEMMA FinishKeeps == ASSUME run \in Worker, NEW r \in Results, Finish(r) PROVE KeptAt("ended")
<1>1. run' = [run EXCEPT !.pc = "ended", !.result = r, !.page = FALSE]
  BY DEF Finish
<1>2. run' \in Worker
  BY <1>1 DEF Worker, PCs
<1> QED
  BY <1>1, <1>2 DEF KeptAt, Kept, Worker

LEMMA CancelKeeps ==
  ASSUME run \in Worker, NEW then \in {"cancelled", "completed"}, CancelCloud(then)
  PROVE  /\ Kept /\ run'.pc = "cancel"
         /\ run'.told = IF then = "cancelled" THEN TRUE ELSE run.told
<1> DEFINE told == IF then = "cancelled" THEN TRUE ELSE run.told
<1>1. run' = [run EXCEPT !.pc = "cancel", !.then = then, !.told = told]
  BY DEF CancelCloud
<1>2. told \in BOOLEAN
  BY DEF Worker
<1> HIDE DEF told
<1>3. run' \in Worker
  BY <1>1, <1>2 DEF Worker, PCs
<1>4. run'.told = told
  BY <1>1 DEF Worker
<1> QED
  BY <1>1, <1>3, <1>4 DEF Kept, Worker, told

\* The four ways to spend something.
LEMMA MovesOn ==
  ASSUME TypeInv, TimeInv, TypeInv', TimeInv', Kept, run'.told = run.told,
         UNCHANGED <<files, cancelAt>>,
         run'.pc = "read" => cancelAt = "no",
         run'.pc \in {"click", "submit"} => run.pc \in {"click", "submit"},
         run.pc \in {"click", "submit"} => run'.pc \in {"submit", "ended"},
         PlaceOf(run'.pc) < PlaceOf(run.pc)
  PROVE  Falls
<1>1. Warned' <= Warned
  BY DEF Warned
<1>2. Retries' = Retries
  BY DEF Retries, Kept
<1>3. Time' <= Time
  <2>1. run.pc # "ended"
    BY DEF PlaceOf
  <2>2. run.left + 1 \in Nat /\ run'.left = run.left /\ Limit \in Nat
    BY DEF Kept, TimeInv, Worker, TypeInv, TypeOK
  <2> QED
    BY <2>1, <2>2 DEF Time
<1>4. Place' < Place
  BY DEF Place
<1>5. Warned \in Nat /\ Warned' \in Nat /\ Time \in Int /\ Time' \in Int
  BY DEF Warned, Time, Kept, Worker, TypeInv, TypeOK
<1> QED
  BY <1>1, <1>2, <1>3, <1>4, <1>5, FallsBy

LEMMA Submits ==
  ASSUME TypeInv, TimeInv, Submit, TypeInv'
  PROVE  TimeInv' /\ Falls
<1> USE DEF TypeInv, TypeOK
<1>0. run.pc = "submit" /\ UNCHANGED <<files, cancelAt>>
  BY DEF Submit, At
<1>1. CASE run' = [run EXCEPT !.pc = "look", !.left = Limit, !.last = "none",
                              !.zero = -1, !.fail = -1]
  <2>1. /\ run'.pc = "look" /\ run'.left = Limit /\ run'.last = "none"
        /\ run'.attempt = run.attempt /\ run'.tries = run.tries /\ run'.told = run.told
    BY <1>1 DEF Worker
  <2>2. TimeInv'
    BY <2>1 DEF TimeInv
  <2>3. Warned' = Warned /\ Retries' = Retries /\ Time' < Time
    BY <1>0, <2>1 DEF Warned, Retries, Time
  <2> QED
    BY <2>2, <2>3, FallsBy
<1>2. CASE Finish("failed")
  <2>1. KeptAt("ended")
    BY <1>2, FinishKeeps DEF Results
  <2>2. TimeInv'
    BY <2>1 DEF TimeInv, KeptAt, Kept
  <2> QED
    BY <1>0, <2>1, <2>2, MovesOn DEF KeptAt, PlaceOf
<1> QED
  BY <1>1, <1>2 DEF Submit

\* What a poll reads, and where it takes the worker.
ReadAs(state) ==
  /\ run'.last = state /\ run'.attempt = run.attempt /\ run'.tries = run.tries
  /\ run'.told = run.told
  /\ \/ /\ run'.pc \in {"verdict", "popups"}
        /\ run'.left = run.left + IF state = "queued" /\ run.last = "queued" THEN 1 ELSE 0
     \/ run'.pc = "cancel" /\ run'.left = run.left /\ state = "running"

LEMMA Reading ==
  ASSUME run \in Worker, Read
  PROVE  \E state \in {"none", "queued", "running", "failed"} : ReadAs(state)
<1>1. PICK card \in Cards, progress \in Progress :
       LET state == TaskState(card, progress)
           zero  == ZeroTimer(state, progress)
           seen  == [run EXCEPT !.last = state, !.zero = zero]
           later == [seen EXCEPT
                       !.left = run.left + IF state = "queued" /\ run.last = "queued"
                                           THEN 1 ELSE 0,
                       !.fail = FailureTimer(card)]
       IN  run' = IF zero = ZeroLimit /\ state = "running"
                  THEN GiveUp(seen)
                  ELSE IF card = "failed" /\ run.fail = Grace
                  THEN [later EXCEPT !.pc = "verdict"]
                  ELSE [later EXCEPT !.pc = "popups"]
  BY DEF Read
<1> DEFINE state == TaskState(card, progress)
           zero  == ZeroTimer(state, progress)
           seen  == [run EXCEPT !.last = state, !.zero = zero]
           left  == run.left + IF state = "queued" /\ run.last = "queued" THEN 1 ELSE 0
           fail  == FailureTimer(card)
           later == [seen EXCEPT !.left = left, !.fail = fail]
<1>2. state \in {"none", "queued", "running", "failed"}
  BY DEF TaskState, Cards, Progress
<1>3. run' = IF zero = ZeroLimit /\ state = "running" THEN GiveUp(seen)
             ELSE IF card = "failed" /\ run.fail = Grace THEN [later EXCEPT !.pc = "verdict"]
             ELSE [later EXCEPT !.pc = "popups"]
  BY <1>1
<1> HIDE DEF state, zero, fail
<1>4. CASE zero = ZeroLimit /\ state = "running"
  <2>1. run' = [run EXCEPT !.last = state, !.zero = zero, !.pc = "cancel", !.then = "again"]
    BY <1>3, <1>4 DEF GiveUp
  <2>2. ReadAs(state)
    BY <1>4, <2>1 DEF ReadAs, Worker
  <2> QED
    BY <1>2, <2>2
<1>5. CASE ~(zero = ZeroLimit /\ state = "running")
  <2>1. PICK pc \in {"verdict", "popups"} : run' = [later EXCEPT !.pc = pc]
    BY <1>3, <1>5
  <2>2. run' = [run EXCEPT !.last = state, !.zero = zero, !.left = left, !.fail = fail, !.pc = pc]
    BY <2>1
  <2>3. ReadAs(state)
    BY <2>2 DEF ReadAs, Worker
  <2> QED
    BY <1>2, <2>3
<1> QED
  BY <1>4, <1>5

\* A poll takes the worker on, but for one that finds the task queued once more.
LEMMA Polls ==
  ASSUME TypeInv, TimeInv, Read, TypeInv'
  PROVE  TimeInv' /\ (Falls \/ StillQueued)
<1>0. run \in Worker /\ run.pc = "read" /\ ~run.told /\ UNCHANGED <<files, cancelAt>>
  BY DEF Read, At, TypeInv, TypeOK, PathInv
<1>1. PICK state \in {"none", "queued", "running", "failed"} : ReadAs(state)
  BY <1>0, Reading
<1>2. run.left \in Int /\ run.left >= 0 /\ (run.last # "queued" => run.left >= 1)
  BY <1>0 DEF TimeInv, Worker
<1>3. TimeInv'
  <2>1. run'.left >= 0 /\ (run'.last = "queued" => run'.left >= 1)
    BY <1>1, <1>2 DEF ReadAs
  <2>2. run'.pc # "read" /\ run'.left \in Int
    BY <1>1, <1>2 DEF ReadAs
  <2> QED
    BY <2>1, <2>2 DEF TimeInv
<1>4. CASE cancelAt # "no"
  <2>1. Warned' < Warned
    BY <1>0, <1>1, <1>4 DEF Warned, ReadAs
  <2> QED
    BY <1>3, <2>1, FallsBy
<1>5. CASE cancelAt = "no" /\ state = "queued" /\ run.last = "queued"
  BY <1>0, <1>1, <1>3, <1>5 DEF StillQueued, ReadAs
<1>6. CASE cancelAt = "no" /\ ~(state = "queued" /\ run.last = "queued")
  <2>1. Warned' = Warned /\ Retries' = Retries
    BY <1>0, <1>1, <1>6 DEF Warned, Retries, ReadAs
  <2>2. Time' = Time
    <3>1. run'.left = run.left /\ run'.pc \in {"verdict", "popups", "cancel"}
      BY <1>1, <1>2, <1>6 DEF ReadAs
    <3> QED
      BY <1>0, <3>1 DEF Time
  <2>3. Place' < Place
    BY <1>0, <1>1 DEF Place, PlaceOf, ReadAs
  <2> QED
    BY <1>3, <2>1, <2>2, <2>3, FallsBy
<1> QED
  BY <1>4, <1>5, <1>6

LEMMA Waits ==
  ASSUME TypeInv, TimeInv, Wait, TypeInv'
  PROVE  TimeInv' /\ Falls
<1>0. run \in Worker /\ run.pc = "wait" /\ UNCHANGED <<files, cancelAt>>
  BY DEF Wait, At, TypeInv, TypeOK
<1>1. /\ run'.pc = "look" /\ run'.left = run.left - 1 /\ run'.last = run.last
      /\ run'.attempt = run.attempt /\ run'.tries = run.tries /\ run'.told = run.told
  BY <1>0 DEF Wait, Worker
<1>2. run.left \in Int /\ run.left >= 0 /\ (run.last = "queued" => run.left >= 1)
  BY <1>0 DEF TimeInv, Worker
<1>3. TimeInv'
  BY <1>1, <1>2 DEF TimeInv
<1>4. Warned' = Warned /\ Retries' = Retries
  BY <1>0, <1>1 DEF Warned, Retries
<1>5. Time' < Time
  BY <1>0, <1>1, <1>2 DEF Time
<1> QED
  BY <1>3, <1>4, <1>5, FallsBy

\* Another load of the page, or another file, spends the last number.
LEMMA Repeats ==
  ASSUME TypeInv, TimeInv, TypeInv', TimeInv', run'.attempt = run.attempt,
         run'.left = run.left, run'.told = run.told, run'.pc = run.pc, UNCHANGED cancelAt,
         Rest' < Rest
  PROVE  Falls
<1>1. Warned' = Warned /\ Retries' = Retries /\ Time' = Time /\ Place' = Place
  BY DEF Warned, Retries, Time, Place
<1> QED
  BY <1>1, FallsBy

LEMMA Loads ==
  ASSUME TypeInv, TimeInv, OpenPost, TypeInv'
  PROVE  TimeInv' /\ Falls
<1> USE DEF TypeInv, TypeOK
<1>0. run.pc = "open" /\ UNCHANGED <<files, cancelAt>>
  BY DEF OpenPost, At
<1>1. CASE run' = [run EXCEPT !.tries = run.tries + 1]
  <2>1. /\ run'.pc = run.pc /\ run'.left = run.left /\ run'.last = run.last
        /\ run'.attempt = run.attempt /\ run'.tries = run.tries + 1 /\ run'.told = run.told
    BY <1>1 DEF Worker
  <2>2. TimeInv'
    BY <2>1 DEF TimeInv
  <2>3. Rest' < Rest
    <3>1. Missing' = Missing /\ Cardinality(Missing) \in Nat /\ run.tries \in Nat
      BY <1>0, MissingIsFinite DEF Missing, Worker
    <3> QED
      BY <2>1, <3>1 DEF Rest
  <2> QED
    BY <1>0, <2>1, <2>2, <2>3, Repeats
<1>2. CASE Goto("prepare") \/ Finish("failed") \/ Finish("auth")
  <2>1. KeptAt("prepare") \/ KeptAt("ended")
    BY <1>2, GotoKeeps, FinishKeeps DEF Results, PCs
  <2>2. TimeInv'
    BY <2>1 DEF TimeInv, KeptAt, Kept
  <2> QED
    BY <1>0, <2>1, <2>2, MovesOn DEF KeptAt, PlaceOf
<1> QED
  BY <1>1, <1>2 DEF OpenPost

LEMMA Uploading ==
  ASSUME TypeInv, TimeInv, NEW u \in Uploads, Upload(u), TypeInv'
  PROVE  TimeInv' /\ Falls
<1> USE DEF TypeInv, TypeOK
<1>0. run.pc = "upload" /\ files[u] # "new" /\ UNCHANGED cancelAt
  BY DEF Upload, At
<1>1. CASE files' = [files EXCEPT ![u] = "new"] /\ UNCHANGED run
  <2>1. TimeInv'
    BY <1>1 DEF TimeInv
  <2>2. Missing' = Missing \ {u} /\ u \in Missing
    BY <1>0, <1>1 DEF Missing
  <2>3. Cardinality(Missing') = Cardinality(Missing) - 1 /\ Cardinality(Missing) \in Nat
    BY <2>2, MissingIsFinite, FS_RemoveElement
  <2>4. Rest' < Rest
    BY <1>1, <2>3 DEF Rest, Worker
  <2> QED
    BY <1>0, <1>1, <2>1, <2>4, Repeats
<1>2. CASE (Finish("failed") \/ Finish("auth")) /\ UNCHANGED files
  <2>1. KeptAt("ended")
    BY <1>2, FinishKeeps DEF Results
  <2>2. TimeInv'
    BY <2>1 DEF TimeInv, KeptAt, Kept
  <2> QED
    BY <1>0, <1>2, <2>1, <2>2, MovesOn DEF KeptAt, PlaceOf
<1> QED
  BY <1>1, <1>2 DEF Upload, Direct

LEMMA Notices ==
  ASSUME TypeInv, TimeInv, NoticeCancel, TypeInv'
  PROVE  TimeInv' /\ Falls
<1> USE DEF TypeInv, TypeOK
<1>0. run.pc \in Checkpoints /\ UNCHANGED <<files, cancelAt>>
  BY DEF NoticeCancel, AtCheckpoint
<1>1. CASE CancelCloud("cancelled") /\ ~run.told
  <2>1. Kept /\ run'.pc = "cancel" /\ run'.told
    BY <1>1, CancelKeeps
  <2>2. TimeInv'
    BY <2>1 DEF TimeInv, Kept
  <2>3. Warned' < Warned
    BY <1>1, <2>1 DEF Warned
  <2> QED
    BY <2>2, <2>3, FallsBy
<1>2. CASE Finish("cancelled")
  <2>1. KeptAt("ended")
    BY <1>2, FinishKeeps DEF Results
  <2>2. TimeInv'
    BY <2>1 DEF TimeInv, KeptAt, Kept
  <2>3. 0 < PlaceOf(run.pc) /\ run.pc \notin {"click", "submit"} /\ PlaceOf("ended") = 0
    BY <1>0 DEF Checkpoints, PlaceOf
  <2> QED
    BY <1>0, <2>1, <2>2, <2>3, MovesOn DEF KeptAt
<1> QED
  BY <1>1, <1>2 DEF NoticeCancel

\* Every other step of the worker is one of its way.
LEMMA Onward ==
  ASSUME TypeInv, TimeInv, TypeInv', UNCHANGED <<files, cancelAt>>, NEW pc \in PCs, KeptAt(pc),
         pc \notin {"click", "popups"},
         pc = "wait" => run.pc = "popups",
         pc = "read" => Polling /\ cancelAt = "no",
         pc = "submit" => run.pc = "click",
         run.pc \in {"click", "submit"} => pc \in {"submit", "ended"},
         PlaceOf(pc) < PlaceOf(run.pc)
  PROVE  TimeInv' /\ Falls
<1>1. /\ run'.left = run.left /\ run'.last = run.last /\ run'.pc = pc /\ run.left \in Int
      /\ Kept /\ run'.told = run.told
  BY DEF KeptAt, Kept, Worker, TypeInv, TypeOK
<1>2. TimeInv'
  BY <1>1 DEF TimeInv, Polling
<1> QED
  BY <1>1, <1>2, MovesOn

LEMMA SetsUp ==
  ASSUME TypeInv, TimeInv, TypeInv',
         \/ Begin \/ Launch \/ Login \/ Prepare \/ Fit \/ UploadsDone \/ FillIn \/ TakeBaseline
         \/ Acquire
  PROVE  TimeInv' /\ Falls
<1>0. run \in Worker /\ UNCHANGED <<files, cancelAt>>
  BY DEF Begin, Launch, Login, Prepare, Fit, UploadsDone, FillIn, TakeBaseline, Acquire,
         TypeInv, TypeOK
<1>1. CASE Begin
  <2>1. run.pc = "begin" /\ (KeptAt("launch") \/ KeptAt("ended"))
    BY <1>0, <1>1, GotoKeeps, FinishKeeps DEF Begin, At, PCs, Results
  <2> QED
    BY <1>0, <2>1, Onward DEF PlaceOf, PCs
<1>2. CASE Launch
  <2>1. CASE run' = [run EXCEPT !.pc = "login", !.page = TRUE]
    <3>1. KeptAt("login")
      BY <1>0, <2>1 DEF KeptAt, Kept, Worker, PCs
    <3> QED
      BY <1>0, <1>2, <3>1, Onward DEF Launch, At, PlaceOf, PCs
  <2>2. CASE Finish("failed")
    <3>1. KeptAt("ended")
      BY <1>0, <2>2, FinishKeeps DEF Results
    <3> QED
      BY <1>0, <1>2, <3>1, Onward DEF Launch, At, PlaceOf, PCs
  <2> QED
    BY <1>2, <2>1, <2>2 DEF Launch
<1>3. CASE Login
  <2>1. run.pc = "login" /\ (KeptAt("open") \/ KeptAt("ended"))
    BY <1>0, <1>3, GotoKeeps, FinishKeeps DEF Login, At, PCs, Results
  <2> QED
    BY <1>0, <2>1, Onward DEF PlaceOf, PCs
<1>4. CASE Prepare
  <2>1. run.pc = "prepare" /\ (KeptAt("position") \/ KeptAt("ended"))
    BY <1>0, <1>4, GotoKeeps, FinishKeeps DEF Prepare, At, PCs, Results
  <2> QED
    BY <1>0, <2>1, Onward DEF PlaceOf, PCs
<1>5. CASE Fit
  <2>1. run.pc = "fit" /\ (KeptAt("upload") \/ KeptAt("ended"))
    BY <1>0, <1>5, GotoKeeps, FinishKeeps DEF Fit, At, PCs, Results
  <2> QED
    BY <1>0, <2>1, Onward DEF PlaceOf, PCs
<1>6. CASE UploadsDone
  <2>1. run.pc = "upload" /\ KeptAt("fill")
    BY <1>0, <1>6, GotoKeeps DEF UploadsDone, At, PCs
  <2> QED
    BY <1>0, <2>1, Onward DEF PlaceOf, PCs
<1>7. CASE FillIn
  <2>1. CASE run' = [run EXCEPT !.pc = "baseline"]
    <3>1. KeptAt("baseline")
      BY <1>0, <2>1 DEF KeptAt, Kept, Worker, PCs
    <3> QED
      BY <1>0, <1>7, <3>1, Onward DEF FillIn, At, PlaceOf, PCs
  <2>2. CASE Finish("failed")
    <3>1. KeptAt("ended")
      BY <1>0, <2>2, FinishKeeps DEF Results
    <3> QED
      BY <1>0, <1>7, <3>1, Onward DEF FillIn, At, PlaceOf, PCs
  <2> QED
    BY <1>7, <2>1, <2>2 DEF FillIn
<1>8. CASE TakeBaseline
  <2>1. run.pc = "baseline" /\ KeptAt("attempt")
    BY <1>0, <1>8, GotoKeeps DEF TakeBaseline, At, PCs
  <2> QED
    BY <1>0, <2>1, Onward DEF PlaceOf, PCs
<1>9. CASE Acquire
  <2>1. CASE At("position") /\ run' = [run EXCEPT !.pc = "fit"]
    <3>1. run.pc = "position" /\ KeptAt("fit")
      BY <1>0, <2>1 DEF At, KeptAt, Kept, Worker, PCs
    <3> QED
      BY <1>0, <3>1, Onward DEF PlaceOf, PCs
  <2>2. CASE At("click") /\ run' = [run EXCEPT !.pc = "submit"]
    <3>1. run.pc = "click" /\ KeptAt("submit")
      BY <1>0, <2>2 DEF At, KeptAt, Kept, Worker, PCs
    <3> QED
      BY <1>0, <3>1, Onward DEF PlaceOf, PCs
  <2> QED
    BY <1>9, <2>1, <2>2 DEF Acquire
<1> QED
  BY <1>1, <1>2, <1>3, <1>4, <1>5, <1>6, <1>7, <1>8, <1>9

\* An attempt spends one, and gives the worker the time of one.
LEMMA Attempt ==
  ASSUME TypeInv, TimeInv, StartAttempt, TypeInv'
  PROVE  TimeInv' /\ Falls
<1>0. run \in Worker /\ run.pc = "attempt" /\ UNCHANGED <<files, cancelAt>>
  BY DEF StartAttempt, At, TypeInv, TypeOK
<1>1. run' = [run EXCEPT !.pc = "click", !.attempt = run.attempt + 1]
  BY DEF StartAttempt
<1>2. /\ run'.pc = "click" /\ run'.attempt = run.attempt + 1 /\ run'.told = run.told
      /\ run'.left = run.left /\ run'.last = run.last
  BY <1>0, <1>1 DEF Worker
<1>3. TimeInv'
  BY <1>2 DEF TimeInv
<1>4. Warned' = Warned
  BY <1>0, <1>2 DEF Warned
<1>5. Retries' < Retries
  BY <1>0, <1>2 DEF Retries, Worker
<1> QED
  BY <1>3, <1>4, <1>5, FallsBy

LEMMA Resuming ==
  ASSUME run \in Worker, Resume
  PROVE  KeptAt("again") \/ KeptAt("ended")
<1>1. run.then \in Results \/ run.then = "again"
  BY DEF Worker, Results
<1> QED
  BY <1>1, GotoKeeps, FinishKeeps DEF Resume, PCs

LEMMA GoesAround ==
  ASSUME TypeInv, TimeInv, TypeInv',
         \/ Look \/ Expire \/ Verdict \/ Popups \/ Again \/ Save \/ ClickCancel \/ Confirm
  PROVE  TimeInv' /\ Falls
<1>0. run \in Worker /\ UNCHANGED <<files, cancelAt>>
  BY DEF Look, Expire, Verdict, Popups, Again, Save, ClickCancel, Confirm, TypeInv, TypeOK
<1>1. CASE Look
  <2>1. run.pc = "look" /\ cancelAt = "no" /\ Polling /\ (KeptAt("save") \/ KeptAt("read"))
    BY <1>0, <1>1, GotoKeeps DEF Look, At, PCs, Checkpoints
  <2> QED
    BY <1>0, <2>1, Onward DEF PlaceOf, PCs
<1>2. CASE Expire
  <2>1. run.pc \in {"look", "attempt"} /\ KeptAt("ended")
    BY <1>0, <1>2, FinishKeeps DEF Expire, Results
  <2> QED
    BY <1>0, <2>1, Onward DEF PlaceOf, PCs
<1>3. CASE Verdict
  <2>1. run.pc = "verdict" /\ (KeptAt("save") \/ KeptAt("ended"))
    BY <1>0, <1>3, GotoKeeps, FinishKeeps DEF Verdict, At, PCs, Results
  <2> QED
    BY <1>0, <2>1, Onward DEF PlaceOf, PCs
<1>4. CASE Popups
  <2>1. run.pc = "popups" /\ (Goto("wait") \/ Goto("again") \/ Finish("failed"))
    BY <1>4 DEF Popups, At, TypeInv, TypeOK
  <2>2. KeptAt("wait") \/ KeptAt("again") \/ KeptAt("ended")
    BY <1>0, <2>1, GotoKeeps, FinishKeeps DEF PCs, Results
  <2> QED
    BY <1>0, <2>1, <2>2, Onward DEF PlaceOf, PCs
<1>5. CASE Again
  <2>1. run.pc = "again" /\ (KeptAt("attempt") \/ KeptAt("ended"))
    BY <1>0, <1>5, GotoKeeps, FinishKeeps DEF Again, At, PCs, Results
  <2> QED
    BY <1>0, <2>1, Onward DEF PlaceOf, PCs
<1>6. CASE Save
  <2>1. run.pc = "save" /\ (KeptAt("cancel") \/ KeptAt("ended"))
    BY <1>0, <1>6, CancelKeeps, FinishKeeps DEF Save, At, Results, KeptAt
  <2> QED
    BY <1>0, <2>1, Onward DEF PlaceOf, PCs
<1>7. CASE ClickCancel
  <2>1. run.pc = "cancel" /\ (KeptAt("again") \/ KeptAt("ended") \/ KeptAt("confirm"))
    BY <1>0, <1>7, Resuming, GotoKeeps DEF ClickCancel, At, PCs
  <2> QED
    BY <1>0, <2>1, Onward DEF PlaceOf, PCs
<1>8. CASE Confirm
  <2>1. run.pc = "confirm" /\ (KeptAt("again") \/ KeptAt("ended"))
    BY <1>0, <1>8, Resuming DEF Confirm, At
  <2> QED
    BY <1>0, <2>1, Onward DEF PlaceOf, PCs
<1> QED
  BY <1>1, <1>2, <1>3, <1>4, <1>5, <1>6, <1>7, <1>8

LEMMA WorkerSpends ==
  TypeInv /\ TimeInv /\ (Program \/ Acquire) /\ TypeInv' => TimeInv' /\ (Falls \/ StillQueued)
<1> SUFFICES ASSUME TypeInv, TimeInv, Program \/ Acquire, TypeInv'
             PROVE  TimeInv' /\ (Falls \/ StillQueued)
  OBVIOUS
<1> QED
  BY Notices, SetsUp, Loads, Uploading, Attempt, Submits, Polls, Waits, GoesAround DEF Program

\* The others leave what the worker has still to do, but for a request to cancel,
\* which leaves it less.
LEMMA OthersSpare ==
  ASSUME TypeInv, TimeInv, TypeInv', [Next]_vars, ~(Program \/ Acquire)
  PROVE  TimeInv' /\ (Falls \/ UNCHANGED Rank)
<1>1. UNCHANGED <<run, files>> /\ (UNCHANGED cancelAt \/ (cancelAt = "no" /\ cancelAt' = run.pc))
  BY DEF Next, vars, WatcherCancels, RequestCancel, OtherRun, CloudWorks
<1>2. TimeInv'
  BY <1>1 DEF TimeInv
<1>3. UNCHANGED <<Retries, Time, Place, Rest>>
  BY <1>1 DEF Retries, Time, Place, Rest, Missing
<1>4. Warned' = Warned \/ Warned' < Warned
  BY <1>1 DEF Warned
<1>5. CASE Warned' = Warned
  BY <1>2, <1>3, <1>5 DEF Rank
<1>6. CASE Warned' < Warned
  BY <1>2, <1>3, <1>6, FallsBy
<1> QED
  BY <1>4, <1>5, <1>6

LEMMA TimeInit == Init => TimeInv
BY DEF Init, TimeInv

\* A step of the worker spends of its rank or finds its task queued once more; a
\* step of anybody else gives it nothing back.
Spends ==
  IF Program \/ Acquire THEN Falls \/ StillQueued ELSE Falls \/ UNCHANGED Rank

\* No worker polls, waits or retries for ever on its own account: each of its steps
\* lowers a rank of five natural numbers in a well-founded order
\* (BelowIsWellFounded), whatever the page shows, and nobody else raises it.  The one
\* exception is a poll that finds its uncancelled task queued once more, to which run()
\* gives the time back on purpose ("RunningHub's own capacity queue is not workflow
\* execution time", browser.py:4137).
THEOREM WorkIsBounded == Spec => [][Spends]_vars
<1>1. TypeInv /\ TimeInv /\ [Next]_vars => TypeInv' /\ TimeInv' /\ [Spends]_vars
  <2> SUFFICES ASSUME TypeInv, TimeInv, [Next]_vars PROVE TypeInv' /\ TimeInv' /\ Spends
    OBVIOUS
  <2>1. TypeInv'
    BY TypeStep
  <2> QED
    BY <2>1, WorkerSpends, OthersSpare DEF Spends
<1> QED
  BY <1>1, TypeInit, TimeInit, PTL DEF Spec

-----------------------------------------------------------------------------
(* What the scheduler takes for granted about a run.                       *)

\* A run has a result when it is over and not before, its browser is closed then, the
\* lock is not its own, and it reports "cancelled" only when it was told to stop.
Contract ==
  /\ run.pc = "ended" <=> run.result # "none"
  /\ run.pc = "ended" => ~run.page /\ lock # "self"
  /\ run.result = "cancelled" => cancelAt # "no"

\* A run is over once: it does nothing more and its result stands.
StaysOver == run.pc = "ended" => UNCHANGED run

\* The cancellation of the cloud task that ends a run was asked for, and what has been
\* said at the end stands.
OverInv ==
  /\ run.pc \in {"cancel", "confirm"} /\ run.then = "cancelled" => cancelAt # "no"
  /\ run.result = "cancelled" => cancelAt # "no"
  /\ run.pc = "ended" => run.result # "none" /\ ~run.page

LEMMA OverInit == Init => OverInv
BY DEF Init, OverInv

\* A request to cancel is not taken back.
LEMMA RequestStands ==
  ASSUME TypeInv, [Next]_vars
  PROVE  cancelAt # "no" => cancelAt' # "no"
BY DEF Next, Program, NoticeCancel, Begin, Launch, Login, OpenPost, Prepare, Acquire, Fit,
       Upload, UploadsDone, FillIn, TakeBaseline, StartAttempt, Submit, Look, Expire, Read,
       Verdict, Popups, Wait, Again, Save, ClickCancel, Confirm, WatcherCancels,
       RequestCancel, OtherRun, CloudWorks, vars

LEMMA MovesKeepOver ==
  ASSUME TypeInv, OverInv, Moves, cancelAt # "no" => cancelAt' # "no"
  PROVE  OverInv' /\ run.pc # "ended"
<1> USE DEF GoesTo, EndsWith, Calls, Resumes, Steps, Ends, Turns, AtCheckpoint, Checkpoints
<1>1. /\ run \in Worker /\ PathInv
      /\ run.then \in {"again", "cancelled", "completed"}
  BY DEF TypeInv, TypeOK, Worker
<1>2. (run.pc \in {"cancel", "confirm"} /\ run.then = "cancelled" => cancelAt # "no")'
  BY <1>1 DEF Moves, OverInv, PathInv
<1>3. (run.result = "cancelled" => cancelAt # "no")'
  BY <1>1 DEF Moves, OverInv, PathInv
<1>4. (run.pc = "ended" => run.result # "none" /\ ~run.page)'
  BY <1>1 DEF Moves, OverInv, PathInv
<1>5. run.pc # "ended"
  BY <1>1 DEF Moves
<1> QED
  BY <1>2, <1>3, <1>4, <1>5 DEF OverInv

LEMMA OverStep == TypeInv /\ OverInv /\ [Next]_vars => OverInv' /\ StaysOver
<1> SUFFICES ASSUME TypeInv, OverInv, [Next]_vars PROVE OverInv' /\ StaysOver
  OBVIOUS
<1>1. cancelAt # "no" => cancelAt' # "no"
  BY RequestStands
<1>2. CASE Program \/ Acquire
  <2>1. Moves
    BY <1>2, ProgramMoves DEF TypeInv, TypeOK
  <2> QED
    BY <2>1, <1>1, MovesKeepOver DEF StaysOver
<1>3. CASE run' = run
  BY <1>1, <1>3 DEF OverInv, StaysOver
<1> QED
  BY <1>2, <1>3, OthersWait

\* What TaskScheduler assumes of BrowserRunner.run (`Outcomes`, `RunEnd`) a run keeps:
\* it ends once, with one result, its browser closed and _upload_lock given up whatever
\* failed on the way, and with "cancelled" only after request_cancel.
THEOREM RunsKeepTheirContract == Spec => []Contract /\ [][StaysOver]_vars
<1>1. TypeInv /\ OverInv => Contract
  BY DEF TypeInv, TypeOK, PathInv, OverInv, Contract
<1>2. TypeInv /\ OverInv /\ [Next]_vars => TypeInv' /\ OverInv' /\ [StaysOver]_vars
  BY TypeStep, OverStep
<1> QED
  BY <1>1, <1>2, TypeInit, OverInit, PTL DEF Spec
=============================================================================
