--------------------------- MODULE LoginSessionProofs ---------------------------
(***************************************************************************)
(* Proofs about the interactive login, for any number of logins, events    *)
(* and late posts, and whatever fails.                                     *)
(***************************************************************************)
EXTENDS LoginSession, SequenceTheorems, WellFoundedInduction, TLAPS

-----------------------------------------------------------------------------
(* What a worker becomes.                                                  *)

\* A worker that says so has stored its login; one that was not started has not,
\* and none goes back there.
Honest(w) ==
  /\ w.ok => w.saved
  /\ w.post = [stage |-> "completed"] => w.saved
  /\ w.pc = "absent" => ~w.saved
  /\ w.next # "absent"

LEMMA NoPostType == NoPost \in Posts /\ NoPost # [stage |-> "completed"]
BY DEF NoPost, Posts, Stages, Ended

LEMMA NewWorkerType ==
  ASSUME NEW pc \in PCs
  PROVE  /\ NewWorker(pc) \in Worker
         /\ NewWorker(pc).pc = pc /\ ~NewWorker(pc).saved /\ ~NewWorker(pc).ok
         /\ NewWorker(pc).post = NoPost /\ NewWorker(pc).next = "opening"
<1>1. <<>> \in Seq(Events)
  OBVIOUS
<1> QED BY <1>1, NoPostType DEF NewWorker, Worker, PCs, Pages

LEMMA CarriedType ==
  ASSUME NEW w \in Worker, NEW pc \in PCs
  PROVE  /\ Carried(w, pc) \in Worker
         /\ Carried(w, pc).saved = w.saved
         /\ Carried(w, pc).ok = w.ok
<1>1. NewWorker(pc) \in Worker
  BY NewWorkerType
<1> QED BY <1>1 DEF Carried, Worker

LEMMA GoesOnType ==
  ASSUME NEW w \in Worker, NEW pc \in PCs
  PROVE  /\ GoesOn(w, pc) \in Worker
         /\ GoesOn(w, pc).pc = pc
         /\ GoesOn(w, pc).saved = w.saved
         /\ GoesOn(w, pc).ok = w.ok
         /\ GoesOn(w, pc).post = NoPost
         /\ GoesOn(w, pc).next = "opening"
<1>1. "opening" \in PCs
  BY DEF PCs
<1>2. PICK c \in Worker : c = Carried(w, pc) /\ c.saved = w.saved /\ c.ok = w.ok
  BY CarriedType
<1>3. GoesOn(w, pc) = [c EXCEPT !.pc = pc, !.post = NoPost, !.next = "opening"]
  BY <1>2 DEF GoesOn
<1> QED BY <1>1, <1>2, <1>3, NoPostType DEF Worker

LEMMA ReportsType ==
  ASSUME NEW w \in Worker, NEW post \in Posts, NEW pc \in PCs
  PROVE  /\ Reports(w, post, pc) \in Worker
         /\ Reports(w, post, pc).pc = "post"
         /\ Reports(w, post, pc).saved = w.saved
         /\ Reports(w, post, pc).ok = w.ok
         /\ Reports(w, post, pc).post = post
         /\ Reports(w, post, pc).next = pc
<1>1. "post" \in PCs
  BY DEF PCs
<1> QED BY ZenonT(30), <1>1, CarriedType DEF Reports, Worker

LEMMA AsksForCodeType ==
  ASSUME NEW w \in Worker, NEW pc \in PCs
  PROVE  /\ AsksForCode(w, pc) \in Worker
         /\ AsksForCode(w, pc).pc = "post"
         /\ AsksForCode(w, pc).saved = w.saved
         /\ AsksForCode(w, pc).ok = w.ok
         /\ AsksForCode(w, pc).post # [stage |-> "completed"]
         /\ AsksForCode(w, pc).next = pc
<1>1. [w EXCEPT !.code = FALSE] \in Worker
  BY DEF Worker
<1>2. [stage |-> "code_required"] \in Posts
  BY DEF Posts, Stages
<1>3. [stage |-> "code_required"] # [stage |-> "completed"]
  <2>1. [stage |-> "code_required"].stage # [stage |-> "completed"].stage
    OBVIOUS
  <2> QED BY <2>1
<1> QED BY <1>1, <1>2, <1>3, ReportsType DEF AsksForCode, Worker

LEMMA DeadType ==
  ASSUME NEW w \in Worker, NEW ok \in BOOLEAN
  PROVE  /\ Dead(w, ok) \in Worker
         /\ Dead(w, ok).pc = "exited"
         /\ Dead(w, ok).saved = w.saved
         /\ Dead(w, ok).ok = ok
         /\ Dead(w, ok).post = NoPost
         /\ Dead(w, ok).next = "opening"
<1>1. NewWorker("exited") \in Worker /\ NewWorker("exited").pc = "exited" /\ NewWorker("exited").post = NoPost
      /\ NewWorker("exited").next = "opening"
  BY NewWorkerType DEF PCs
<1> QED BY <1>1 DEF Dead, Worker

-----------------------------------------------------------------------------
(* What one step of a worker does.                                         *)

\* How a worker may change: one that has ended stays so, a stored login stays
\* stored, and an honest worker stays honest.
Becoming(w, v) ==
  /\ v \in Worker
  /\ w.pc \in {"absent", "exited"} => v.pc = w.pc
  /\ w.saved => v.saved
  /\ Honest(w) => Honest(v)

\* What any step of worker i does to the state.
Moves(i) ==
  /\ \E v \in Worker : Becomes(i, v) /\ Becoming(worker[i], v)
  /\ UNCHANGED <<proc, ending, input>>
  /\ \/ sess' = sess
     \/ sess' = Posted(i, worker[i].post)
     \/ sess' = [sess EXCEPT !.events = <<>>]
  /\ \/ late' = late
     \/ late' = late \cup {[id |-> i, post |-> worker[i].post]}
  /\ state' \in BOOLEAN

LEMMA GoesOnBecoming ==
  ASSUME NEW w \in Worker, NEW pc \in PCs, pc # "absent", w.pc \notin {"absent", "exited"}
  PROVE  Becoming(w, GoesOn(w, pc))
<1>1. NoPost # [stage |-> "completed"]
  BY NoPostType
<1> QED BY <1>1, GoesOnType DEF Becoming, Honest

LEMMA ReportsBecoming ==
  ASSUME NEW w \in Worker, NEW v \in Worker, NEW post \in Posts, NEW pc \in PCs,
         pc # "absent", w.pc \notin {"absent", "exited"},
         post # [stage |-> "completed"], w.saved => v.saved, v.ok => w.ok
  PROVE  Becoming(w, Reports(v, post, pc))
BY ReportsType DEF Becoming, Honest

LEMMA AsksForCodeBecoming ==
  ASSUME NEW w \in Worker, NEW v \in Worker, NEW pc \in PCs,
         w.pc \notin {"absent", "exited"}, w.saved => v.saved, v.ok => w.ok,
         Honest(w) => pc # "absent"
  PROVE  Becoming(w, AsksForCode(v, pc))
BY AsksForCodeType DEF Becoming, Honest

LEMMA DeadBecoming ==
  ASSUME NEW w \in Worker, NEW ok \in BOOLEAN,
         w.pc # "absent", w.pc = "exited" => ok = w.ok, ok => w.ok
  PROVE  Becoming(w, Dead(w, ok))
<1>1. NoPost # [stage |-> "completed"]
  BY NoPostType
<1> QED BY <1>1, DeadType DEF Becoming, Honest

\* Changes of the browser and of local variables.
LEMMA LocalBecoming ==
  ASSUME NEW w \in Worker, NEW v \in Worker,
         v.pc = w.pc, v.post = w.post, v.next = w.next, w.saved => v.saved, v.saved => w.saved, v.ok => w.ok
  PROVE  Becoming(w, v)
BY DEF Becoming, Honest

LEMMA StepMoves ==
  ASSUME TypeOK, NEW i \in Ids, NEW pc, NEW v, Becoming(worker[i], v), Step(i, pc, v)
  PROVE  Moves(i)
BY DEF Step, Moves, Becoming, TypeOK

LEMMA RefusedBecoming ==
  ASSUME NEW w \in Worker, w.pc = "post"
  PROVE  Becoming(w, Refused(w))
<1>1. "closing" \in PCs /\ "failing" \in PCs /\ w.next \in PCs
  BY DEF PCs, Worker
<1>2. Becoming(w, GoesOn(w, "closing")) /\ Becoming(w, GoesOn(w, "failing"))
  BY <1>1, GoesOnBecoming
<1>3. Becoming(w, AsksForCode(w, w.next))
  BY <1>1, AsksForCodeBecoming DEF Honest
<1> QED BY <1>2, <1>3 DEF Refused

LEMMA StagePost ==
  ASSUME NEW stage \in Stages
  PROVE  /\ [stage |-> stage] \in Posts
         /\ stage # "completed" => [stage |-> stage] # [stage |-> "completed"]
<1>1. [stage |-> stage].stage = stage /\ [stage |-> "completed"].stage = "completed"
  OBVIOUS
<1>2. [stage |-> stage] = [stage |-> "completed"] => stage = "completed"
  BY <1>1
<1> QED BY <1>2 DEF Posts

LEMMA PicturePost ==
  ASSUME NEW w
  PROVE  Picture(w) \in Posts /\ Picture(w) # [stage |-> "completed"]
<1>1. DOMAIN Picture(w) = {"shot"} /\ DOMAIN [stage |-> "completed"] = {"stage"}
  BY DEF Picture
<1>2. Picture(w) # [stage |-> "completed"]
  BY <1>1
<1> QED BY <1>2 DEF Picture, Posts, Shots

LEMMA FieldTypes ==
  ASSUME NEW w \in Worker
  PROVE  /\ \A page \in Pages : [w EXCEPT !.page = page] \in Worker
         /\ [w EXCEPT !.page = "pending"] \in Worker
         /\ \A b \in BOOLEAN : [w EXCEPT !.code = b] \in Worker
         /\ \A b \in BOOLEAN : [w EXCEPT !.done = b] \in Worker
         /\ \A b \in BOOLEAN : [w EXCEPT !.down = b] \in Worker
         /\ \A b \in BOOLEAN : [w EXCEPT !.armed = b] \in Worker
         /\ \A n \in 0..1 : [w EXCEPT !.ticks = n] \in Worker
         /\ [w EXCEPT !.ticks = 0] \in Worker
<1>1. \A page \in Pages : [w EXCEPT !.page = page] \in Worker
  BY DEF Worker
<1>2. "pending" \in Pages
  BY DEF Pages
<1>3. \A b \in BOOLEAN : [w EXCEPT !.code = b] \in Worker
  BY DEF Worker
<1>4. \A b \in BOOLEAN : [w EXCEPT !.done = b] \in Worker
  BY DEF Worker
<1>5. \A b \in BOOLEAN : [w EXCEPT !.down = b] \in Worker
  BY DEF Worker
<1>6. \A b \in BOOLEAN : [w EXCEPT !.armed = b] \in Worker
  BY DEF Worker
<1>7. \A n \in 0..1 : [w EXCEPT !.ticks = n] \in Worker
  BY DEF Worker
<1> QED BY <1>1, <1>2, <1>3, <1>4, <1>5, <1>6, <1>7

LEMMA HandlingMoves ==
  ASSUME TypeOK, NEW i \in Ids,
         HandleVerify(i) \/ HandlePointer(i) \/ Look(i)
  PROVE  Moves(i)
<1> DEFINE old == worker[i]
           w == Handled(old)
<1>1. old \in Worker
  BY DEF TypeOK
<1>2. old.pc = "handling" => old.pc \notin {"absent", "exited"}
  OBVIOUS
<1>3. {"handling", "capturing"} \subseteq PCs
  BY DEF PCs
<1>4. {"verifying", "code_required"} \subseteq Stages
  BY DEF Stages
<1>5. CASE HandleVerify(i) \/ HandlePointer(i)
  <2>1. old.batch \in Seq(Events) /\ old.batch # <<>>
    BY <1>1, <1>5 DEF HandleVerify, HandlePointer, HasNext, Worker
  <2>2. Tail(old.batch) \in Seq(Events)
    BY <2>1
  <2>3. /\ w \in Worker /\ w.pc = old.pc /\ w.post = old.post /\ w.next = old.next
        /\ w.saved = old.saved /\ w.ok = old.ok
    BY <1>1, <2>2 DEF Handled, Worker
  <2>4. CASE HandleVerify(i)
    <3>1. PICK v : /\ Step(i, "handling", v)
                   /\ \/ v = Reports([w EXCEPT !.page = "pending", !.code = TRUE, !.done = TRUE,
                                              !.ticks = 0, !.down = FALSE],
                                     [stage |-> "verifying"], "handling")
                      \/ v = AsksForCode(w, "handling")
      BY <2>4 DEF HandleVerify
    <3>2. old.pc = "handling"
      BY <3>1 DEF Step
    <3> DEFINE u == [w EXCEPT !.page = "pending", !.code = TRUE, !.done = TRUE,
                              !.ticks = 0, !.down = FALSE]
    <3>3. u \in Worker /\ u.saved = w.saved /\ u.ok = w.ok
      <4>1. ASSUME NEW x \in Worker
            PROVE  LET y == [x EXCEPT !.page = "pending", !.code = TRUE, !.done = TRUE,
                                      !.ticks = 0, !.down = FALSE]
                   IN  y \in Worker /\ y.saved = x.saved /\ y.ok = x.ok
        <5> DEFINE y == [x EXCEPT !.page = "pending", !.code = TRUE, !.done = TRUE,
                                  !.ticks = 0, !.down = FALSE]
        <5>1. y \in Worker
          <6>1. PICK a \in Worker : a = [x EXCEPT !.page = "pending"]
            BY FieldTypes
          <6>2. PICK b \in Worker : b = [a EXCEPT !.code = TRUE]
            BY FieldTypes
          <6>3. PICK c \in Worker : c = [b EXCEPT !.done = TRUE]
            BY FieldTypes
          <6>4. PICK d \in Worker : d = [c EXCEPT !.ticks = 0]
            BY FieldTypes
          <6>5. [d EXCEPT !.down = FALSE] \in Worker
            BY FieldTypes
          <6> QED BY <6>1, <6>2, <6>3, <6>4, <6>5
        <5>2. y.saved = x.saved /\ y.ok = x.ok
          BY DEF Worker
        <5> QED BY <5>1, <5>2
      <4> QED BY <2>3, <4>1
    <3>4. Becoming(old, Reports(u, [stage |-> "verifying"], "handling"))
      BY <1>1, <1>3, <1>4, <2>3, <3>2, <3>3, ReportsBecoming, StagePost
    <3>5. Becoming(old, AsksForCode(w, "handling"))
      BY <1>1, <1>3, <2>3, <3>2, AsksForCodeBecoming
    <3> QED BY <3>1, <3>4, <3>5, StepMoves
  <2>5. CASE HandlePointer(i)
    <3> DEFINE u == [w EXCEPT !.down = Head(old.batch) = "down"]
    <3>1. \/ Step(i, "handling", w)
          \/ Step(i, "handling", u)
      BY <2>5 DEF HandlePointer
    <3>2. u \in Worker /\ u.pc = w.pc /\ u.post = w.post /\ u.next = w.next /\ u.saved = w.saved /\ u.ok = w.ok
      BY <2>3 DEF Worker
    <3>3. Becoming(old, w)
      BY <1>1, <2>3, LocalBecoming
    <3>4. u.pc = old.pc /\ u.post = old.post /\ u.next = old.next /\ u.saved = old.saved /\ u.ok = old.ok
      BY <2>3, <3>2
    <3> HIDE DEF u
    <3>5. Becoming(old, u)
      BY <1>1, <3>2, <3>4, LocalBecoming
    <3> QED BY <3>1, <3>3, <3>5, StepMoves
  <2> QED BY <1>5, <2>4, <2>5
<1>6. CASE Look(i)
  <2> DEFINE g == GoesOn(old, "capturing")
  <2>1. /\ g \in Worker /\ g.pc = "capturing" /\ g.saved = old.saved /\ g.ok = old.ok
        /\ g.post = NoPost /\ g.next = "opening"
    BY <1>1, <1>3, GoesOnType
  <2>2. PICK v : /\ Step(i, "handling", v)
                 /\ \/ v = g
                    \/ v = [g EXCEPT !.ticks = 0]
                    \/ ~GoneForGood(g.ticks + 1) /\ v = [g EXCEPT !.ticks = g.ticks + 1]
                    \/ v = Reports([g EXCEPT !.done = TRUE, !.ticks = 0],
                                   [stage |-> "code_required"], "capturing")
    BY <1>6 DEF Look
  <2>3. old.pc = "handling"
    BY <2>2 DEF Step
  <2>4. Becoming(old, g)
    BY <1>1, <1>3, <2>3, GoesOnBecoming
  <2>5. ASSUME NEW n \in 0..1 PROVE Becoming(old, [g EXCEPT !.ticks = n])
    <3> DEFINE u == [g EXCEPT !.ticks = n]
    <3>1. /\ u \in Worker /\ u.pc = "capturing" /\ u.saved = old.saved /\ u.ok = old.ok
          /\ u.post = NoPost /\ u.next = "opening"
      BY <2>1 DEF Worker
    <3> QED BY <2>3, <3>1, NoPostType DEF Becoming, Honest
  <2>6. ~GoneForGood(g.ticks + 1) => g.ticks + 1 \in 0..1
    BY <2>1 DEF GoneForGood, Worker
  <2> DEFINE u == [g EXCEPT !.done = TRUE, !.ticks = 0]
  <2>7. u \in Worker /\ u.saved = old.saved /\ u.ok = old.ok
    <3>1. ASSUME NEW x \in Worker
          PROVE  LET y == [x EXCEPT !.done = TRUE, !.ticks = 0]
                 IN  y \in Worker /\ y.saved = x.saved /\ y.ok = x.ok
      <4> DEFINE y == [x EXCEPT !.done = TRUE, !.ticks = 0]
      <4>1. y \in Worker
        <5>1. PICK a \in Worker : a = [x EXCEPT !.done = TRUE]
          BY FieldTypes
        <5>2. [a EXCEPT !.ticks = 0] \in Worker
          BY FieldTypes
        <5> QED BY <5>1, <5>2
      <4>2. y.saved = x.saved /\ y.ok = x.ok
        BY DEF Worker
      <4> QED BY <4>1, <4>2
    <3> QED BY <2>1, <3>1
  <2>8. Becoming(old, Reports(u, [stage |-> "code_required"], "capturing"))
    BY <1>1, <1>3, <1>4, <2>3, <2>7, ReportsBecoming, StagePost
  <2>9. Becoming(old, v)
    BY <2>2, <2>4, <2>5, <2>6, <2>8
  <2> QED BY <2>2, <2>9, StepMoves
<1> QED BY <1>5, <1>6

\* The posts: handled, or timed out.
LEMMA PostMoves ==
  ASSUME TypeOK, NEW i \in Ids, Deliver(i) \/ TimesOut(i)
  PROVE  Moves(i)
<1> DEFINE old == worker[i]
<1>1. old \in Worker /\ old.pc = "post"
  BY DEF TypeOK, Deliver, TimesOut
<1>2. Becoming(old, Refused(old))
  BY <1>1, RefusedBecoming
<1>3. CASE Deliver(i)
  <2>1. old.next \in PCs
    BY <1>1 DEF Worker
  <2>2. GoesOn(old, old.next) \in Worker /\ (Honest(old) => Becoming(old, GoesOn(old, old.next)))
    BY <1>1, <2>1, GoesOnType, GoesOnBecoming DEF Honest
  <2>3. Becoming(old, GoesOn(old, old.next))
    BY <1>1, <2>1, <2>2, GoesOnType DEF Becoming
  <2> QED BY <1>2, <1>3, <2>3 DEF Deliver, Moves, Becoming, TypeOK
<1>4. CASE TimesOut(i)
  BY <1>2, <1>4 DEF TimesOut, Moves, Becoming, TypeOK
<1> QED BY <1>3, <1>4

\* The steps in which the worker goes on without reporting anything.
LEMMA QuietMoves ==
  ASSUME TypeOK, NEW i \in Ids,
         \/ Arm(i) \/ Overdue(i) \/ SeeLogin(i) \/ Poll(i) \/ Capture(i)
         \/ Exit(i) \/ Raises(i) \/ Crash(i)
  PROVE  Moves(i)
<1> DEFINE old == worker[i]
<1>1. old \in Worker
  BY DEF TypeOK
<1>2. {"snapping", "failing", "saving", "handling", "checking", "shooting"} \subseteq PCs
  BY DEF PCs
<1>3. ASSUME NEW pc, NEW to \in {"snapping", "failing", "saving", "handling", "checking", "shooting"},
             pc \notin {"absent", "exited"}, Step(i, pc, GoesOn(old, to))
      PROVE  Moves(i)
  <2>1. old.pc \notin {"absent", "exited"}
    BY <1>3 DEF Step
  <2>2. Becoming(old, GoesOn(old, to))
    BY <1>1, <1>2, <2>1, GoesOnBecoming
  <2> QED BY <1>3, <2>2, StepMoves
<1>4. CASE Arm(i) \/ Overdue(i) \/ SeeLogin(i) \/ Capture(i)
  BY <1>3, <1>4 DEF Arm, Overdue, SeeLogin, Capture
<1>5. CASE Raises(i)
  <2>1. old.pc \notin {"absent", "exited"} /\ Step(i, old.pc, GoesOn(old, "failing"))
    BY <1>5 DEF Raises
  <2> QED BY <1>3, <2>1
<1>6. CASE Poll(i)
  <2>1. old.pc = "polling"
    BY <1>6 DEF Poll
  <2>2. Becoming(old, GoesOn(old, "failing"))
    BY <1>1, <1>2, <2>1, GoesOnBecoming
  <2> DEFINE g == GoesOn(old, "handling")
             v == [g EXCEPT !.batch = sess.events]
  <2>3. /\ g \in Worker /\ g.pc = "handling" /\ g.saved = old.saved /\ g.ok = old.ok
        /\ g.post = NoPost /\ g.next = "opening"
    BY <1>1, <1>2, GoesOnType
  <2>4. sess.events \in Seq(Events)
    BY DEF TypeOK, Session
  <2>5. ASSUME NEW x \in Worker
        PROVE  LET y == [x EXCEPT !.batch = sess.events]
               IN  /\ y \in Worker /\ y.pc = x.pc /\ y.saved = x.saved /\ y.ok = x.ok
                   /\ y.post = x.post /\ y.next = x.next
    BY <2>4 DEF Worker
  <2>6. /\ v \in Worker /\ v.pc = "handling" /\ v.saved = old.saved /\ v.ok = old.ok
        /\ v.post = NoPost /\ v.next = "opening"
    BY <2>3, <2>5
  <2>7. Becoming(old, v)
    BY <2>1, <2>6, NoPostType DEF Becoming, Honest
  <2>8. PICK u \in {v, GoesOn(old, "failing")} : Becomes(i, u)
    BY <1>6 DEF Poll
  <2>9. Becoming(old, u) /\ u \in Worker
    BY <2>2, <2>7, <2>8 DEF Becoming
  <2> QED BY <1>6, <2>8, <2>9 DEF Poll, Moves, TypeOK
<1>7. CASE Exit(i)
  <2>1. old.pc = "closing" /\ old.ok \in BOOLEAN
    BY <1>1, <1>7 DEF Exit, Step, Worker
  <2>2. Becoming(old, Dead(old, old.ok)) /\ Becoming(old, Dead(old, FALSE))
    BY <1>1, <2>1, DeadBecoming
  <2> QED BY <1>7, <2>2, StepMoves DEF Exit
<1>8. CASE Crash(i)
  <2>1. old.pc \notin {"absent", "exited"} /\ Step(i, old.pc, Dead(old, FALSE))
    BY <1>8 DEF Crash
  <2>2. Becoming(old, Dead(old, FALSE))
    BY <1>1, <2>1, DeadBecoming
  <2> QED BY <2>1, <2>2, StepMoves
<1> QED BY <1>4, <1>5, <1>6, <1>7, <1>8

\* The steps that end in a report.
LEMMA ReportMoves ==
  ASSUME TypeOK, NEW i \in Ids,
         Open(i) \/ Snap(i) \/ Announce(i) \/ Shoot(i) \/ Check(i) \/ Save(i) \/ Fail(i)
  PROVE  Moves(i)
<1> DEFINE old == worker[i]
<1>1. old \in Worker
  BY DEF TypeOK
<1>2. {"arming", "announcing", "polling", "checking", "saving", "closing"} \subseteq PCs
  BY DEF PCs
<1>3. {"starting", "slider", "failed", "completed"} \subseteq Stages
  BY DEF Stages, Ended
<1>4. CASE Open(i)
  <2>1. old.pc = "opening" /\ Step(i, "opening", Reports(old, [stage |-> "starting"], "arming"))
    BY <1>4 DEF Open, Step
  <2>2. Becoming(old, Reports(old, [stage |-> "starting"], "arming"))
    BY <1>1, <1>2, <1>3, <2>1, StagePost, ReportsBecoming
  <2> QED BY <2>1, <2>2, StepMoves
<1>5. CASE Snap(i)
  <2>1. old.pc = "snapping" /\ Step(i, "snapping", Reports(old, Picture(old), "announcing"))
    BY <1>5 DEF Snap, Step
  <2>2. Becoming(old, Reports(old, Picture(old), "announcing"))
    BY <1>1, <1>2, <2>1, PicturePost, ReportsBecoming
  <2> QED BY <2>1, <2>2, StepMoves
<1>6. CASE Announce(i)
  <2> DEFINE u == [old EXCEPT !.armed = TRUE]
  <2>1. old.pc = "announcing" /\ Step(i, "announcing", Reports(u, [stage |-> "slider"], "polling"))
    BY <1>6 DEF Announce, Step
  <2>2. u \in Worker /\ u.saved = old.saved /\ u.ok = old.ok
    BY ZenonT(30), <1>1, FieldTypes DEF Worker
  <2>3. Becoming(old, Reports(u, [stage |-> "slider"], "polling"))
    BY <1>1, <1>2, <1>3, <2>1, <2>2, StagePost, ReportsBecoming
  <2> QED BY <2>1, <2>3, StepMoves
<1>7. CASE Shoot(i)
  <2>1. old.pc = "shooting" /\ Step(i, "shooting", Reports(old, Picture(old), "checking"))
    BY <1>7 DEF Shoot, Step
  <2>2. Becoming(old, Reports(old, Picture(old), "checking"))
    BY <1>1, <1>2, <2>1, PicturePost, ReportsBecoming
  <2> QED BY <2>1, <2>2, StepMoves
<1>8. CASE Check(i)
  <2>1. old.pc = "checking"
    BY <1>8 DEF Check, Step
  <2>2. PICK v \in {GoesOn(old, "saving"), AsksForCode(old, "polling"), GoesOn(old, "polling")} :
          Step(i, "checking", v)
    BY <1>8 DEF Check
  <2>3. Becoming(old, GoesOn(old, "saving")) /\ Becoming(old, GoesOn(old, "polling"))
    BY <1>1, <1>2, <2>1, GoesOnBecoming
  <2>4. Becoming(old, AsksForCode(old, "polling"))
    BY <1>1, <1>2, <2>1, AsksForCodeBecoming
  <2> QED BY <2>2, <2>3, <2>4, StepMoves
<1>9. CASE Save(i)
  <2> DEFINE u == [old EXCEPT !.saved = TRUE, !.ok = TRUE]
             v == Reports(u, [stage |-> "completed"], "closing")
  <2>1. old.pc = "saving" /\ Becomes(i, v)
    BY <1>9 DEF Save
  <2>2. u \in Worker /\ u.saved
    BY <1>1 DEF Worker
  <2> HIDE DEF u
  <2>3. v \in Worker /\ v.pc = "post" /\ v.saved /\ v.next = "closing"
    BY SMTT(30), <1>2, <1>3, <2>2, StagePost, ReportsType
  <2>4. Becoming(old, v)
    BY <2>1, <2>3 DEF Becoming, Honest
  <2> QED BY <1>9, <2>1, <2>3, <2>4 DEF Save, Moves
<1>10. CASE Fail(i)
  <2> DEFINE u == [old EXCEPT !.ok = FALSE]
  <2>1. old.pc = "failing" /\ Step(i, "failing", Reports(u, [stage |-> "failed"], "closing"))
    BY <1>10 DEF Fail, Step
  <2>2. u \in Worker /\ u.saved = old.saved /\ ~u.ok
    BY <1>1 DEF Worker
  <2>3. Becoming(old, Reports(u, [stage |-> "failed"], "closing"))
    BY <1>1, <1>2, <1>3, <2>1, <2>2, StagePost, ReportsBecoming
  <2> QED BY <2>1, <2>3, StepMoves
<1> QED BY <1>4, <1>5, <1>6, <1>7, <1>8, <1>9, <1>10

LEMMA PageMoves ==
  ASSUME TypeOK, NEW i \in Ids, PageTurns(i)
  PROVE  Moves(i)
<1> DEFINE old == worker[i]
<1>1. old \in Worker
  BY DEF TypeOK
<1>2. PICK page \in {"slider", "form", "in", "wrong"}, pc \in {"arming", old.pc} :
                 Step(i, pc, [old EXCEPT !.page = page])
  BY DEF PageTurns
<1>3. [old EXCEPT !.page = page] \in Worker
  BY <1>1, <1>2, FieldTypes DEF Pages
<1> DEFINE u == [old EXCEPT !.page = page]
<1>4. u.pc = old.pc /\ u.post = old.post /\ u.next = old.next /\ u.saved = old.saved /\ u.ok = old.ok
  BY <1>1 DEF Worker
<1>5. Becoming(old, u)
  BY <1>1, <1>3, <1>4, LocalBecoming
<1> QED BY <1>2, <1>5, StepMoves

LEMMA WorkerMoves ==
  ASSUME TypeOK, NEW i \in Ids, Program(i) \/ TimesOut(i) \/ Crash(i) \/ PageTurns(i)
  PROVE  Moves(i)
BY HandlingMoves, PostMoves, QuietMoves, ReportMoves, PageMoves DEF Program

-----------------------------------------------------------------------------
(* Types.                                                                  *)

LEMMA SetStageType ==
  ASSUME NEW s \in Session, NEW stage \in Stages
  PROVE  /\ SetStage(s, stage) \in Session
         /\ SetStage(s, stage).id = s.id
         /\ SetStage(s, stage).stage = stage
         /\ SetStage(s, stage).events = s.events
         /\ SetStage(s, stage).frame = IF stage = "slider" THEN s.frame ELSE "none"
BY DEF SetStage, Session

LEMMA PostedType ==
  ASSUME sess \in Session, NEW i \in Ids, NEW post \in Posts
  PROVE  /\ Posted(i, post) \in Session
         /\ Posted(i, post).id = sess.id
         /\ Posted(i, post).events = sess.events
         /\ FrameNeedsSlider =>
              (Posted(i, post).frame # "none" => Posted(i, post).stage \in {"starting", "slider"})
         /\ Posted(i, post).stage = "completed" =>
              sess.stage = "completed" \/ (sess.id = i /\ post = [stage |-> "completed"])
<1>1. CASE post \in [stage: Stages]
  <2>1. PICK stage \in Stages : post = [stage |-> stage]
    BY <1>1
  <2>2. Posted(i, post) = IF sess.id = i THEN SetStage(sess, stage) ELSE sess
    BY <2>1 DEF Posted, Known
  <2>3. CASE sess.id = i
    <3>1. Posted(i, post) = SetStage(sess, stage)
      BY <2>2, <2>3
    <3>2. stage \in {"starting", "slider"} \/ SetStage(sess, stage).frame = "none"
      BY SetStageType
    <3>3. FrameNeedsSlider => (SetStage(sess, stage).frame # "none"
                                 => SetStage(sess, stage).stage \in {"starting", "slider"})
      BY <3>2, SetStageType
    <3> QED BY <2>1, <2>3, <3>1, <3>3, SetStageType
  <2>4. CASE sess.id # i
    BY <2>2, <2>4 DEF FrameNeedsSlider
  <2> QED BY <2>3, <2>4
<1>2. CASE post \in [shot: Shots]
  <2>1. /\ Posted(i, post) = IF sess.id = i /\ sess.stage \in {"starting", "slider"}
                             THEN [sess EXCEPT !.frame = post.shot] ELSE sess
        /\ post.shot \in Shots
    BY <1>2 DEF Posted, Known
  <2>2. CASE sess.id = i /\ sess.stage \in {"starting", "slider"}
    BY <2>1, <2>2 DEF Session
  <2>3. CASE ~(sess.id = i /\ sess.stage \in {"starting", "slider"})
    BY <2>1, <2>3 DEF FrameNeedsSlider
  <2> QED BY <2>2, <2>3
<1> QED BY <1>1, <1>2 DEF Posts

\* A nonempty set of naturals has a least element.
LEMMA Least ==
  ASSUME NEW S \in SUBSET Nat, S # {}
  PROVE  \E m \in S : \A k \in S : m <= k
<1> DEFINE R == {p \in Nat \X Nat : p[1] < p[2]}
<1>1. IsWellFoundedOn(R, Nat)
  BY NatLessThanWellFounded DEF OpToRel
<1> HIDE DEF R
<1>2. PICK m \in S : \A k \in S : <<k, m>> \notin R
  BY <1>1, WFMin
<1>3. \A k \in S : m <= k
  <2> SUFFICES ASSUME NEW k \in S PROVE m <= k
    OBVIOUS
  <2>1. k \in Nat /\ m \in Nat
    OBVIOUS
  <2>2. ~(k < m)
    BY <1>2, <2>1 DEF R
  <2> QED BY <2>1, <2>2
<1> QED BY <1>3

\* The queue keeps its bound: only one event is added at a time, and one leaves
\* when there are too many.
LEMMA EnqueueType ==
  ASSUME NEW events \in Seq(Events), Len(events) <= MaxEvents, NEW e \in Events
  PROVE  Enqueue(events, e) \in Seq(Events) /\ Len(Enqueue(events, e)) <= MaxEvents
<1> DEFINE longer == IF e = "move" /\ events # <<>> /\ Last(events) = "move"
                     THEN events ELSE Append(events, e)
           moves == {k \in DOMAIN longer : longer[k] = "move"}
           dropped == IF moves = {} THEN 1 ELSE CHOOSE k \in moves : \A j \in moves : k <= j
<1>1. longer \in Seq(Events) /\ Len(longer) <= MaxEvents + 1
  BY LoginAssumption
<1>2. CASE Len(longer) <= MaxEvents
  <2>1. Enqueue(events, e) = longer
    BY <1>1, <1>2, LoginAssumption DEF Enqueue
  <2> QED BY <1>1, <1>2, <2>1
<1>3. CASE Len(longer) > MaxEvents
  <2>1. Enqueue(events, e) = RemoveAt(longer, dropped)
    BY <1>1, <1>3, LoginAssumption DEF Enqueue
  <2>2. dropped \in 1..Len(longer)
    <3>1. CASE moves = {}
      BY <1>1, <1>3, <3>1, LoginAssumption
    <3>2. CASE moves # {}
      <4>1. moves \in SUBSET Nat /\ moves \subseteq 1..Len(longer)
        BY <1>1
      <4>2. \E k \in moves : \A j \in moves : k <= j
        BY <3>2, <4>1, Least
      <4> QED BY <3>2, <4>1, <4>2
    <3> QED BY <3>1, <3>2
  <2> HIDE DEF longer, dropped
  <2> DEFINE before == SubSeq(longer, 1, dropped - 1)
             after == SubSeq(longer, dropped + 1, Len(longer))
  <2>3. before \in Seq(Events) /\ Len(before) = dropped - 1
    BY <1>1, <2>2
  <2>4. after \in Seq(Events) /\ Len(after) = Len(longer) - dropped
    BY <1>1, <2>2
  <2>5. RemoveAt(longer, dropped) = before \o after
    BY DEF RemoveAt
  <2> HIDE DEF before, after
  <2>6. before \o after \in Seq(Events) /\ Len(before \o after) = Len(before) + Len(after)
    BY <2>3, <2>4, ConcatProperties
  <2>7. Len(before \o after) = Len(longer) - 1
    BY <1>1, <2>2, <2>3, <2>4, <2>6
  <2> QED BY <1>1, <2>1, <2>5, <2>6, <2>7, LoginAssumption
<1> QED BY <1>1, <1>2, <1>3, LoginAssumption

LEMMA NoSessionType == NoSession \in Session /\ Len(NoSession.events) = 0
<1>1. <<>> \in Seq(Events) /\ Len(<<>>) = 0 /\ 0 \in 0..MaxLogins
  BY LoginAssumption
<1> QED BY <1>1 DEF NoSession, Session, Stages, Ended

\* What a step of the workbench does to a session.
LEMMA ReapedType ==
  ASSUME NEW s \in Session, NEW w \in Worker
  PROVE  /\ Reaped(s, w) \in Session
         /\ Reaped(s, w).id = s.id
         /\ Reaped(s, w).events = s.events
         /\ Reaped(s, w).stage = s.stage \/ Reaped(s, w).stage = "failed"
              \/ (w.ok /\ Reaped(s, w).stage = "completed")
         /\ Reaped(s, w).frame = "none" \/ Reaped(s, w) = s
<1>1. {"completed", "failed"} \subseteq Stages
  BY DEF Stages, Ended
<1> QED BY <1>1, SetStageType DEF Reaped

\* A shutdown leaves a session that is over, and stops any other.
LEMMA ShutdownShape ==
  ASSUME sess \in Session, Shutdown
  PROVE  /\ sess' \in Session /\ sess'.id = sess.id /\ sess'.events = sess.events
         /\ sess'.stage \in Ended
         /\ sess' = sess \/ (sess'.stage = "stopped" /\ sess'.frame = "none")
<1>1. "stopped" \in Stages /\ "stopped" \in Ended
  BY DEF Stages, Ended
<1>2. CASE sess.stage \in Ended /\ sess' = sess
  BY <1>2
<1>3. CASE sess' = SetStage(sess, "stopped")
  BY <1>1, <1>3, SetStageType
<1> QED BY <1>2, <1>3 DEF Shutdown

\* One worker is ended, if it still runs.
LEMMA EndsOne ==
  ASSUME TypeOK, EndWorker
  PROVE  \E e \in ending, i \in 0..MaxLogins :
           /\ e.id = i /\ ending' = ending \ {e}
           /\ worker' = IF i = 0 \/ worker[i].pc = "exited" THEN worker
                        ELSE [worker EXCEPT ![i] = Dead(worker[i], FALSE)]
           /\ state' \in BOOLEAN
           /\ UNCHANGED <<sess, proc, late, input>>
<1>1. PICK e \in ending :
        /\ ending' = ending \ {e}
        /\ worker' = IF e.id = 0 \/ worker[e.id].pc = "exited" THEN worker
                     ELSE [worker EXCEPT ![e.id] = Dead(worker[e.id], FALSE)]
        /\ state' = (state /\ e.by # "removal")
        /\ UNCHANGED <<sess, proc, late, input>>
  BY DEF EndWorker
<1>2. e.id \in 0..MaxLogins
  BY <1>1 DEF TypeOK, Endings
<1>3. state' \in BOOLEAN
  BY <1>1
<1> QED BY <1>1, <1>2, <1>3

LEMMA SessionStep ==
  ASSUME TypeOK, [Next]_vars
  PROVE  sess' \in Session /\ Len(sess'.events) <= MaxEvents
<1>1. sess \in Session /\ Len(sess.events) <= MaxEvents /\ worker \in [Ids -> Worker]
  BY DEF TypeOK
<1>2. <<>> \in Seq(Events) /\ Len(<<>>) <= MaxEvents
  BY LoginAssumption
<1>3. ASSUME NEW i \in Ids, Moves(i) PROVE sess' \in Session /\ Len(sess'.events) <= MaxEvents
  <2>1. worker[i].post \in Posts
    BY <1>1 DEF Worker
  <2>2. CASE sess' = Posted(i, worker[i].post)
    BY <1>1, <2>1, <2>2, PostedType
  <2>3. CASE sess' = [sess EXCEPT !.events = <<>>]
    BY <1>1, <1>2, <2>3 DEF Session
  <2> QED BY <1>1, <1>3, <2>2, <2>3 DEF Moves
<1>4. ASSUME NEW i \in Ids, Start(i) PROVE sess' \in Session /\ Len(sess'.events) <= MaxEvents
  <2>1. /\ sess' = [id |-> i, stage |-> "starting", frame |-> "none", events |-> <<>>]
        /\ i \in 0..MaxLogins
    BY <1>4 DEF Start, Ids
  <2> QED BY <1>2, <2>1 DEF Session, Stages
<1>5. CASE LateArrives
  <2>1. PICK p \in late : sess' = Posted(p.id, p.post)
    BY <1>5 DEF LateArrives
  <2>2. p.id \in Ids /\ p.post \in Posts
    BY <2>1 DEF TypeOK
  <2> QED BY <1>1, <2>1, <2>2, PostedType
<1>6. ASSUME NEW e \in Pointers, Pointer(e) PROVE sess' \in Session /\ Len(sess'.events) <= MaxEvents
  <2>1. sess' = [sess EXCEPT !.events = Enqueue(sess.events, e)] /\ e \in Events
    BY <1>6 DEF Pointer, Events
  <2>2. sess.events \in Seq(Events)
    BY <1>1 DEF Session
  <2>3. Enqueue(sess.events, e) \in Seq(Events) /\ Len(Enqueue(sess.events, e)) <= MaxEvents
    BY <1>1, <2>1, <2>2, EnqueueType
  <2> QED BY <1>1, <2>1, <2>3 DEF Session
<1>7. CASE Verify
  <2> DEFINE s == [sess EXCEPT !.events = Enqueue(sess.events, "verify")]
  <2>1. sess' = SetStage(s, "verifying")
    BY <1>7 DEF Verify
  <2>2. sess.events \in Seq(Events) /\ "verify" \in Events
    BY <1>1 DEF Session, Events
  <2>3. Enqueue(sess.events, "verify") \in Seq(Events) /\ Len(Enqueue(sess.events, "verify")) <= MaxEvents
    BY <1>1, <2>2, EnqueueType
  <2>4. s \in Session /\ Len(s.events) <= MaxEvents
    BY <1>1, <2>3 DEF Session
  <2> HIDE DEF s
  <2> QED BY <2>1, <2>4, SetStageType DEF Stages
<1>8. CASE Reap
  <2>1. proc \in Ids
    BY <1>8 DEF Reap, TypeOK, Ids
  <2> QED BY <1>1, <1>8, <2>1, ReapedType DEF Reap
<1>9. CASE Removal
  BY <1>9, NoSessionType, LoginAssumption DEF Removal
<1>9a. CASE Shutdown
  BY <1>1, <1>9a, ShutdownShape
<1>10. CASE EndWorker
  BY <1>1, <1>10 DEF EndWorker
<1>11. CASE UNCHANGED vars
  BY <1>1, <1>11 DEF vars
<1> QED BY <1>3, <1>4, <1>5, <1>6, <1>7, <1>8, <1>9, <1>9a, <1>10, <1>11, WorkerMoves DEF Next

LEMMA TypeStep ==
  ASSUME TypeOK, [Next]_vars
  PROVE  TypeOK'
<1>1. sess' \in Session /\ Len(sess'.events) <= MaxEvents
  BY SessionStep
<1>2. worker \in [Ids -> Worker]
  BY DEF TypeOK
<1> DEFINE Rest == /\ proc' \in 0..MaxLogins
                   /\ worker' \in [Ids -> Worker]
                   /\ late' \subseteq [id: Ids, post: Posts]
                   /\ ending' \subseteq Endings
                   /\ state' \in BOOLEAN
                   /\ input' \in 0..MaxInput
<1>3. ASSUME NEW i \in Ids, Moves(i) PROVE Rest
  <2>1. worker[i].post \in Posts
    BY <1>2 DEF Worker
  <2>2. worker' \in [Ids -> Worker]
    BY <1>2, <1>3 DEF Moves, Becomes
  <2> QED BY <1>3, <2>1, <2>2 DEF Moves, TypeOK
<1>4. ASSUME NEW i \in Ids, Start(i) PROVE Rest
  <2>1. NewWorker("opening") \in Worker
    BY NewWorkerType DEF PCs
  <2>2. worker' \in [Ids -> Worker]
    BY <1>2, <1>4, <2>1 DEF Start, Becomes
  <2> QED BY <1>4, <2>2 DEF Start, TypeOK, Ids
<1>0. /\ proc \in 0..MaxLogins
      /\ late \subseteq [id: Ids, post: Posts]
      /\ ending \subseteq Endings
      /\ state \in BOOLEAN
      /\ input \in 0..MaxInput
  BY DEF TypeOK
<1>5. ASSUME LateArrives PROVE Rest
  <2>1. (\E p \in late : late' = late \ {p}) /\ UNCHANGED <<proc, worker, ending, state, input>>
    BY <1>5 DEF LateArrives
  <2> QED BY <1>0, <1>2, <2>1
<1>6. ASSUME NEW e \in Pointers, Pointer(e) PROVE Rest
  BY <1>6, LoginAssumption DEF Pointer, TypeOK
<1>7. ASSUME Verify PROVE Rest
  <2>1. input < MaxInput /\ input' = input + 1 /\ UNCHANGED <<proc, worker, late, ending, state>>
    BY <1>7 DEF Verify
  <2> QED BY <1>0, <1>2, <2>1, LoginAssumption
<1>8. ASSUME Reap PROVE Rest
  <2>1. proc' = 0 /\ UNCHANGED <<worker, late, ending, state, input>>
    BY <1>8 DEF Reap
  <2> QED BY <1>0, <1>2, <2>1, LoginAssumption
<1>9. ASSUME Removal \/ Shutdown PROVE Rest
  <2>1. PICK by \in {"removal", "shutdown"} :
          proc' = 0 /\ ending' = {[id |-> proc, by |-> by]} /\ UNCHANGED <<worker, late, state, input>>
    BY <1>9 DEF Removal, Shutdown, Unregisters
  <2>2. [id |-> proc, by |-> by] \in Endings
    BY <1>0 DEF Endings
  <2> QED BY <1>0, <1>2, <2>1, <2>2, LoginAssumption
<1>10. ASSUME EndWorker PROVE Rest
  <2>1. PICK e \in ending, i \in 0..MaxLogins :
          /\ ending' = ending \ {e}
          /\ worker' = IF i = 0 \/ worker[i].pc = "exited" THEN worker
                       ELSE [worker EXCEPT ![i] = Dead(worker[i], FALSE)]
          /\ state' \in BOOLEAN
          /\ UNCHANGED <<sess, proc, late, input>>
    BY <1>10, EndsOne
  <2>2. i = 0 \/ i \in Ids
    BY <2>1 DEF TypeOK, Ids
  <2>3. i \in Ids => Dead(worker[i], FALSE) \in Worker
    BY <1>2, DeadType
  <2>4. worker' \in [Ids -> Worker]
    BY <1>2, <2>1, <2>2, <2>3
  <2> QED BY <2>1, <2>4 DEF TypeOK
<1>11. ASSUME UNCHANGED vars PROVE Rest
  BY <1>11 DEF vars, TypeOK
<1> HIDE DEF Rest
<1>12. Rest
  BY <1>3, <1>4, <1>5, <1>6, <1>7, <1>8, <1>9, <1>10, <1>11, WorkerMoves DEF Next
<1> QED BY <1>1, <1>12 DEF TypeOK, Rest

LEMMA TypeInit == Init => TypeOK
<1> SUFFICES ASSUME Init PROVE TypeOK
  OBVIOUS
<1>1. NewWorker("absent") \in Worker
  BY NewWorkerType DEF PCs
<1>2. worker \in [Ids -> Worker]
  BY <1>1 DEF Init
<1>3. sess \in Session /\ Len(sess.events) <= MaxEvents
  BY NoSessionType, LoginAssumption DEF Init
<1> QED BY <1>2, <1>3, LoginAssumption DEF Init, TypeOK

\* Every variable keeps its type, and the queue of events its bound.
THEOREM TypeCorrect == Spec => []TypeOK
BY TypeInit, TypeStep, PTL DEF Spec

-----------------------------------------------------------------------------
(* Pictures.                                                               *)

LEMMA FrameStep ==
  ASSUME TypeOK, FrameNeedsSlider, [Next]_vars
  PROVE  FrameNeedsSlider'
<1> DEFINE Fits(s) == s.frame # "none" => s.stage \in {"starting", "slider"}
<1> SUFFICES Fits(sess')
  BY DEF FrameNeedsSlider
<1>1. sess \in Session /\ Fits(sess) /\ worker \in [Ids -> Worker]
  BY DEF TypeOK, FrameNeedsSlider
<1>2. ASSUME NEW i \in Ids, Moves(i) PROVE Fits(sess')
  <2>1. worker[i].post \in Posts
    BY <1>1 DEF Worker
  <2>2. CASE sess' = Posted(i, worker[i].post)
    BY <1>1, <2>1, <2>2, PostedType
  <2>3. CASE sess' = [sess EXCEPT !.events = <<>>]
    BY <1>1, <2>3 DEF Session
  <2> QED BY <1>1, <1>2, <2>2, <2>3 DEF Moves
<1>3. ASSUME NEW i \in Ids, Start(i) PROVE Fits(sess')
  BY <1>3 DEF Start
<1>4. ASSUME LateArrives PROVE Fits(sess')
  <2>1. PICK p \in late : sess' = Posted(p.id, p.post)
    BY <1>4 DEF LateArrives
  <2>2. p.id \in Ids /\ p.post \in Posts
    BY <2>1 DEF TypeOK
  <2> QED BY <1>1, <2>1, <2>2, PostedType
<1>5. ASSUME NEW e \in Pointers, Pointer(e) PROVE Fits(sess')
  <2>1. sess' = [sess EXCEPT !.events = Enqueue(sess.events, e)]
    BY <1>5 DEF Pointer
  <2> QED BY <1>1, <2>1 DEF Session
<1>6. ASSUME Verify PROVE Fits(sess')
  <2> DEFINE s == [sess EXCEPT !.events = Enqueue(sess.events, "verify")]
  <2>1. sess' = SetStage(s, "verifying")
    BY <1>6 DEF Verify
  <2>2. s.events \in Seq(Events) => s \in Session
    BY <1>1 DEF Session
  <2>3. s.events \in Seq(Events)
    <3>1. sess.events \in Seq(Events) /\ "verify" \in Events /\ Len(sess.events) <= MaxEvents
      BY <1>1 DEF Session, Events, TypeOK
    <3> QED BY <1>1, <3>1, EnqueueType DEF Session
  <2> HIDE DEF s
  <2> QED BY <2>1, <2>2, <2>3, SetStageType DEF Stages
<1>7. ASSUME Reap PROVE Fits(sess')
  <2>1. proc \in Ids
    BY <1>7 DEF Reap, TypeOK, Ids
  <2> QED BY <1>1, <1>7, <2>1, ReapedType DEF Reap
<1>8. ASSUME Removal PROVE Fits(sess')
  BY <1>8 DEF Removal, NoSession
<1>8a. ASSUME Shutdown PROVE Fits(sess')
  BY <1>1, <1>8a, ShutdownShape
<1>9. ASSUME EndWorker PROVE Fits(sess')
  BY <1>1, <1>9 DEF EndWorker
<1>10. ASSUME UNCHANGED vars PROVE Fits(sess')
  BY <1>1, <1>10 DEF vars
<1> HIDE DEF Fits
<1> QED BY <1>2, <1>3, <1>4, <1>5, <1>6, <1>7, <1>8, <1>8a, <1>9, <1>10, WorkerMoves DEF Next

\* No post, late or in time, and no end of a worker leaves a picture beside a
\* stage that has none.
THEOREM FramesNeedSliders == Spec => []FrameNeedsSlider
<1>1. Init => FrameNeedsSlider
  BY DEF Init, NoSession, FrameNeedsSlider
<1> QED BY <1>1, FrameStep, TypeCorrect, PTL DEF Spec

-----------------------------------------------------------------------------
(* Workers and the registry.                                               *)

Alive(i) == worker[i].pc \notin {"absent", "exited"}

LEMMA StrayStep ==
  ASSUME TypeOK, NoStrayWorker, [Next]_vars
  PROVE  NoStrayWorker'
<1>1. worker \in [Ids -> Worker]
  BY DEF TypeOK
<1>2. \A i \in Ids : Alive(i) => i = proc \/ \E e \in ending : e.id = i
  BY DEF NoStrayWorker, Alive
<1> SUFFICES \A i \in Ids : Alive(i)' => i = proc' \/ \E e \in ending' : e.id = i
  BY DEF NoStrayWorker, Alive
<1> DEFINE Goal == \A i \in Ids : Alive(i)' => i = proc' \/ \E e \in ending' : e.id = i
<1>3. ASSUME UNCHANGED <<worker, proc, ending>> PROVE Goal
  BY <1>2, <1>3 DEF Alive
<1>4. ASSUME NEW i \in Ids, Moves(i) PROVE Goal
  <2>1. PICK v \in Worker : worker' = [worker EXCEPT ![i] = v] /\ Becoming(worker[i], v)
    BY <1>4 DEF Moves, Becomes
  <2>2. \A j \in Ids : Alive(j)' => Alive(j)
    BY <1>1, <2>1 DEF Alive, Becoming
  <2> QED BY <1>2, <1>4, <2>2 DEF Moves
<1>5. ASSUME NEW i \in Ids, Start(i) PROVE Goal
  <2>1. /\ proc' = i /\ ending' = ending
        /\ worker' = [worker EXCEPT ![i] = NewWorker("opening")]
        /\ ~Registered
    BY <1>5 DEF Start, Becomes
  <2>2. proc = 0 \/ ~Alive(proc)
    BY <2>1 DEF Registered, Alive
  <2>3. 0 \notin Ids
    BY DEF Ids
  <2> QED BY <1>1, <1>2, <2>1, <2>2, <2>3 DEF Alive
<1>6. ASSUME Reap PROVE Goal
  <2>1. worker[proc].pc = "exited" /\ UNCHANGED <<worker, ending>>
    BY <1>6 DEF Reap
  <2> QED BY <1>2, <2>1 DEF Alive
<1>7. ASSUME Removal \/ Shutdown PROVE Goal
  <2>1. PICK by : ending = {} /\ ending' = {[id |-> proc, by |-> by]} /\ worker' = worker
    BY <1>7 DEF Removal, Shutdown, Unregisters
  <2>2. \A i \in Ids : Alive(i)' => i = proc
    BY <1>2, <2>1 DEF Alive
  <2>3. [id |-> proc, by |-> by] \in ending' /\ [id |-> proc, by |-> by].id = proc
    BY <2>1
  <2> QED BY <2>2, <2>3
<1>8. ASSUME EndWorker PROVE Goal
  <2>1. PICK e \in ending, i \in 0..MaxLogins :
          /\ e.id = i /\ ending' = ending \ {e}
          /\ worker' = IF i = 0 \/ worker[i].pc = "exited" THEN worker
                       ELSE [worker EXCEPT ![i] = Dead(worker[i], FALSE)]
          /\ proc' = proc
    BY <1>8, EndsOne
  <2>2. i \in Ids => Dead(worker[i], FALSE).pc = "exited"
    BY <1>1, DeadType
  <2>3. 0 \notin Ids
    BY DEF Ids
  <2>4. \A j \in Ids : Alive(j)' => Alive(j) /\ j # i
    BY <1>1, <2>1, <2>2, <2>3 DEF Alive
  <2> QED BY <1>2, <2>1, <2>4
<1>9. ASSUME LateArrives \/ (\E e \in Pointers : Pointer(e)) \/ Verify \/ UNCHANGED vars
      PROVE  UNCHANGED <<worker, proc, ending>>
  BY <1>9 DEF LateArrives, Pointer, Verify, vars
<1> HIDE DEF Goal
<1>10. Goal
  BY <1>3, <1>4, <1>5, <1>6, <1>7, <1>8, <1>9, WorkerMoves DEF Next
<1> QED BY <1>10 DEF Goal

\* Every running login process is registered or about to be ended by a removal
\* or a shutdown.
THEOREM NoWorkerStrays == Spec => []NoStrayWorker
<1>1. Init => NoStrayWorker
  <2>1. NewWorker("absent").pc = "absent"
    BY DEF NewWorker
  <2> QED BY <2>1 DEF Init, NoStrayWorker
<1> QED BY <1>1, StrayStep, TypeCorrect, PTL DEF Spec

-----------------------------------------------------------------------------
(* Completed logins.                                                       *)

\* CompletedIsSaved with what makes it inductive: every worker is honest, and so
\* is every post of his that is still under way.
SavedInv ==
  /\ CompletedIsSaved
  /\ sess.stage = "completed" => sess.id \in Ids
  /\ \A i \in Ids : Honest(worker[i])
  /\ \A p \in late : p.post = [stage |-> "completed"] => worker[p.id].saved

\* SavedInv without CompletedIsSaved, of the workers and their late posts.
AllHonest ==
  /\ \A i \in Ids : Honest(worker[i])
  /\ \A p \in late : p.post = [stage |-> "completed"] => worker[p.id].saved

LEMMA HonestStep ==
  ASSUME TypeOK, SavedInv, [Next]_vars
  PROVE  AllHonest'
<1>1. worker \in [Ids -> Worker] /\ late \subseteq [id: Ids, post: Posts]
  BY DEF TypeOK
<1>2. AllHonest
  BY DEF SavedInv, AllHonest
<1>3. ASSUME NEW i \in Ids, Moves(i) PROVE AllHonest'
  <2>1. PICK v \in Worker : worker' = [worker EXCEPT ![i] = v] /\ Becoming(worker[i], v)
    BY <1>3 DEF Moves, Becomes
  <2>2. Honest(worker[i]) /\ Honest(v)
    BY <1>2, <2>1 DEF AllHonest, Becoming
  <2>3. \A j \in Ids : Honest(worker'[j]) /\ (worker[j].saved => worker'[j].saved)
    BY <1>1, <1>2, <2>1, <2>2 DEF AllHonest, Becoming
  <2>4. \A p \in late : p.id \in Ids
    BY <1>1
  <2>5. CASE late' = late
    BY <1>2, <2>3, <2>4, <2>5 DEF AllHonest
  <2>6. CASE late' = late \cup {[id |-> i, post |-> worker[i].post]}
    <3>1. ASSUME NEW p \in late', p.post = [stage |-> "completed"] PROVE worker'[p.id].saved
      <4>1. CASE p \in late
        BY <1>2, <2>3, <2>4, <3>1, <4>1 DEF AllHonest
      <4>2. CASE p = [id |-> i, post |-> worker[i].post]
        BY <2>2, <2>3, <3>1, <4>2 DEF Honest
      <4> QED BY <2>6, <4>1, <4>2
    <3> QED BY <2>3, <3>1 DEF AllHonest
  <2> QED BY <1>3, <2>5, <2>6 DEF Moves
<1>4. ASSUME NEW i \in Ids, Start(i) PROVE AllHonest'
  <2>1. worker' = [worker EXCEPT ![i] = NewWorker("opening")] /\ late' = late
    BY <1>4 DEF Start, Becomes
  <2>2. Honest(NewWorker("opening"))
    BY NewWorkerType, NoPostType DEF Honest, PCs
  <2>3. ~worker[i].saved
    BY <1>2, <1>4 DEF Start, AllHonest, Honest
  <2>4. \A p \in late : p.id \in Ids
    BY <1>1
  <2> QED BY <1>1, <1>2, <2>1, <2>2, <2>3, <2>4 DEF AllHonest
<1>5. ASSUME EndWorker PROVE AllHonest'
  <2>1. PICK i \in 0..MaxLogins :
          /\ worker' = IF i = 0 \/ worker[i].pc = "exited" THEN worker
                       ELSE [worker EXCEPT ![i] = Dead(worker[i], FALSE)]
          /\ late' = late
    BY <1>5, EndsOne
  <2>2. CASE i = 0 \/ worker[i].pc = "exited"
    BY <1>2, <2>1, <2>2 DEF AllHonest
  <2>3. CASE i # 0 /\ worker[i].pc # "exited"
    <3>1. i \in Ids
      BY <2>3 DEF TypeOK, Ids
    <3>2. Honest(Dead(worker[i], FALSE)) /\ (worker[i].saved => Dead(worker[i], FALSE).saved)
      BY <1>1, <3>1, DeadType, NoPostType DEF Honest
    <3> HIDE DEF Dead
    <3>3. \A p \in late : p.id \in Ids
      BY <1>1
    <3> QED BY <1>1, <1>2, <2>1, <2>3, <3>1, <3>2, <3>3 DEF AllHonest
  <2> QED BY <2>2, <2>3
<1>6. ASSUME LateArrives PROVE AllHonest'
  BY <1>2, <1>6 DEF LateArrives, AllHonest
<1>7. ASSUME (\E e \in Pointers : Pointer(e)) \/ Verify \/ Reap \/ Removal \/ Shutdown
             \/ UNCHANGED vars
      PROVE  AllHonest'
  <2>1. worker' = worker /\ late' = late
    BY <1>7 DEF Pointer, Verify, Reap, Removal, Shutdown, vars
  <2> QED BY <1>2, <2>1 DEF AllHonest
<1> QED BY <1>3, <1>4, <1>5, <1>6, <1>7, WorkerMoves DEF Next

\* A session that is completed after a step is of a worker that has stored its login.
LEMMA CompletedStep ==
  ASSUME TypeOK, SavedInv, [Next]_vars, sess'.stage = "completed"
  PROVE  sess'.id \in Ids /\ worker'[sess'.id].saved
<1>1. sess \in Session /\ worker \in [Ids -> Worker]
  BY DEF TypeOK
<1>2. sess.stage = "completed" => sess.id \in Ids /\ worker[sess.id].saved
  BY DEF SavedInv, CompletedIsSaved
<1>3. \A i \in Ids : Honest(worker[i])
  BY DEF SavedInv
<1> DEFINE Goal == sess'.id \in Ids /\ worker'[sess'.id].saved
<1>4. ASSUME sess'.stage = sess.stage, sess'.id = sess.id, worker' = worker PROVE Goal
  BY <1>2, <1>4
<1>5. ASSUME NEW i \in Ids, Moves(i) PROVE Goal
  <2>1. PICK v \in Worker : worker' = [worker EXCEPT ![i] = v] /\ Becoming(worker[i], v)
    BY <1>5 DEF Moves, Becomes
  <2>2. \A j \in Ids : worker[j].saved => worker'[j].saved
    BY <1>1, <2>1 DEF Becoming
  <2>3. worker[i].post \in Posts
    BY <1>1 DEF Worker
  <2>4. CASE sess' = Posted(i, worker[i].post)
    <3>1. /\ sess'.id = sess.id
          /\ sess.stage = "completed" \/ (sess.id = i /\ worker[i].post = [stage |-> "completed"])
      BY <1>1, <2>3, <2>4, PostedType
    <3> QED BY <1>2, <1>3, <2>2, <3>1 DEF Honest
  <2>5. CASE sess' = sess \/ sess' = [sess EXCEPT !.events = <<>>]
    <3>1. sess'.id = sess.id /\ sess'.stage = sess.stage
      BY <1>1, <2>5 DEF Session
    <3> QED BY <1>2, <2>2, <3>1
  <2> QED BY <1>5, <2>4, <2>5 DEF Moves
<1>6. ASSUME NEW i \in Ids, Start(i) PROVE Goal
  BY <1>6 DEF Start
<1>7. ASSUME LateArrives PROVE Goal
  <2>1. PICK p \in late : sess' = Posted(p.id, p.post) /\ worker' = worker
    BY <1>7 DEF LateArrives
  <2>2. p.id \in Ids /\ p.post \in Posts
    BY <2>1 DEF TypeOK
  <2>3. /\ sess'.id = sess.id
        /\ sess.stage = "completed" \/ (sess.id = p.id /\ p.post = [stage |-> "completed"])
    BY <1>1, <2>1, <2>2, PostedType
  <2> QED BY <1>2, <2>1, <2>2, <2>3 DEF SavedInv
<1>8. ASSUME NEW e \in Pointers, Pointer(e) PROVE Goal
  <2>1. sess' = [sess EXCEPT !.events = Enqueue(sess.events, e)] /\ worker' = worker
    BY <1>8 DEF Pointer
  <2>2. sess'.id = sess.id /\ sess'.stage = sess.stage
    BY <1>1, <2>1 DEF Session
  <2> QED BY <1>4, <2>1, <2>2
<1>9. ASSUME Verify PROVE Goal
  <2>1. sess'.stage = "verifying"
    <3> DEFINE s == [sess EXCEPT !.events = Enqueue(sess.events, "verify")]
    <3>1. sess' = SetStage(s, "verifying")
      BY <1>9 DEF Verify
    <3>2. sess.events \in Seq(Events) /\ "verify" \in Events /\ Len(sess.events) <= MaxEvents
      BY <1>1 DEF Session, Events, TypeOK
    <3>3. Enqueue(sess.events, "verify") \in Seq(Events)
      BY <3>2, EnqueueType
    <3>4. s \in Session
      BY <1>1, <3>3 DEF Session
    <3> HIDE DEF s
    <3> QED BY <3>1, <3>4, SetStageType DEF Stages
  <2> QED BY <2>1
<1>10. ASSUME Reap PROVE Goal
  <2>1. proc \in Ids /\ worker' = worker
    BY <1>10 DEF Reap, TypeOK, Ids
  <2>2. CASE sess.id = proc
    <3>1. sess' = Reaped(sess, worker[proc])
      BY <1>10, <2>2 DEF Reap
    <3>2. sess'.id = sess.id /\ (sess.stage = "completed" \/ worker[proc].ok)
      BY <1>1, <2>1, <3>1, ReapedType
    <3> QED BY <1>2, <1>3, <2>1, <2>2, <3>2 DEF Honest
  <2>3. CASE sess.id # proc
    BY <1>4, <1>10, <2>1, <2>3 DEF Reap
  <2> QED BY <2>2, <2>3
<1>11. ASSUME Removal PROVE Goal
  BY <1>11 DEF Removal, NoSession
<1>11a. ASSUME Shutdown PROVE Goal
  <2>1. sess' = sess /\ worker' = worker
    BY <1>1, <1>11a, ShutdownShape DEF Shutdown
  <2> QED BY <1>4, <2>1
<1>12. ASSUME EndWorker PROVE Goal
  <2>1. PICK i \in 0..MaxLogins :
          /\ worker' = IF i = 0 \/ worker[i].pc = "exited" THEN worker
                       ELSE [worker EXCEPT ![i] = Dead(worker[i], FALSE)]
          /\ sess' = sess
    BY <1>12, EndsOne
  <2>2. \A j \in Ids : worker[j].saved => worker'[j].saved
    <3>1. i \in Ids => Dead(worker[i], FALSE).saved = worker[i].saved
      BY <1>1, DeadType
    <3>2. i = 0 \/ i \in Ids
      BY <2>1 DEF TypeOK, Ids
    <3> QED BY <1>1, <2>1, <3>1, <3>2
  <2> QED BY <1>2, <2>1, <2>2
<1>13. ASSUME UNCHANGED vars PROVE Goal
  BY <1>4, <1>13 DEF vars
<1> HIDE DEF Goal
<1>14. Goal
  BY <1>5, <1>6, <1>7, <1>8, <1>9, <1>10, <1>11, <1>11a, <1>12, <1>13, WorkerMoves DEF Next
<1> QED BY <1>14 DEF Goal

\* A session the user sees completed has stored its login.
THEOREM CompletedLoginsAreSaved == Spec => []CompletedIsSaved
<1>1. Init => SavedInv
  <2> SUFFICES ASSUME Init PROVE SavedInv
    OBVIOUS
  <2>1. \A i \in Ids : Honest(worker[i])
    BY NewWorkerType, NoPostType DEF Init, Honest, PCs
  <2> QED BY <2>1 DEF Init, NoSession, SavedInv, CompletedIsSaved
<1>2. ASSUME TypeOK, SavedInv, [Next]_vars PROVE SavedInv'
  BY <1>2, HonestStep, CompletedStep DEF SavedInv, AllHonest, CompletedIsSaved
<1>3. SavedInv => CompletedIsSaved
  BY DEF SavedInv
<1> QED BY <1>1, <1>2, <1>3, TypeCorrect, PTL DEF Spec

-----------------------------------------------------------------------------
(* The end of a login.                                                     *)

\* When a worker is reaped its session is over, unless a removal has taken the
\* saved session away.
THEOREM ReapingSettles == Spec => ReapSettles
<1> DEFINE Settles == proc # 0 /\ proc' = 0 /\ sess'.id = proc
                        => sess'.stage \in Ended \/ (worker[proc].ok /\ ~state)
<1>1. ASSUME TypeOK, [Next]_vars PROVE Settles
  <2> SUFFICES ASSUME proc # 0, proc' = 0, sess'.id = proc
               PROVE  sess'.stage \in Ended \/ (worker[proc].ok /\ ~state)
    OBVIOUS
  <2>1. proc \in Ids /\ sess \in Session /\ worker \in [Ids -> Worker]
    BY <1>1, LoginAssumption DEF TypeOK, Ids
  <2>2. \A i \in Ids : ~Moves(i) /\ ~Start(i)
    BY DEF Moves, Start, Ids
  <2>3. ~LateArrives /\ ~(\E e \in Pointers : Pointer(e)) /\ ~Verify /\ ~EndWorker
    BY DEF LateArrives, Pointer, Verify, EndWorker
  <2>4. ~Removal
    BY DEF Removal, NoSession
  <2>5. ~UNCHANGED vars
    BY DEF vars
  <2>6. CASE Shutdown
    BY <2>1, <2>6, ShutdownShape
  <2>7. Reap \/ Shutdown
    BY <1>1, <2>2, <2>3, <2>4, <2>5, WorkerMoves DEF Next
  <2>8. CASE Reap
    <3>1. sess.id = proc /\ sess' = Reaped(sess, worker[proc])
      BY <2>1, <2>8, ReapedType DEF Reap
    <3>2. {"completed", "failed"} \subseteq Stages
      BY DEF Stages, Ended
    <3> QED BY <2>1, <3>1, <3>2, SetStageType DEF Reaped, Ended
  <2> QED BY <2>6, <2>7, <2>8
<1>2. TypeOK /\ [Next]_vars => [Settles]_vars
  BY <1>1
<1> HIDE DEF Settles
<1>3. Spec => [][Settles]_vars
  BY <1>2, TypeCorrect, PTL DEF Spec
<1> QED BY <1>3 DEF ReapSettles, Settles

-----------------------------------------------------------------------------
(* A turn of the loop is bounded.                                          *)

\* How far a worker is, in three numbers of which an earlier one outweighs those
\* that follow: its place in the program, where a turn of the loop ends at the
\* deadline, and a post counts for the place it leads to;
PlaceOf(pc) ==
  CASE pc = "absent"    -> 16 [] pc = "opening"  -> 15 [] pc = "arming"     -> 14
    [] pc = "snapping"  -> 13 [] pc = "announcing" -> 12 [] pc = "handling" -> 11
    [] pc = "capturing" -> 10 [] pc = "shooting" -> 9  [] pc = "checking"   -> 8
    [] pc = "polling"   -> 7  [] pc = "saving"   -> 6  [] pc = "failing"    -> 4
    [] pc = "closing"   -> 3  [] pc = "exited"   -> 2  [] OTHER -> 0

Success == [stage |-> "completed"]
Failure == [stage |-> "failed"]

Place(w) ==
  IF w.pc # "post" THEN PlaceOf(w.pc) ELSE IF w.post = Success THEN 5 ELSE PlaceOf(w.next)

\* the events it has in hand; and what it has still to say there: a code that could
\* not be reported is asked for again.
ToSay(w) == IF w.pc # "post" THEN 0 ELSE IF w.post = [stage |-> "verifying"] THEN 2 ELSE 1

Rank(w) == <<Place(w), Len(w.batch), ToSay(w)>>

\* The lexicographic order of three numbers.
Less  == {p \in Nat \X Nat : p[1] < p[2]}
Below == LexProductOrdering(Less, Nat, 3)

\* Why an infinite descent in that order cannot be.
LEMMA BelowIsWellFounded == IsWellFoundedOn(Below, [1..3 -> Nat])
<1>1. IsWellFoundedOn(Less, Nat)
  BY NatLessThanWellFounded DEF Less, OpToRel
<1> HIDE DEF Less
<1> QED
  BY <1>1, WFLexProductOrdering DEF Below

LEMMA Lexicographic ==
  ASSUME NEW a \in [1..3 -> Nat], NEW b \in [1..3 -> Nat],
         NEW j \in 1..3, a[j] < b[j], \A i \in 1..(j - 1) : a[i] = b[i]
  PROVE  <<a, b>> \in Below
<1>1. <<a[j], b[j]>> \in Less
  BY DEF Less
<1> HIDE DEF Less
<1> QED
  BY <1>1 DEF Below, LexProductOrdering

\* What a post leads to: the end of a login that has succeeded or failed, and
\* otherwise on in the program.
Leads(w) ==
  w.pc = "post" =>
    \/ w.post \in {Success, Failure} /\ w.next = "closing"
    \/ /\ w.post \notin {Success, Failure}
       /\ w.next \in {"arming", "announcing", "polling", "handling", "capturing", "checking"}

AllLead == \A i \in Ids : Leads(worker[i])

\* A worker w that becomes v is nearer to its deadline or its end.
Lower(v, w) ==
  /\ Leads(v)
  /\ \/ Place(v) < Place(w)
     \/ Place(v) = Place(w) /\ Len(v.batch) < Len(w.batch)
     \/ Place(v) = Place(w) /\ Len(v.batch) = Len(w.batch) /\ ToSay(v) < ToSay(w)

Falls(v, w) == <<Rank(v), Rank(w)>> \in Below

LEMMA LowerFalls ==
  ASSUME NEW v \in Worker, NEW w \in Worker, Lower(v, w)
  PROVE  Falls(v, w)
<1> DEFINE P(u) == Place(u)
           L(u) == Len(u.batch)
           T(u) == ToSay(u)
<1>1. \A u \in Worker : P(u) \in Nat /\ L(u) \in Nat /\ T(u) \in Nat
  <2> SUFFICES ASSUME NEW u \in Worker PROVE P(u) \in Nat /\ L(u) \in Nat /\ T(u) \in Nat
    OBVIOUS
  <2>1. P(u) \in Nat
    BY DEF Place, PlaceOf
  <2>2. u.batch \in Seq(Events)
    BY DEF Worker
  <2> QED
    BY <2>1, <2>2 DEF ToSay
<1>2. \A u \in Worker : /\ Rank(u) \in [1..3 -> Nat] /\ Rank(u)[1] = P(u)
                        /\ Rank(u)[2] = L(u) /\ Rank(u)[3] = T(u)
  BY <1>1 DEF Rank
<1>3. \/ P(v) < P(w)
      \/ P(v) = P(w) /\ L(v) < L(w)
      \/ P(v) = P(w) /\ L(v) = L(w) /\ T(v) < T(w)
  BY DEF Lower
<1> HIDE DEF P, L, T, Rank, Below
<1>4. PICK j \in 1..3 : Rank(v)[j] < Rank(w)[j] /\ \A i \in 1..(j - 1) : Rank(v)[i] = Rank(w)[i]
  <2>1. CASE P(v) < P(w)
    <3> WITNESS 1 \in 1..3
    <3> QED BY <2>1, <1>2
  <2>2. CASE P(v) = P(w) /\ L(v) < L(w)
    <3> WITNESS 2 \in 1..3
    <3>1. \A i \in 1..(2 - 1) : i = 1
      OBVIOUS
    <3> QED BY <2>2, <1>2, <3>1
  <2>3. CASE P(v) = P(w) /\ L(v) = L(w) /\ T(v) < T(w)
    <3> WITNESS 3 \in 1..3
    <3>1. \A i \in 1..(3 - 1) : i \in {1, 2}
      OBVIOUS
    <3> QED BY <2>3, <1>2, <3>1
  <2> QED
    BY <1>3, <2>1, <2>2, <2>3
<1> QED
  BY <1>2, <1>4, Lexicographic DEF Falls

\* What a worker that goes on, reports or ends has in hand.
LEMMA GoesOnFar ==
  ASSUME NEW w \in Worker, NEW pc \in PCs
  PROVE  /\ GoesOn(w, pc).pc = pc
         /\ GoesOn(w, pc).batch = <<>> \/ GoesOn(w, pc).batch = w.batch
         /\ pc \notin {"failing", "closing"} => GoesOn(w, pc).batch = w.batch
<1>1. PICK c \in Worker : c = Carried(w, pc)
  BY CarriedType
<1>2. GoesOn(w, pc) = [c EXCEPT !.pc = pc, !.post = NoPost, !.next = "opening"]
  BY <1>1 DEF GoesOn
<1>3. c.batch = <<>> \/ c.batch = w.batch
  BY <1>1 DEF Carried, NewWorker
<1>4. pc \notin {"failing", "closing"} => c = w
  BY <1>1 DEF Carried
<1> QED
  BY <1>1, <1>2, <1>3, <1>4 DEF Worker

LEMMA ReportsFar ==
  ASSUME NEW w \in Worker, NEW post, NEW pc \in PCs
  PROVE  /\ Reports(w, post, pc).pc = "post"
         /\ Reports(w, post, pc).post = post
         /\ Reports(w, post, pc).next = pc
         /\ Reports(w, post, pc).batch = <<>> \/ Reports(w, post, pc).batch = w.batch
         /\ pc \notin {"failing", "closing"} => Reports(w, post, pc).batch = w.batch
<1>1. PICK c \in Worker : c = Carried(w, pc)
  BY CarriedType
<1>2. Reports(w, post, pc) = [c EXCEPT !.pc = "post", !.post = post, !.next = pc]
  BY <1>1 DEF Reports
<1>3. c.batch = <<>> \/ c.batch = w.batch
  BY <1>1 DEF Carried, NewWorker
<1>4. pc \notin {"failing", "closing"} => c = w
  BY <1>1 DEF Carried
<1> QED
  BY <1>1, <1>2, <1>3, <1>4 DEF Worker

LEMMA DeadFar ==
  ASSUME NEW w \in Worker, NEW ok
  PROVE  Dead(w, ok).pc = "exited"
BY DEF Dead, NewWorker

\* A process that ends is at its end, wherever it was.
LEMMA DeathLower ==
  ASSUME NEW w \in Worker, NEW ok, w.pc # "exited", Leads(w)
  PROVE  Lower(Dead(w, ok), w)
<1>1. PlaceOf("exited") < Place(w)
  BY DEF Place, PlaceOf, Leads, Worker, PCs
<1> QED
  BY <1>1, DeadFar DEF Lower, Leads, Place

\* Posts are told apart by what they say.
LEMMA PostsDiffer ==
  /\ \A stage \in Stages : stage # "completed" => [stage |-> stage] # Success
  /\ \A stage \in Stages : stage # "failed" => [stage |-> stage] # Failure
  /\ \A w : Picture(w) \notin {Success, Failure}
<1>1. \A stage \in Stages : [stage |-> stage].stage = stage
  OBVIOUS
<1>2. \A w : DOMAIN Picture(w) = {"shot"}
  BY DEF Picture
<1>3. DOMAIN Success = {"stage"} /\ DOMAIN Failure = {"stage"}
  BY DEF Success, Failure
<1>4. Success.stage = "completed" /\ Failure.stage = "failed"
  BY DEF Success, Failure
<1>5. \A w : Picture(w) \notin {Success, Failure}
  BY <1>2, <1>3
<1>6. \A stage \in Stages : stage # "completed" => [stage |-> stage] # Success
  BY <1>1, <1>4
<1>7. \A stage \in Stages : stage # "failed" => [stage |-> stage] # Failure
  BY <1>1, <1>4
<1> QED
  BY <1>5, <1>6, <1>7

\* Two ways to be lower: to go on at a later place, and to report from there.
LEMMA GoesLower ==
  ASSUME NEW w \in Worker, NEW pc \in PCs, pc # "post", PlaceOf(pc) < Place(w)
  PROVE  Lower(GoesOn(w, pc), w)
BY GoesOnFar DEF Lower, Leads, Place

LEMMA ReportsLower ==
  ASSUME NEW w \in Worker, NEW u \in Worker, NEW post,
         post \notin {Success, Failure},
         NEW pc \in {"arming", "announcing", "polling", "handling", "capturing", "checking"},
         PlaceOf(pc) < Place(w)
  PROVE  Lower(Reports(u, post, pc), w)
<1>1. pc \in PCs
  BY DEF PCs
<1> QED
  BY <1>1, ReportsFar DEF Lower, Leads, Place

\* A post, delivered or not, takes its worker on.
LEMMA AskingLower ==
  ASSUME NEW w \in Worker, w.pc = "post", Leads(w), w.post = [stage |-> "verifying"]
  PROVE  Lower(AsksForCode(w, w.next), w)
<1> DEFINE u == [w EXCEPT !.code = FALSE]
           v == Reports(u, [stage |-> "code_required"], w.next)
<1>1. u \in Worker /\ u.batch = w.batch
  BY DEF Worker
<1>2. /\ [stage |-> "verifying"] \notin {Success, Failure}
      /\ [stage |-> "code_required"] \notin {Success, Failure}
  BY PostsDiffer DEF Stages
<1>3. w.next \in {"arming", "announcing", "polling", "handling", "capturing", "checking"}
  BY <1>2 DEF Leads
<1>4. w.next \in PCs
  BY DEF Worker
<1> HIDE DEF u
<1>5. /\ v.pc = "post" /\ v.post = [stage |-> "code_required"] /\ v.next = w.next
      /\ v.batch = w.batch
  BY <1>1, <1>3, <1>4, ReportsFar
<1>6. [stage |-> "code_required"] # [stage |-> "verifying"]
  <2>1. [stage |-> "code_required"].stage = "code_required" /\ [stage |-> "verifying"].stage = "verifying"
    OBVIOUS
  <2> QED BY <2>1
<1>7. AsksForCode(w, w.next) = v
  BY DEF AsksForCode, u
<1> HIDE DEF v
<1>8. Place(v) = Place(w) /\ ToSay(v) = 1 /\ ToSay(w) = 2
  BY <1>2, <1>5, <1>6 DEF Place, ToSay
<1>9. Leads(v)
  BY <1>2, <1>3, <1>5 DEF Leads
<1> QED
  BY <1>5, <1>7, <1>8, <1>9 DEF Lower

LEMMA RefusedLower ==
  ASSUME NEW w \in Worker, w.pc = "post", Leads(w)
  PROVE  Lower(Refused(w), w)
<1>1. {"closing", "failing"} \subseteq PCs
  BY DEF PCs
<1>2. CASE w.post = Failure
  <2> DEFINE v == GoesOn(w, "closing")
  <2>1. v.pc = "closing" /\ (v.batch = <<>> \/ v.batch = w.batch)
    BY <1>1, GoesOnFar
  <2>2. Failure # Success /\ w.next = "closing"
    BY <1>2, PostsDiffer DEF Leads, Failure, Stages, Ended
  <2>3. Refused(w) = v
    BY <1>2 DEF Refused, Failure
  <2> HIDE DEF v
  <2>4. Place(v) = Place(w) /\ ToSay(v) = 0 /\ ToSay(w) > 0
    BY <1>2, <2>1, <2>2 DEF Place, ToSay
  <2>5. Len(v.batch) <= Len(w.batch) /\ Len(v.batch) \in Nat /\ Len(w.batch) \in Nat
    BY <2>1 DEF Worker
  <2>6. Leads(v)
    BY <2>1 DEF Leads
  <2> QED
    BY <2>3, <2>4, <2>5, <2>6 DEF Lower
<1>3. CASE w.post = [stage |-> "verifying"]
  <2>1. w.post # Failure
    BY <1>3, PostsDiffer DEF Stages
  <2> QED
    BY <1>3, <2>1, AskingLower DEF Refused, Failure
<1>4. CASE w.post \notin {Failure, [stage |-> "verifying"]}
  <2>1. PlaceOf("failing") < Place(w)
    BY <1>4 DEF Place, PlaceOf, Leads
  <2>2. Lower(GoesOn(w, "failing"), w)
    BY <1>1, <2>1, GoesLower
  <2> QED
    BY <1>4, <2>2 DEF Refused, Failure
<1> QED
  BY <1>2, <1>3, <1>4

LEMMA AcceptedLower ==
  ASSUME NEW w \in Worker, w.pc = "post", Leads(w)
  PROVE  Lower(GoesOn(w, w.next), w)
<1> DEFINE v == GoesOn(w, w.next)
<1>1. w.next \in PCs /\ w.next # "post"
  BY DEF Worker, Leads
<1>2. v.pc = w.next /\ (v.batch = <<>> \/ v.batch = w.batch)
  BY <1>1, GoesOnFar
<1> HIDE DEF v
<1>3. Place(v) <= Place(w) /\ ToSay(v) = 0 /\ ToSay(w) > 0
  BY <1>1, <1>2 DEF Place, PlaceOf, ToSay, Leads
<1>4. Len(v.batch) <= Len(w.batch) /\ Len(v.batch) \in Nat /\ Len(w.batch) \in Nat
  BY <1>2 DEF Worker
<1>5. Leads(v)
  BY <1>1, <1>2 DEF Leads
<1>6. Place(v) \in Nat /\ Place(w) \in Nat
  BY DEF Place, PlaceOf
<1>7. Lower(v, w)
  BY <1>3, <1>4, <1>5, <1>6 DEF Lower
<1> QED
  BY <1>7 DEF v

\* A worker that has looked at the deadline, and found neither that nor the login,
\* starts another turn of the loop.
TurnsAgain(i) ==
  worker[i].pc = "polling" /\ worker'[i].pc = "handling" /\ Leads(worker'[i])

Nears(i) == Lower(worker'[i], worker[i]) \/ TurnsAgain(i)

LEMMA BecomesLower ==
  ASSUME TypeOK, NEW i \in Ids, NEW v, Becomes(i, v), Lower(v, worker[i])
  PROVE  Nears(i)
<1>1. worker'[i] = v
  BY DEF Becomes, TypeOK
<1> QED
  BY <1>1 DEF Nears

LEMMA PostNears ==
  ASSUME TypeOK, AllLead, NEW i \in Ids, Deliver(i) \/ TimesOut(i)
  PROVE  Nears(i)
<1>1. worker[i] \in Worker /\ worker[i].pc = "post" /\ Leads(worker[i])
  BY DEF TypeOK, AllLead, Deliver, TimesOut
<1>2. Lower(Refused(worker[i]), worker[i]) /\ Lower(GoesOn(worker[i], worker[i].next), worker[i])
  BY <1>1, RefusedLower, AcceptedLower
<1> QED
  BY <1>2, BecomesLower DEF Deliver, TimesOut

\* The steps after which the worker goes on without a word.
LEMMA QuietNears ==
  ASSUME TypeOK, NEW i \in Ids,
         Arm(i) \/ Overdue(i) \/ SeeLogin(i) \/ Capture(i) \/ Raises(i)
  PROVE  Nears(i)
<1> DEFINE old == worker[i]
<1>1. old \in Worker
  BY DEF TypeOK
<1>2. PICK to \in {"snapping", "failing", "saving", "checking", "shooting"} :
        /\ Becomes(i, GoesOn(old, to))
        /\ \/ old.pc = "arming" /\ to = "snapping"
           \/ old.pc \in {"arming", "handling", "shooting", "checking", "saving", "polling"} /\ to = "failing"
           \/ old.pc = "polling" /\ to = "saving"
           \/ old.pc = "capturing" /\ to \in {"checking", "shooting"}
  BY DEF Arm, Overdue, SeeLogin, Capture, Raises, Step
<1>3. to \in PCs /\ to # "post" /\ PlaceOf(to) < Place(old)
  BY <1>2 DEF PCs, Place, PlaceOf
<1>4. Lower(GoesOn(old, to), old)
  BY <1>1, <1>3, GoesLower
<1> QED
  BY <1>2, <1>4, BecomesLower

\* The look at the queue of events.
LEMMA PollNears ==
  ASSUME TypeOK, NEW i \in Ids, Poll(i)
  PROVE  Nears(i)
<1> DEFINE old == worker[i]
           v == [GoesOn(old, "handling") EXCEPT !.batch = sess.events]
<1>1. old \in Worker /\ old.pc = "polling" /\ {"handling", "failing"} \subseteq PCs
  BY DEF TypeOK, Poll, PCs
<1>2. CASE Becomes(i, v)
  <2>1. GoesOn(old, "handling") \in Worker /\ GoesOn(old, "handling").pc = "handling"
    BY <1>1, GoesOnType
  <2>2. v.pc = "handling"
    BY <2>1 DEF Worker
  <2> HIDE DEF v
  <2>3. worker'[i] = v
    BY <1>2 DEF Becomes, TypeOK
  <2> QED
    BY <1>1, <2>2, <2>3 DEF Nears, TurnsAgain, Leads
<1>3. CASE Becomes(i, GoesOn(old, "failing"))
  <2>1. PlaceOf("failing") < Place(old)
    BY <1>1 DEF Place, PlaceOf
  <2>2. Lower(GoesOn(old, "failing"), old)
    BY <1>1, <2>1, GoesLower
  <2> QED
    BY <1>3, <2>2, BecomesLower
<1> QED
  BY <1>2, <1>3 DEF Poll

\* An event is handled, or all are.
LEMMA EventNears ==
  ASSUME TypeOK, NEW i \in Ids, HandleVerify(i) \/ HandlePointer(i)
  PROVE  Nears(i)
<1> DEFINE old == worker[i]
           w == Handled(old)
           coded == [w EXCEPT !.page = "pending", !.code = TRUE, !.done = TRUE,
                              !.ticks = 0, !.down = FALSE]
           uncoded == [w EXCEPT !.code = FALSE]
<1>1. old \in Worker /\ old.pc = "handling" /\ old.batch # <<>>
  BY DEF TypeOK, HandleVerify, HandlePointer, Step, HasNext
<1>2. /\ Tail(old.batch) \in Seq(Events) /\ Len(Tail(old.batch)) < Len(old.batch)
  <2>1. old.batch \in Seq(Events)
    BY <1>1 DEF Worker
  <2> QED
    BY <1>1, <2>1
<1>3. w \in Worker /\ w.batch = Tail(old.batch) /\ w.pc = "handling"
  BY <1>1, <1>2 DEF Handled, Worker
<1>4. "handling" \in PCs
  BY DEF PCs
<1> HIDE DEF w
<1>5. ASSUME NEW v, v.pc = "handling" \/ (v.pc = "post" /\ v.next = "handling" /\ v.post \notin {Success, Failure}),
             v.batch = w.batch, Becomes(i, v)
      PROVE  Nears(i)
  <2>1. Place(v) = Place(old) /\ Leads(v)
    BY <1>1, <1>5 DEF Place, Leads
  <2> QED
    BY <1>2, <1>3, <1>5, <2>1, BecomesLower DEF Lower
<1>6. CASE HandleVerify(i)
  <2>1. \/ Becomes(i, Reports(coded, [stage |-> "verifying"], "handling"))
        \/ Becomes(i, Reports(uncoded, [stage |-> "code_required"], "handling"))
    BY <1>6 DEF HandleVerify, Step, AsksForCode, w
  <2>2. uncoded \in Worker /\ uncoded.batch = w.batch
    BY <1>3 DEF Worker
  <2>3. coded \in Worker /\ coded.batch = w.batch
    <3>1. PICK a \in Worker : a = [w EXCEPT !.page = "pending"] /\ a.batch = w.batch
      <4>1. [w EXCEPT !.page = "pending"] \in Worker
        BY <1>3, FieldTypes
      <4>2. [w EXCEPT !.page = "pending"].batch = w.batch
        BY <1>3 DEF Worker
      <4> QED BY <4>1, <4>2
    <3>2. PICK b \in Worker : b = [a EXCEPT !.code = TRUE]
      BY FieldTypes
    <3>3. PICK c \in Worker : c = [b EXCEPT !.done = TRUE]
      BY FieldTypes
    <3>4. PICK d \in Worker : d = [c EXCEPT !.ticks = 0]
      BY FieldTypes
    <3>5. [d EXCEPT !.down = FALSE] \in Worker
      BY FieldTypes
    <3>6. [d EXCEPT !.down = FALSE].batch = a.batch
      BY <3>2, <3>3, <3>4 DEF Worker
    <3> QED BY <3>1, <3>2, <3>3, <3>4, <3>5, <3>6
  <2> HIDE DEF coded, uncoded
  <2>4. /\ [stage |-> "verifying"] \notin {Success, Failure}
        /\ [stage |-> "code_required"] \notin {Success, Failure}
    BY PostsDiffer DEF Stages
  <2>5. CASE Becomes(i, Reports(coded, [stage |-> "verifying"], "handling"))
    <3> DEFINE v == Reports(coded, [stage |-> "verifying"], "handling")
    <3>1. /\ v.pc = "post" /\ v.next = "handling" /\ v.post = [stage |-> "verifying"]
          /\ v.batch = w.batch
      BY <1>4, <2>3, ReportsFar
    <3> HIDE DEF v
    <3> QED BY <1>5, <2>4, <2>5, <3>1 DEF v
  <2>6. CASE Becomes(i, Reports(uncoded, [stage |-> "code_required"], "handling"))
    <3> DEFINE v == Reports(uncoded, [stage |-> "code_required"], "handling")
    <3>1. /\ v.pc = "post" /\ v.next = "handling" /\ v.post = [stage |-> "code_required"]
          /\ v.batch = w.batch
      BY <1>4, <2>2, ReportsFar
    <3> HIDE DEF v
    <3> QED BY <1>5, <2>4, <2>6, <3>1 DEF v
  <2> QED
    BY <2>1, <2>5, <2>6
<1>7. CASE HandlePointer(i)
  <2> DEFINE u == [w EXCEPT !.down = Head(old.batch) = "down"]
  <2>1. Becomes(i, w) \/ Becomes(i, u)
    BY <1>7 DEF HandlePointer, Step, w
  <2>2. u.pc = "handling" /\ u.batch = w.batch
    BY <1>3 DEF Worker
  <2> HIDE DEF u
  <2> QED
    BY <1>3, <1>5, <2>1, <2>2
<1> QED
  BY <1>6, <1>7

LEMMA LookNears ==
  ASSUME TypeOK, NEW i \in Ids, Look(i)
  PROVE  Nears(i)
<1> DEFINE old == worker[i]
           g == GoesOn(old, "capturing")
           done == [g EXCEPT !.done = TRUE, !.ticks = 0]
<1>1. old \in Worker /\ old.pc = "handling" /\ "capturing" \in PCs
  BY DEF TypeOK, Look, Step, PCs
<1>2. g \in Worker /\ g.pc = "capturing"
  BY <1>1, GoesOnType
<1>3. PlaceOf("capturing") < Place(old)
  BY <1>1 DEF Place, PlaceOf
<1> HIDE DEF g
<1>4. ASSUME NEW v, v.pc = "capturing", Becomes(i, v)
      PROVE  Nears(i)
  <2>1. Lower(v, old)
    BY <1>3, <1>4 DEF Lower, Place, Leads
  <2> QED
    BY <1>4, <2>1, BecomesLower
<1>5. \/ Becomes(i, g) \/ Becomes(i, [g EXCEPT !.ticks = 0])
      \/ Becomes(i, [g EXCEPT !.ticks = g.ticks + 1])
      \/ Becomes(i, Reports(done, [stage |-> "code_required"], "capturing"))
  BY DEF Look, Step, g
<1>6. /\ [g EXCEPT !.ticks = 0].pc = "capturing"
      /\ [g EXCEPT !.ticks = g.ticks + 1].pc = "capturing"
  BY <1>2 DEF Worker
<1>7. done \in Worker
  <2>1. PICK a \in Worker : a = [g EXCEPT !.done = TRUE]
    BY <1>2, FieldTypes
  <2>2. [a EXCEPT !.ticks = 0] \in Worker
    BY FieldTypes
  <2> QED BY <2>1, <2>2
<1> HIDE DEF done
<1>8. [stage |-> "code_required"] \notin {Success, Failure}
  BY PostsDiffer DEF Stages
<1>9. Lower(Reports(done, [stage |-> "code_required"], "capturing"), old)
  BY <1>1, <1>3, <1>7, <1>8, ReportsLower
<1> QED
  BY <1>2, <1>4, <1>5, <1>6, <1>9, BecomesLower

\* The steps that end in a report.
LEMMA ReportNears ==
  ASSUME TypeOK, NEW i \in Ids,
         Open(i) \/ Snap(i) \/ Announce(i) \/ Shoot(i) \/ Check(i)
  PROVE  Nears(i)
<1> DEFINE old == worker[i]
<1>1. old \in Worker
  BY DEF TypeOK
<1>2. /\ \A stage \in {"starting", "slider", "code_required"} : [stage |-> stage] \notin {Success, Failure}
      /\ Picture(old) \notin {Success, Failure}
  BY PostsDiffer DEF Stages
<1>3. ASSUME NEW u \in Worker, NEW post, post \notin {Success, Failure},
             NEW pc \in {"arming", "announcing", "polling", "checking"},
             PlaceOf(pc) < Place(old), Becomes(i, Reports(u, post, pc))
      PROVE  Nears(i)
  <2>1. Lower(Reports(u, post, pc), old)
    BY <1>1, <1>3, ReportsLower
  <2> QED
    BY <1>3, <2>1, BecomesLower
<1>4. CASE Open(i)
  <2>1. PlaceOf("arming") < Place(old) /\ Becomes(i, Reports(old, [stage |-> "starting"], "arming"))
    BY <1>4 DEF Open, Step, Place, PlaceOf
  <2> QED BY <1>1, <1>2, <1>3, <2>1
<1>5. CASE Snap(i)
  <2>1. PlaceOf("announcing") < Place(old) /\ Becomes(i, Reports(old, Picture(old), "announcing"))
    BY <1>5 DEF Snap, Step, Place, PlaceOf
  <2> QED BY <1>1, <1>2, <1>3, <2>1
<1>6. CASE Announce(i)
  <2> DEFINE u == [old EXCEPT !.armed = TRUE]
  <2>1. PlaceOf("polling") < Place(old) /\ Becomes(i, Reports(u, [stage |-> "slider"], "polling"))
    BY <1>6 DEF Announce, Step, Place, PlaceOf
  <2>2. u \in Worker
    BY ZenonT(30), <1>1, FieldTypes
  <2> HIDE DEF u
  <2> QED BY <1>2, <1>3, <2>1, <2>2
<1>7. CASE Shoot(i)
  <2>1. PlaceOf("checking") < Place(old) /\ Becomes(i, Reports(old, Picture(old), "checking"))
    BY <1>7 DEF Shoot, Step, Place, PlaceOf
  <2> QED BY <1>1, <1>2, <1>3, <2>1
<1>8. CASE Check(i)
  <2> DEFINE u == [old EXCEPT !.code = FALSE]
  <2>1. \/ Becomes(i, GoesOn(old, "saving")) \/ Becomes(i, GoesOn(old, "polling"))
        \/ Becomes(i, Reports(u, [stage |-> "code_required"], "polling"))
    BY <1>8 DEF Check, Step, AsksForCode
  <2>2. /\ PlaceOf("polling") < Place(old) /\ PlaceOf("saving") < Place(old)
        /\ "polling" \in PCs /\ "saving" \in PCs
    BY <1>8 DEF Check, Step, Place, PlaceOf, PCs
  <2>3. u \in Worker
    BY <1>1 DEF Worker
  <2> HIDE DEF u
  <2>4. Lower(GoesOn(old, "saving"), old) /\ Lower(GoesOn(old, "polling"), old)
    BY <1>1, <2>2, GoesLower
  <2> QED BY <1>2, <1>3, <2>1, <2>2, <2>3, <2>4, BecomesLower
<1> QED
  BY <1>4, <1>5, <1>6, <1>7, <1>8

\* The end of a login.
LEMMA EndNears ==
  ASSUME TypeOK, AllLead, NEW i \in Ids, Save(i) \/ Fail(i) \/ Exit(i) \/ Crash(i)
  PROVE  Nears(i)
<1> DEFINE old == worker[i]
<1>1. old \in Worker /\ "closing" \in PCs
  BY DEF TypeOK, PCs
<1>2. CASE Save(i)
  <2> DEFINE u == [old EXCEPT !.saved = TRUE, !.ok = TRUE]
             v == Reports(u, [stage |-> "completed"], "closing")
  <2>1. old.pc = "saving" /\ Becomes(i, v)
    BY <1>2 DEF Save
  <2>2. u \in Worker
    BY <1>1 DEF Worker
  <2> HIDE DEF u
  <2>3. v.pc = "post" /\ v.post = Success /\ v.next = "closing"
    BY <1>1, <2>2, ReportsFar DEF Success
  <2> HIDE DEF v
  <2>4. Lower(v, old)
    BY <2>1, <2>3 DEF Lower, Leads, Place, PlaceOf
  <2> QED BY <2>1, <2>4, BecomesLower
<1>3. CASE Fail(i)
  <2> DEFINE u == [old EXCEPT !.ok = FALSE]
             v == Reports(u, [stage |-> "failed"], "closing")
  <2>1. old.pc = "failing" /\ Becomes(i, v)
    BY <1>3 DEF Fail, Step
  <2>2. u \in Worker
    BY <1>1 DEF Worker
  <2> HIDE DEF u
  <2>3. v.pc = "post" /\ v.post = Failure /\ v.next = "closing"
    BY <1>1, <2>2, ReportsFar DEF Failure
  <2>4. Failure # Success
    BY PostsDiffer DEF Failure, Stages, Ended
  <2> HIDE DEF v
  <2>5. Lower(v, old)
    BY <2>1, <2>3, <2>4 DEF Lower, Leads, Place, PlaceOf
  <2> QED BY <2>1, <2>5, BecomesLower
<1>4. CASE Exit(i) \/ Crash(i)
  <2>1. PICK ok : Becomes(i, Dead(old, ok)) /\ old.pc \notin {"absent", "exited"}
    BY <1>4 DEF Exit, Crash, Step
  <2>2. Lower(Dead(old, ok), old)
    BY <1>1, <2>1, DeathLower DEF AllLead
  <2> QED BY <2>1, <2>2, BecomesLower
<1> QED
  BY <1>2, <1>3, <1>4

LEMMA StartNears ==
  ASSUME TypeOK, NEW i \in Ids, Start(i)
  PROVE  Nears(i)
<1> DEFINE old == worker[i]
<1>1. old.pc = "absent" /\ Becomes(i, NewWorker("opening"))
  BY DEF Start
<1>2. NewWorker("opening").pc = "opening"
  BY NewWorkerType DEF PCs
<1>3. Lower(NewWorker("opening"), old)
  BY <1>1, <1>2 DEF Lower, Leads, Place, PlaceOf
<1> QED
  BY <1>1, <1>3, BecomesLower

\* The steps of a worker, its end and its start.
Acts(i) == Program(i) \/ TimesOut(i) \/ Crash(i) \/ Start(i)

LEMMA ActsNear ==
  ASSUME TypeOK, AllLead, NEW i \in Ids, Acts(i)
  PROVE  Nears(i) /\ \A j \in Ids \ {i} : worker'[j] = worker[j]
<1>1. Nears(i)
  BY PostNears, QuietNears, PollNears, EventNears, LookNears, ReportNears, EndNears, StartNears
     DEF Acts, Program
<1>2. \E v : Becomes(i, v)
  BY DEF Acts, Program, Deliver, TimesOut, Crash, Start, Open, Arm, Snap, Announce, Overdue, SeeLogin, Poll,
         HandleVerify, HandlePointer, Look, Capture, Shoot, Check, Save, Fail, Exit, Raises, Step
<1> QED
  BY <1>1, <1>2 DEF Becomes, TypeOK

\* Nobody else takes a worker back: the page turns under it, a
\* removal or a shutdown ends it.
Stays(i) == Leads(worker'[i]) /\ Rank(worker'[i]) = Rank(worker[i])

LEMMA OthersStay ==
  ASSUME TypeOK, AllLead, [Next]_vars, NEW i \in Ids, ~Acts(i)
  PROVE  Lower(worker'[i], worker[i]) \/ Stays(i)
<1> DEFINE old == worker[i]
<1>1. old \in Worker /\ Leads(old)
  BY DEF TypeOK, AllLead
<1>2. CASE worker'[i] = worker[i]
  BY <1>1, <1>2 DEF Stays
<1>3. CASE PageTurns(i)
  <2>1. PICK page \in {"slider", "form", "in", "wrong"} : Becomes(i, [old EXCEPT !.page = page])
    BY <1>3 DEF PageTurns, Step
  <2> DEFINE v == [old EXCEPT !.page = page]
  <2>2. v.pc = old.pc /\ v.post = old.post /\ v.next = old.next /\ v.batch = old.batch
    BY <1>1 DEF Worker
  <2>3. worker'[i] = v
    BY <2>1 DEF Becomes, TypeOK
  <2> HIDE DEF v
  <2> QED
    BY <1>1, <2>2, <2>3 DEF Stays, Leads, Rank, Place, ToSay
<1>4. CASE EndWorker
  <2>1. PICK j \in 0..MaxLogins :
          worker' = IF j = 0 \/ worker[j].pc = "exited" THEN worker
                    ELSE [worker EXCEPT ![j] = Dead(worker[j], FALSE)]
    BY <1>4, EndsOne
  <2>2. CASE worker' # worker /\ j = i
    <3>1. worker'[i] = Dead(old, FALSE) /\ old.pc # "exited"
      BY <2>1, <2>2 DEF TypeOK
    <3> QED
      BY <1>1, <3>1, DeathLower
  <2>3. CASE worker' = worker \/ j # i
    <3>1. worker'[i] = worker[i]
      BY <2>1, <2>3 DEF TypeOK
    <3> QED BY <1>2, <3>1
  <2> QED
    BY <2>2, <2>3
<1>5. CASE \E j \in Ids \ {i} : Acts(j) \/ PageTurns(j)
  <2>1. PICK j \in Ids \ {i} : Acts(j) \/ PageTurns(j)
    BY <1>5
  <2>2. Acts(j) => worker'[i] = worker[i]
    BY ActsNear
  <2>3. PageTurns(j) => worker'[i] = worker[i]
    BY <2>1 DEF PageTurns, Step, Becomes, TypeOK
  <2> QED
    BY <1>2, <2>1, <2>2, <2>3
<1>6. \/ worker' = worker \/ PageTurns(i) \/ EndWorker
      \/ \E j \in Ids \ {i} : Acts(j) \/ PageTurns(j)
  BY DEF Next, vars, Acts, LateArrives, Pointer, Verify, Reap, Removal, Shutdown
<1> QED
  BY <1>2, <1>3, <1>4, <1>5, <1>6

\* A step of a worker brings it nearer to its deadline or its end, or starts a turn of
\* its loop; a step of anybody else does not set it back.
Nearing ==
  \A i \in Ids :
    IF Acts(i) THEN Falls(worker'[i], worker[i]) \/ TurnsAgain(i)
    ELSE Falls(worker'[i], worker[i]) \/ Rank(worker'[i]) = Rank(worker[i])

LEMMA LeadInit == Init => AllLead
BY NewWorkerType DEF Init, AllLead, Leads, PCs

LEMMA NearStep ==
  ASSUME TypeOK, AllLead, [Next]_vars, TypeOK'
  PROVE  AllLead' /\ Nearing
<1>1. ASSUME NEW i \in Ids
      PROVE  /\ Leads(worker'[i])
             /\ IF Acts(i) THEN Falls(worker'[i], worker[i]) \/ TurnsAgain(i)
                ELSE Falls(worker'[i], worker[i]) \/ Rank(worker'[i]) = Rank(worker[i])
  <2>1. worker[i] \in Worker /\ worker'[i] \in Worker
    BY DEF TypeOK
  <2>2. Lower(worker'[i], worker[i]) => Falls(worker'[i], worker[i]) /\ Leads(worker'[i])
    BY <2>1, LowerFalls DEF Lower
  <2>3. CASE Acts(i)
    <3>1. Nears(i)
      BY <2>3, ActsNear
    <3> QED BY <2>2, <2>3, <3>1 DEF Nears, TurnsAgain
  <2>4. CASE ~Acts(i)
    <3>1. Lower(worker'[i], worker[i]) \/ Stays(i)
      BY <2>4, OthersStay
    <3> QED BY <2>2, <2>4, <3>1 DEF Stays
  <2> QED BY <2>3, <2>4
<1>2. Nearing
  BY <1>1 DEF Nearing
<1>3. AllLead'
  BY <1>1 DEF AllLead
<1> QED BY <1>2, <1>3

\* No turn of the login loop is endless: from one look at the deadline and the cookie to
\* the next (the loop of main(), sms_login.py:246), every step of the worker, and
\* every failure of one, lowers three natural numbers in a well-founded order
\* (BelowIsWellFounded), whatever events the user sends, whatever posts are refused or
\* late, and whatever page it sees; and what leaves the loop never comes back to it.
THEOREM TurnsEnd == Spec => [][Nearing]_vars
<1>1. TypeOK /\ AllLead /\ [Next]_vars => TypeOK' /\ AllLead' /\ [Nearing]_vars
  BY TypeStep, NearStep
<1> QED
  BY <1>1, TypeInit, LeadInit, PTL DEF Spec
=============================================================================
