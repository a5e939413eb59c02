------------------------- MODULE TaskSchedulerProofs -------------------------
(***************************************************************************)
(* Proofs about TaskScheduler for every set of tasks and accounts, every   *)
(* bound and every choice of Faults.  First the invariants: types, the     *)
(* queue, exclusive accounts, running rows, and that it implements         *)
(* AccountSlots.  Then the promises that rest on them: nothing is lost,    *)
(* retries are bounded, a cancellation reaches its runner, a login and a   *)
(* task never share a profile, nobody overtakes, no wake-up is lost, and   *)
(* rows go forward.                                                        *)
(***************************************************************************)
EXTENDS TaskScheduler, TLAPS

-----------------------------------------------------------------------------
(* Type correctness.                                                       *)

\* A row as _new_task makes it is a row.
LEMMA NewTaskType ==
  ASSUME NEW r \in Targets, NEW n \in Nat
  PROVE  NewTask(r, n) \in TaskRecord
<1> USE SchedulerAssumption
<1> QED BY DEF NewTask, TaskRecord, Statuses

\* Telling runners, replacing an attempt by its next state and adding a fresh
\* one keep the set of attempts a set of attempts.
LEMMA TellRunnersType ==
  ASSUME live \in SUBSET Attempt, NEW S
  PROVE  TellRunners(S) \in SUBSET Attempt
<1>1. \A f \in Attempt : [f EXCEPT !.told = TRUE] \in Attempt
  BY DEF Attempt
<1> QED BY <1>1 DEF TellRunners

LEMMA NewAttemptType ==
  ASSUME started \in [Tasks -> Nat], NEW t \in Tasks, NEW a \in Accounts
  PROVE  NewAttempt(t, a) \in Attempt
BY DEF NewAttempt, Attempt, Results

\* What one call of the dispatcher leaves behind is well typed.
LEMMA DispatchWithType ==
  ASSUME TypeOK,
         NEW D \in SUBSET Tasks, NEW pick \in [D -> Accounts],
         NEW broken \in SUBSET D, DispatchWith(pick, broken)
  PROVE  /\ task' \in [Tasks -> TaskRecord]
         /\ queue' \in SUBSET Tasks
         /\ ahead' \in [Tasks -> SUBSET Tasks]
         /\ busy' \in SUBSET Accounts
         /\ live' \in SUBSET Attempt
         /\ started' \in [Tasks -> Nat]
<1>1. /\ DOMAIN pick = D
      /\ Begun(pick, broken) \subseteq D
      /\ Refused(pick, broken) \subseteq D
  BY DEF Begun, Refused
<1>2. task' \in [Tasks -> TaskRecord]
  <2> SUFFICES ASSUME NEW t \in Tasks PROVE task'[t] \in TaskRecord
    BY DEF DispatchWith
  <2>1. task[t] \in TaskRecord
    BY DEF TypeOK
  <2>2. [task[t] EXCEPT !.status = "failed"] \in TaskRecord
    BY <2>1 DEF TaskRecord, Statuses, Terminal
  <2>3. ASSUME t \in Begun(pick, broken)
        PROVE  [task[t] EXCEPT !.status = "running", !.account = pick[t]] \in TaskRecord
    <3>1. pick[t] \in Accounts
      BY <1>1, <2>3
    <3> QED BY <2>1, <3>1 DEF TaskRecord, Statuses, Terminal
  <2> QED BY <2>1, <2>2, <2>3 DEF DispatchWith
<1>3. queue' \in SUBSET Tasks /\ ahead' \in [Tasks -> SUBSET Tasks]
  BY DEF DispatchWith, Dequeue, TypeOK
<1>4. busy' \in SUBSET Accounts
  BY ZenonT(30), <1>1 DEF DispatchWith, TypeOK
<1>5. live' \in SUBSET Attempt
  <2>1. \A t \in Begun(pick, broken) : NewAttempt(t, pick[t]) \in Attempt
    BY <1>1, NewAttemptType DEF TypeOK
  <2> QED BY <2>1 DEF DispatchWith, TypeOK
<1>6. started' \in [Tasks -> Nat]
  <2>1. \A t \in Tasks : started[t] + (IF t \in Begun(pick, broken) THEN 1 ELSE 0) \in Nat
    BY DEF TypeOK
  <2> QED BY <2>1 DEF DispatchWith
<1> QED BY <1>2, <1>3, <1>4, <1>5, <1>6

\* A call of the dispatcher is the work of one assignment of accounts to tasks.
LEMMA DispatchPicks ==
  ASSUME TypeOK, Dispatch
  PROVE  \E D \in SUBSET Kept : \E pick \in [D -> Free], broken \in SUBSET D :
           /\ \E T \in SUBSET Kept : Loop(pick, T)
           /\ broken # {} => "catalog" \in Faults
           /\ DispatchWith(pick, broken)
<1>1. CASE \E D \in SUBSET Kept : \E pick \in [D -> Free] :
             Loop(pick, Kept) /\ DispatchWith(pick, {})
  BY <1>1
<1>2. CASE /\ "catalog" \in Faults
           /\ \E b \in Kept :
                LET T == {b} \cup (Kept \cap ahead[b])
                IN \E D \in SUBSET T : \E pick \in [D -> Free] :
                     b \in D /\ Loop(pick, T) /\ DispatchWith(pick, {b})
  <2>1. PICK b \in Kept :
               \E D \in SUBSET ({b} \cup (Kept \cap ahead[b])) : \E pick \in [D -> Free] :
                     b \in D /\ Loop(pick, {b} \cup (Kept \cap ahead[b]))
                             /\ DispatchWith(pick, {b})
    BY <1>2
  <2> DEFINE T == {b} \cup (Kept \cap ahead[b])
  <2>a. PICK D \in SUBSET T : \E pick \in [D -> Free] :
           b \in D /\ Loop(pick, T) /\ DispatchWith(pick, {b})
    BY <2>1
  <2>2. PICK pick \in [D -> Free] :
           b \in D /\ Loop(pick, T) /\ DispatchWith(pick, {b})
    BY <2>a
  <2>3. D \in SUBSET Kept /\ {b} \in SUBSET D /\ T \in SUBSET Kept
    BY <2>2
  <2> HIDE DEF T
  <2> QED BY <1>2, <2>2, <2>3
<1> QED BY <1>1, <1>2 DEF Dispatch

LEMMA KeptFree ==
  ASSUME TypeOK
  PROVE  Kept \subseteq Tasks /\ Free \subseteq Accounts
BY DEF Kept, Free, Ready, TypeOK

\* Replacing an attempt by a well-typed one.
LEMMA BecomesType ==
  ASSUME live \in SUBSET Attempt, NEW f, NEW g \in Attempt, Becomes(f, g)
  PROVE  live' \in SUBSET Attempt
BY DEF Becomes

\* The steps of one attempt.
LEMMA AttemptStepType ==
  ASSUME TypeOK, NEW f \in live, AttemptStep(f)
  PROVE  TypeOK'
<1>1. f \in Attempt /\ f.task \in Tasks /\ f.account \in Accounts /\ f.id \in Nat
  BY DEF TypeOK, Attempt
<1>2. task[f.task] \in TaskRecord
  BY <1>1 DEF TypeOK
<1>3. CASE RunBegin(f)
  <2>1. /\ [f EXCEPT !.pc = "starting"] \in Attempt
        /\ [f EXCEPT !.pc = "returned", !.result = "failed"] \in Attempt
    BY <1>1 DEF Attempt, Results
  <2>2. live' \in SUBSET Attempt
    BY <1>3, <2>1, BecomesType DEF RunBegin, TypeOK
  <2> QED BY <1>3, <2>2 DEF RunBegin, TypeOK, env
<1>4. CASE StoreRunner(f)
  <2>1. [f EXCEPT !.pc = "running", !.told = task[f.task].cancel] \in Attempt
    BY <1>1, <1>2 DEF Attempt, TaskRecord
  <2>2. live' \in SUBSET Attempt
    BY <1>4, <2>1, BecomesType DEF StoreRunner, TypeOK
  <2>3. task' \in [Tasks -> TaskRecord]
    BY <1>1, <1>2, <1>4 DEF StoreRunner, TypeOK, TaskRecord
  <2> QED BY <1>4, <2>2, <2>3 DEF StoreRunner, TypeOK, env
<1>5. ASSUME NEW outcome \in Outcomes(f), RunEnd(f, outcome) PROVE TypeOK'
  <2>1. outcome \in Results
    BY <1>5 DEF Outcomes, Results
  <2>2. [f EXCEPT !.pc = "returned",
                  !.result = IF task[f.task].cancel THEN "cancelled" ELSE outcome] \in Attempt
    BY <1>1, <2>1 DEF Attempt, Results
  <2>3. live' \in SUBSET Attempt
    BY <1>5, <2>2, BecomesType DEF RunEnd, TypeOK
  <2> QED BY <1>5, <2>3 DEF RunEnd, TypeOK, env
<1>6. CASE Finish(f)
  <2>1. CASE Retries(f)
    <3>1. RetryRow(task[f.task], f.result) \in TaskRecord
      <4>1. task[f.task].retry + 1 \in 0..MaxRequeues
        BY <1>2, <2>1, SchedulerAssumption DEF Retries, TaskRecord
      <4> QED BY <1>2, <4>1 DEF RetryRow, TaskRecord, Statuses, Targets
    <3>2. task' \in [Tasks -> TaskRecord]
      BY <1>1, <1>6, <2>1, <3>1 DEF Finish, BookRetry, TypeOK
    <3>3. queue' \in SUBSET Tasks /\ ahead' \in [Tasks -> SUBSET Tasks]
      BY <1>1, <1>6, <2>1 DEF Finish, BookRetry, Requeue, TypeOK
    <3> QED BY <1>6, <3>2, <3>3 DEF Finish, TypeOK
  <2>2. CASE ~Retries(f)
    <3>1. ResultRow(task[f.task], f.result) \in TaskRecord
      BY <1>2 DEF ResultRow, TaskRecord, Statuses, Terminal
    <3>2. task' \in [Tasks -> TaskRecord]
      BY <1>1, <1>6, <2>2, <3>1 DEF Finish, BookResult, TypeOK
    <3> QED BY <1>6, <2>2, <3>2 DEF Finish, BookResult, TypeOK
  <2> QED BY <2>1, <2>2
<1>7. CASE FinishRaises(f)
  <2>1. [f EXCEPT !.pc = "raised"] \in Attempt
    BY <1>1 DEF Attempt
  <2>2. live' \in SUBSET Attempt
    BY <1>7, <2>1, BecomesType DEF FinishRaises, TypeOK
  <2> QED BY <1>7, <2>2 DEF FinishRaises, TypeOK, env
<1> QED BY <1>3, <1>4, <1>5, <1>6, <1>7 DEF AttemptStep

LEMMA TypeStep == TypeOK /\ [Next]_vars => TypeOK'
<1> SUFFICES ASSUME TypeOK, [Next]_vars PROVE TypeOK'
  OBVIOUS
<1> USE SchedulerAssumption
<1>1. ASSUME NEW a \in Accounts, CheckAccount(a) PROVE TypeOK'
  BY <1>1 DEF CheckAccount, TypeOK, Reaped, sched
<1>2. ASSUME NEW s \in Batches, NEW r \in Targets, Submit(s, r) PROVE TypeOK'
  <2>1. Elements(s) \subseteq Tasks /\ \A t \in Tasks : Before(s, t) \subseteq Tasks
    BY DEF Batches, Elements, Before
  <2>2. NewTask(r, 0) \in TaskRecord
    BY NewTaskType
  <2>3. task' \in [Tasks -> TaskRecord]
    BY <1>2, <2>2 DEF Submit, TypeOK
  <2>4. ahead' \in [Tasks -> SUBSET Tasks] /\ queue' \in SUBSET Tasks
    BY <1>2, <2>1 DEF Submit, TypeOK
  <2> QED BY <1>2, <2>3, <2>4 DEF Submit, TypeOK, env
<1>3. ASSUME NEW t \in Tasks, Cancel(t) PROVE TypeOK'
  <2>1. /\ [task[t] EXCEPT !.status = "cancelled"] \in TaskRecord
        /\ [task[t] EXCEPT !.status = "cancelled", !.cancel = TRUE] \in TaskRecord
    <3>1. task[t] \in TaskRecord
      BY DEF TypeOK
    <3> QED BY <3>1 DEF TaskRecord, Statuses, Terminal
  <2>2. task' \in [Tasks -> TaskRecord]
    BY <1>3, <2>1 DEF Cancel, TypeOK
  <2>3. live' \in SUBSET Attempt
    BY <1>3, TellRunnersType DEF Cancel, TypeOK
  <2>4. queue' \in SUBSET Tasks /\ ahead' \in [Tasks -> SUBSET Tasks]
    BY <1>3 DEF Cancel, Dequeue, TypeOK
  <2> QED BY <1>3, <2>2, <2>3, <2>4 DEF Cancel, TypeOK, env
<1>4. ASSUME NEW t \in Tasks, Restart(t) PROVE TypeOK'
  <2>1. NewTask(task[t].requested, task[t].restarts + 1) \in TaskRecord
    <3>1. task[t] \in TaskRecord
      BY DEF TypeOK
    <3>2. task[t].requested \in Targets /\ task[t].restarts + 1 \in Nat
      BY <3>1 DEF TaskRecord
    <3> QED BY <3>2, NewTaskType
  <2>2. task' \in [Tasks -> TaskRecord]
    BY <1>4, <2>1 DEF Restart, TypeOK
  <2>3. queue' \in SUBSET Tasks /\ ahead' \in [Tasks -> SUBSET Tasks]
    BY <1>4 DEF Restart, Requeue, TypeOK
  <2> QED BY <1>4, <2>2, <2>3 DEF Restart, TypeOK, env
<1>5. CASE Poll
  BY <1>5 DEF Poll, TypeOK, sched, env
<1>6. CASE Dispatch
  <2>1. PICK D \in SUBSET Kept : \E pick \in [D -> Free], broken \in SUBSET D :
               DispatchWith(pick, broken)
    BY <1>6, DispatchPicks
  <2>2. PICK pick \in [D -> Free], broken \in SUBSET D : DispatchWith(pick, broken)
    BY <2>1
  <2>3. D \in SUBSET Tasks /\ pick \in [D -> Accounts]
    BY <2>2, KeptFree
  <2>4. /\ task' \in [Tasks -> TaskRecord]
        /\ queue' \in SUBSET Tasks
        /\ ahead' \in [Tasks -> SUBSET Tasks]
        /\ busy' \in SUBSET Accounts
        /\ live' \in SUBSET Attempt
        /\ started' \in [Tasks -> Nat]
    BY <2>2, <2>3, DispatchWithType
  <2>5. /\ calls' \in Nat /\ login' \in [Accounts -> {"none", "running", "exited"}]
        /\ seen' \in SUBSET Accounts
    BY <1>6 DEF Dispatch, TypeOK, Reaped, Ready
  <2> QED BY <1>6, <2>4, <2>5 DEF Dispatch, TypeOK
<1>7. ASSUME NEW f \in live, AttemptStep(f) PROVE TypeOK'
  BY <1>7, AttemptStepType
<1>8. ASSUME NEW a \in Accounts,
             LoginStart(a) \/ LoginSaves(a) \/ LoginExits(a) \/ SessionLapses(a)
      PROVE TypeOK'
  BY <1>8 DEF LoginStart, LoginSaves, LoginExits, SessionLapses, TypeOK, sched
<1>9. ASSUME NEW t \in Tasks, WaitTooLong(t) PROVE TypeOK'
  <2>1. [task[t] EXCEPT !.late = TRUE] \in TaskRecord
    <3>1. task[t] \in TaskRecord
      BY DEF TypeOK
    <3> QED BY <3>1 DEF TaskRecord
  <2> QED BY <1>9, <2>1 DEF WaitTooLong, TypeOK, env
<1>10. ASSUME NEW a \in Accounts,
              SaveAccount(a) \/ RemoveCheck(a) \/ RemoveLogin(a) \/ RemoveWait(a) \/ RemoveTree(a)
       PROVE TypeOK'
  BY <1>10 DEF SaveAccount, RemoveCheck, RemoveLogin, RemoveWait, RemoveTree, TypeOK, sched
<1>11. CASE Shutdown
  <2>1. task' \in [Tasks -> TaskRecord]
    <3> SUFFICES ASSUME NEW t \in Tasks PROVE task'[t] \in TaskRecord
      BY <1>11 DEF Shutdown
    <3>1. task[t] \in TaskRecord
      BY DEF TypeOK
    <3>2. /\ [task[t] EXCEPT !.status = "cancelled"] \in TaskRecord
          /\ [task[t] EXCEPT !.status = "cancelled", !.cancel = TRUE] \in TaskRecord
      BY <3>1 DEF TaskRecord, Statuses, Terminal
    <3> QED BY <1>11, <3>1, <3>2 DEF Shutdown
  <2>2. live' \in SUBSET Attempt
    BY <1>11, TellRunnersType DEF Shutdown, TypeOK
  <2>3. queue' \in SUBSET Tasks /\ ahead' \in [Tasks -> SUBSET Tasks]
    BY <1>11 DEF Shutdown, Dequeue, TypeOK
  <2> QED BY <1>11, <2>1, <2>2, <2>3 DEF Shutdown, TypeOK
<1>12. CASE CloseExecutor
  BY <1>12 DEF CloseExecutor, TypeOK, sched, env
<1>13. CASE UNCHANGED vars
  BY <1>13 DEF vars, TypeOK
<1> QED BY <1>1, <1>2, <1>3, <1>4, <1>5, <1>6, <1>7, <1>8, <1>9, <1>10, <1>11, <1>12, <1>13
    DEF Next

\* The types hold in every reachable state.
THEOREM TypeCorrect == Spec => []TypeOK
<1>1. Init => TypeOK
  <2> SUFFICES ASSUME Init PROVE TypeOK
    OBVIOUS
  <2>1. NoTask \in TaskRecord
    <3>1. NewTask(AnyAccount, 0) \in TaskRecord
      <4>1. AnyAccount \in Targets /\ 0 \in Nat
        BY DEF Targets
      <4> QED BY <4>1, NewTaskType
    <3>2. "absent" \in Statuses
      BY DEF Statuses
    <3> QED BY <3>1, <3>2 DEF NoTask, TaskRecord
  <2> QED BY <2>1 DEF Init, TypeOK
<1> QED BY <1>1, TypeStep, PTL DEF Spec

-----------------------------------------------------------------------------
(* The queue is a queue.                                                   *)

\* QueueOrdered with what makes it inductive: only ids of the queue are in
\* front of others, and every id in it has a row.
QueueInv ==
  /\ QueueOrdered
  /\ \A t \in queue : ahead[t] \subseteq queue /\ task[t].status # "absent"

LEMMA DequeueKeepsOrder ==
  ASSUME TypeOK, QueueInv, NEW S, Dequeue(S),
         \A t \in queue : task'[t].status # "absent"
  PROVE  QueueInv'
<1>1. queue' \subseteq queue
  BY DEF Dequeue
<1>2. \A t \in queue' : ahead'[t] = ahead[t] \ S
  BY <1>1 DEF Dequeue, TypeOK
<1>3. QueueOrdered'
  BY <1>1, <1>2 DEF Dequeue, QueueInv, QueueOrdered
<1>4. \A t \in queue' : ahead'[t] \subseteq queue'
  BY <1>1, <1>2 DEF Dequeue, QueueInv
<1> QED BY <1>1, <1>3, <1>4 DEF QueueInv

LEMMA RequeueKeepsOrder ==
  ASSUME TypeOK, QueueInv, NEW q \in Tasks, Requeue(q),
         task'[q].status # "absent",
         \A t \in queue : task'[t].status # "absent"
  PROVE  QueueInv'
<1>1. CASE q \in queue
  BY <1>1 DEF Requeue, QueueInv, QueueOrdered
<1>2. CASE q \notin queue
  <2>1. queue' = queue \cup {q} /\ ahead' = [ahead EXCEPT ![q] = queue]
    BY <1>2 DEF Requeue
  <2>2. ahead'[q] = queue /\ \A t \in queue : ahead'[t] = ahead[t]
    BY <1>2, <2>1 DEF TypeOK
  <2>3. QueueOrdered'
    BY <1>2, <2>1, <2>2 DEF QueueInv, QueueOrdered
  <2> QED BY <2>1, <2>2, <2>3 DEF QueueInv
<1> QED BY <1>1, <1>2

\* A batch joins the end of the queue in the order of its list.
LEMMA SubmitKeepsOrder ==
  ASSUME TypeOK, QueueInv, NEW s \in Batches, NEW r \in Targets, Submit(s, r)
  PROVE  QueueInv'
<1>1. /\ Elements(s) \subseteq Tasks
      /\ \A t \in Elements(s) : task[t].status = "absent" /\ t \notin queue
  BY DEF Batches, Elements, QueueInv
<1>2. PICK n \in Nat : s \in [1..n -> Tasks]
  BY DEF Batches
<1>3. /\ \A t \in Elements(s) : ahead'[t] = queue \cup Before(s, t)
      /\ \A t \in queue : ahead'[t] = ahead[t]
      /\ queue' = queue \cup Elements(s)
  BY <1>1 DEF Submit, TypeOK
<1>4. \A t \in Elements(s) : Before(s, t) \subseteq Elements(s)
  BY DEF Before, Elements
<1>5. \A t, u \in Elements(s) :
        (t # u => (t \in Before(s, u) <=> u \notin Before(s, t))) /\ t \notin Before(s, t)
  <2> SUFFICES ASSUME NEW t \in Elements(s), NEW u \in Elements(s)
               PROVE  /\ t # u => (t \in Before(s, u) <=> u \notin Before(s, t))
                      /\ t \notin Before(s, t)
    OBVIOUS
  <2>1. PICK i \in 1..n : s[i] = t
    BY <1>2 DEF Elements
  <2>2. PICK j \in 1..n : s[j] = u
    BY <1>2 DEF Elements
  <2>3. \A k, l \in 1..n : s[k] = s[l] => k = l
    BY <1>2 DEF Batches
  <2>4. /\ t \in Before(s, u) <=> i < j
        /\ u \in Before(s, t) <=> j < i
        /\ t \notin Before(s, t)
    BY <1>2, <2>1, <2>2, <2>3 DEF Before
  <2> QED BY <2>1, <2>2, <2>4
<1>6. QueueOrdered'
  BY <1>1, <1>3, <1>4, <1>5 DEF QueueInv, QueueOrdered
<1>7. \A t \in queue' : ahead'[t] \subseteq queue'
  BY <1>3, <1>4 DEF QueueInv
<1>8. \A t \in queue' : task'[t].status # "absent"
  BY <1>1, <1>3 DEF Submit, NewTask, QueueInv, TypeOK
<1> QED BY <1>6, <1>7, <1>8 DEF QueueInv

\* Until its callback has run, an attempt only changes by itself: the rows keep
\* what the queue is about, and the queue and the account sets stay.
Moves(f) ==
  \/ RunBegin(f)
  \/ StoreRunner(f)
  \/ \E outcome \in Outcomes(f) : RunEnd(f, outcome)
  \/ FinishRaises(f)

\* The attempt f has come further, as g: it is not told to stop before its runner
\* is stored, and once it runs, its next step is its last.
Further(f, g) ==
  /\ g.pc # "submitted"
  /\ g.pc = "starting" => f.pc = "submitted" /\ g.told = f.told
  /\ g.pc = "running" => f.pc = "starting"
  /\ g.pc = "raised" => "state" \in Faults

LEMMA MovesQuietly ==
  ASSUME TypeOK, NEW f \in live, Moves(f)
  PROVE  /\ \A t \in Tasks : /\ task'[t].status = task[t].status
                            /\ task'[t].account = task[t].account
         /\ UNCHANGED <<queue, ahead, busy, login, removal, shut>>
         /\ \E g \in Attempt : /\ g.task = f.task /\ g.id = f.id /\ g.account = f.account
                              /\ Becomes(f, g) /\ Further(f, g)
<1>1. f \in Attempt /\ f.task \in Tasks
  BY DEF TypeOK, Attempt
<1>2. task[f.task] \in TaskRecord
  BY <1>1 DEF TypeOK
<1>3. CASE RunBegin(f)
  <2>1. /\ [f EXCEPT !.pc = "starting"] \in Attempt
        /\ [f EXCEPT !.pc = "returned", !.result = "failed"] \in Attempt
        /\ [f EXCEPT !.pc = "starting"].task = f.task
        /\ [f EXCEPT !.pc = "starting"].id = f.id
        /\ [f EXCEPT !.pc = "starting"].account = f.account
        /\ [f EXCEPT !.pc = "returned", !.result = "failed"].task = f.task
        /\ [f EXCEPT !.pc = "returned", !.result = "failed"].id = f.id
        /\ [f EXCEPT !.pc = "returned", !.result = "failed"].account = f.account
    BY <1>1 DEF Attempt, Results
  <2>2. /\ [f EXCEPT !.pc = "starting"].pc = "starting"
        /\ [f EXCEPT !.pc = "starting"].told = f.told
        /\ [f EXCEPT !.pc = "returned", !.result = "failed"].pc = "returned"
    BY <1>1 DEF Attempt
  <2>3. /\ f.pc = "submitted" => Further(f, [f EXCEPT !.pc = "starting"])
        /\ Further(f, [f EXCEPT !.pc = "returned", !.result = "failed"])
    BY <2>2 DEF Further
  <2> QED BY <1>3, <2>1, <2>3 DEF RunBegin, env
<1>4. CASE StoreRunner(f)
  <2> DEFINE g == [f EXCEPT !.pc = "running", !.told = task[f.task].cancel]
  <2>1. g \in Attempt /\ g.task = f.task /\ g.id = f.id /\ g.account = f.account
    BY <1>1, <1>2 DEF Attempt, TaskRecord
  <2>2. Becomes(f, g) /\ Further(f, g)
    <3>1. g.pc = "running"
      BY <1>1 DEF Attempt
    <3> QED BY <1>4, <3>1 DEF StoreRunner, Further
  <2>3. \A t \in Tasks : task'[t].status = task[t].status /\ task'[t].account = task[t].account
    BY <1>1, <1>2, <1>4 DEF StoreRunner, TypeOK, TaskRecord
  <2> HIDE DEF g
  <2> QED BY <1>4, <2>1, <2>2, <2>3 DEF StoreRunner, env
<1>5. ASSUME NEW outcome \in Outcomes(f), RunEnd(f, outcome)
      PROVE  /\ UNCHANGED <<task, queue, ahead, busy, login, removal, shut>>
             /\ \E g \in Attempt : /\ g.task = f.task /\ g.id = f.id /\ g.account = f.account
                                  /\ Becomes(f, g) /\ Further(f, g)
  <2> DEFINE g == [f EXCEPT !.pc = "returned",
                     !.result = IF task[f.task].cancel THEN "cancelled" ELSE outcome]
  <2>1. outcome \in Results
    BY <1>5 DEF Outcomes, Results
  <2>2. g \in Attempt /\ g.task = f.task /\ g.id = f.id /\ g.account = f.account
    BY <1>1, <2>1 DEF Attempt, Results
  <2>3. Becomes(f, g) /\ Further(f, g)
    <3>1. g.pc = "returned"
      BY <1>1 DEF Attempt
    <3> QED BY <1>5, <3>1 DEF RunEnd, Further
  <2> HIDE DEF g
  <2> QED BY <1>5, <2>2, <2>3 DEF RunEnd, env
<1>6. CASE FinishRaises(f)
  <2> DEFINE g == [f EXCEPT !.pc = "raised"]
  <2>1. g \in Attempt /\ g.task = f.task /\ g.id = f.id /\ g.account = f.account
    BY <1>1 DEF Attempt
  <2>2. Becomes(f, g) /\ Further(f, g)
    <3>1. g.pc = "raised"
      BY <1>1 DEF Attempt
    <3> QED BY <1>6, <3>1 DEF FinishRaises, Further
  <2> HIDE DEF g
  <2> QED BY <1>6, <2>1, <2>2 DEF FinishRaises, env
<1> QED BY <1>3, <1>4, <1>5, <1>6 DEF Moves

\* What _finish_task does to the rows.
LEMMA FinishRows ==
  ASSUME TypeOK, NEW f \in live, Finish(f)
  PROVE  /\ f.task \in Tasks
         /\ \A t \in Tasks \ {f.task} : task'[t] = task[t]
         /\ task'[f.task].status \in {"queued"} \cup Terminal
         /\ Requeue(f.task) \/ (/\ UNCHANGED <<queue, ahead>>
                              /\ task'[f.task].status # "queued")
<1>1. f.task \in Tasks /\ task[f.task] \in TaskRecord
  BY DEF TypeOK, Attempt
<1>2. CASE Retries(f)
  <2>1. task' = [task EXCEPT ![f.task] = RetryRow(task[f.task], f.result)] /\ Requeue(f.task)
    BY <1>2 DEF Finish, BookRetry
  <2>2. RetryRow(task[f.task], f.result).status = "queued"
    BY <1>1 DEF RetryRow, TaskRecord
  <2> QED BY <1>1, <2>1, <2>2 DEF TypeOK
<1>3. CASE ~Retries(f)
  <2>1. task' = [task EXCEPT ![f.task] = ResultRow(task[f.task], f.result)]
        /\ UNCHANGED <<queue, ahead>>
    BY <1>3 DEF Finish, BookResult
  <2>2. ResultRow(task[f.task], f.result).status \in Terminal
    BY <1>1 DEF ResultRow, TaskRecord, Terminal
  <2> QED BY <1>1, <2>1, <2>2 DEF TypeOK, Terminal
<1> QED BY <1>2, <1>3

\* The dispatcher never makes a row disappear.
LEMMA DispatchRows ==
  ASSUME TypeOK, NEW D \in SUBSET Kept, NEW pick \in [D -> Accounts],
         NEW broken \in SUBSET D, DispatchWith(pick, broken)
  PROVE  \A t \in Tasks :
           /\ task'[t] = task[t] \/ task'[t].status \in {"failed", "running"}
           /\ t \in Expired \cup Refused(pick, broken) => task'[t].status = "failed"
           /\ t \in Begun(pick, broken) =>
                task'[t].status = "running" /\ task'[t].account = pick[t]
           /\ task'[t].status = "running" => task[t].status = "running"
                                            \/ t \in Begun(pick, broken)
           /\ t \notin Begun(pick, broken) /\ task'[t].status = "running" => task'[t] = task[t]
<1> SUFFICES ASSUME NEW t \in Tasks
             PROVE  /\ task'[t] = task[t] \/ task'[t].status \in {"failed", "running"}
                    /\ t \in Expired \cup Refused(pick, broken) => task'[t].status = "failed"
                    /\ t \in Begun(pick, broken) =>
                         task'[t].status = "running" /\ task'[t].account = pick[t]
                    /\ task'[t].status = "running" => task[t].status = "running"
                                                     \/ t \in Begun(pick, broken)
                    /\ t \notin Begun(pick, broken) /\ task'[t].status = "running"
                         => task'[t] = task[t]
  OBVIOUS
<1>1. task[t] \in TaskRecord
  BY DEF TypeOK
<1>2. /\ [task[t] EXCEPT !.status = "failed"].status = "failed"
      /\ [task[t] EXCEPT !.status = "running", !.account = pick[t]].status = "running"
      /\ [task[t] EXCEPT !.status = "running", !.account = pick[t]].account = pick[t]
  BY <1>1 DEF TaskRecord
<1>3. Begun(pick, broken) \cap (Expired \cup Refused(pick, broken)) = {}
  BY DEF Begun, Refused, Kept
<1>4. CASE t \in Expired \cup Refused(pick, broken)
  <2>1. task'[t] = [task[t] EXCEPT !.status = "failed"]
    BY <1>3, <1>4 DEF DispatchWith
  <2> QED BY <1>2, <1>3, <1>4, <2>1
<1>5. CASE t \in Begun(pick, broken)
  <2>1. task'[t] = [task[t] EXCEPT !.status = "running", !.account = pick[t]]
    BY <1>3, <1>5 DEF DispatchWith
  <2> QED BY <1>2, <1>3, <1>5, <2>1
<1>6. CASE t \notin Begun(pick, broken) \cup Expired \cup Refused(pick, broken)
  <2>1. task'[t] = task[t]
    BY <1>6 DEF DispatchWith
  <2> QED BY <1>6, <2>1
<1> QED BY <1>4, <1>5, <1>6

LEMMA QueueStep == TypeOK /\ QueueInv /\ [Next]_vars => QueueInv'
<1> SUFFICES ASSUME TypeOK, QueueInv, [Next]_vars PROVE QueueInv'
  OBVIOUS
<1>1. ASSUME UNCHANGED <<queue, ahead>>,
             \A t \in Tasks : task[t].status # "absent" => task'[t].status # "absent"
      PROVE  QueueInv'
  BY <1>1 DEF QueueInv, QueueOrdered, TypeOK
<1>2. ASSUME NEW s \in Batches, NEW r \in Targets, Submit(s, r) PROVE QueueInv'
  BY <1>2, SubmitKeepsOrder
<1>3. ASSUME NEW t \in Tasks, Cancel(t) PROVE QueueInv'
  <2>1. \A u \in Tasks : task[u].status # "absent" => task'[u].status # "absent"
    <3>1. task[t] \in TaskRecord
      BY DEF TypeOK
    <3>2. /\ [task[t] EXCEPT !.status = "cancelled"].status = "cancelled"
          /\ [task[t] EXCEPT !.status = "cancelled", !.cancel = TRUE].status = "cancelled"
      BY <3>1 DEF TaskRecord
    <3> QED BY <1>3, <3>2 DEF Cancel, TypeOK
  <2>2. CASE Dequeue({t})
    BY <2>1, <2>2, DequeueKeepsOrder DEF QueueInv, TypeOK
  <2>3. CASE UNCHANGED <<queue, ahead>>
    BY <1>1, <2>1, <2>3
  <2> QED BY <1>3, <2>2, <2>3 DEF Cancel
<1>4. ASSUME NEW t \in Tasks, Restart(t) PROVE QueueInv'
  <2>1. task'[t].status = "queued" /\ \A u \in Tasks \ {t} : task'[u] = task[u]
    BY <1>4 DEF Restart, NewTask, TypeOK
  <2>2. Requeue(t)
    BY <1>4 DEF Restart
  <2> QED BY <2>1, <2>2, RequeueKeepsOrder DEF QueueInv, TypeOK
<1>5. CASE Dispatch
  <2>1. PICK D \in SUBSET Kept : \E pick \in [D -> Free], broken \in SUBSET D :
               DispatchWith(pick, broken)
    BY <1>5, DispatchPicks
  <2>2. PICK pick \in [D -> Free], broken \in SUBSET D : DispatchWith(pick, broken)
    BY <2>1
  <2>3. D \in SUBSET Tasks /\ pick \in [D -> Accounts]
    BY <2>2, KeptFree
  <2>4. \A t \in queue : task'[t].status # "absent"
    BY <2>2, <2>3, DispatchRows DEF QueueInv, TypeOK
  <2> QED BY <2>2, <2>4, DequeueKeepsOrder DEF DispatchWith
<1>6. ASSUME NEW f \in live, Moves(f) PROVE QueueInv'
  BY <1>1, <1>6, MovesQuietly
<1>7. ASSUME NEW f \in live, Finish(f) PROVE QueueInv'
  <2>1. /\ f.task \in Tasks
        /\ \A t \in Tasks : task[t].status # "absent" => task'[t].status # "absent"
        /\ task'[f.task].status # "absent"
    BY <1>7, FinishRows DEF Terminal
  <2>2. CASE Requeue(f.task)
    BY <2>1, <2>2, RequeueKeepsOrder DEF QueueInv, TypeOK
  <2>3. CASE UNCHANGED <<queue, ahead>>
    BY <1>1, <2>1, <2>3
  <2> QED BY <1>7, <2>2, <2>3, FinishRows
<1>8. ASSUME NEW t \in Tasks, WaitTooLong(t) PROVE QueueInv'
  <2>1. task[t] \in TaskRecord
    BY DEF TypeOK
  <2>2. [task[t] EXCEPT !.late = TRUE].status = task[t].status
    BY <2>1 DEF TaskRecord
  <2> QED BY <1>1, <1>8, <2>2 DEF WaitTooLong, TypeOK
<1>9. CASE Shutdown
  <2>1. queue' = {}
    BY <1>9 DEF Shutdown, Dequeue
  <2> QED BY <2>1 DEF QueueInv, QueueOrdered
<1>10. CASE UNCHANGED <<task, queue, ahead>>
  BY <1>1, <1>10
<1> QED BY <1>2, <1>3, <1>4, <1>5, <1>6, <1>7, <1>8, <1>9, <1>10
    DEF Next, AttemptStep, Moves, CheckAccount, Poll, LoginStart, LoginSaves, LoginExits,
        SessionLapses, SaveAccount, RemoveCheck, RemoveLogin, RemoveWait, RemoveTree,
        CloseExecutor, sched, vars

\* The deque order is total in every reachable state.
THEOREM QueueIsOrdered == Spec => []QueueOrdered
<1>1. Init => QueueInv
  BY DEF Init, QueueInv, QueueOrdered
<1>2. QueueInv => QueueOrdered
  BY DEF QueueInv
<1> QED BY <1>1, <1>2, QueueStep, TypeCorrect, PTL DEF Spec

-----------------------------------------------------------------------------
(* One attempt per account.                                                *)

\* AccountExclusive with what makes it inductive: until the application is
\* closed, the account of every live attempt is marked busy.
HeldInv ==
  shut = "open" =>
    /\ \A f \in live : f.account \in busy
    /\ \A f, g \in live : f.account = g.account => f = g

\* One call of the dispatcher never hands the same account out twice: of two
\* picked tasks one is in front of the other, and its account is not free for
\* the second.
LEMMA PickInjective ==
  ASSUME TypeOK, QueueInv, NEW D \in SUBSET Kept, NEW pick \in [D -> Free], NEW T,
         Loop(pick, T)
  PROVE  \A s, t \in D : pick[s] = pick[t] => s = t
<1>1. \A s, t \in D : t \in ahead[s] => pick[s] # pick[t]
  BY DEF Loop, Fits, FreeAt
<1>2. D \subseteq queue
  BY DEF Kept
<1>3. \A s, t \in D : s # t => s \in ahead[t] \/ t \in ahead[s]
  BY <1>2 DEF QueueInv, QueueOrdered
<1> QED BY <1>1, <1>3

\* Telling a runner changes neither the task, the number nor the account of
\* an attempt.
LEMMA TellKeepsKeys ==
  ASSUME TypeOK, NEW S
  PROVE  /\ \A g \in TellRunners(S) : \E f \in live :
               /\ g.task = f.task /\ g.id = f.id /\ g.account = f.account
               /\ g = f \/ g = [f EXCEPT !.told = TRUE]
         /\ \A f \in live : \E g \in TellRunners(S) :
               g.task = f.task /\ g.id = f.id /\ g.account = f.account
<1>1. \A f \in live : /\ [f EXCEPT !.told = TRUE].task = f.task
                     /\ [f EXCEPT !.told = TRUE].id = f.id
                     /\ [f EXCEPT !.told = TRUE].account = f.account
  BY DEF TypeOK, Attempt
<1> QED BY <1>1 DEF TellRunners

LEMMA TellKeepsHeld ==
  ASSUME TypeOK, HeldInv, NEW S, live' = TellRunners(S), UNCHANGED <<busy, shut>>
  PROVE  HeldInv'
<1> SUFFICES ASSUME shut = "open"
             PROVE  /\ \A f \in live' : f.account \in busy
                    /\ \A f, g \in live' : f.account = g.account => f = g
  BY DEF HeldInv
<1>1. \A f \in live' : f.account \in busy
  BY TellKeepsKeys DEF HeldInv
<1>2. ASSUME NEW f1 \in live', NEW g1 \in live', f1.account = g1.account PROVE f1 = g1
  <2> DEFINE Told(f) == IF f.task \in S /\ f.pc = "running" /\ f.id = task[f.task].runner
                        THEN [f EXCEPT !.told = TRUE] ELSE f
  <2>1. PICK f \in live : f1 = Told(f)
    BY DEF TellRunners
  <2>2. PICK g \in live : g1 = Told(g)
    BY DEF TellRunners
  <2>3. Told(f).account = f.account /\ Told(g).account = g.account
    BY DEF TypeOK, Attempt
  <2> HIDE DEF Told
  <2>4. f = g
    BY <1>2, <2>1, <2>2, <2>3 DEF HeldInv
  <2> QED BY <2>1, <2>2, <2>4
<1> QED BY <1>1, <1>2

LEMMA HeldStep == TypeOK /\ QueueInv /\ HeldInv /\ [Next]_vars => HeldInv'
<1> SUFFICES ASSUME TypeOK, QueueInv, HeldInv, [Next]_vars PROVE HeldInv'
  OBVIOUS
<1>1. ASSUME NEW t \in Tasks, Cancel(t) PROVE HeldInv'
  <2>1. UNCHANGED <<busy, shut>>
    BY <1>1 DEF Cancel
  <2>2. CASE UNCHANGED live
    BY <2>1, <2>2 DEF HeldInv
  <2>3. CASE live' = TellRunners({t})
    BY <2>1, <2>3, TellKeepsHeld
  <2> QED BY <1>1, <2>2, <2>3 DEF Cancel
<1>2. CASE Dispatch
  <2>1. PICK D \in SUBSET Kept : \E pick \in [D -> Free], broken \in SUBSET D :
               /\ \E T \in SUBSET Kept : Loop(pick, T)
               /\ DispatchWith(pick, broken)
    BY <1>2, DispatchPicks
  <2>2. PICK pick \in [D -> Free], broken \in SUBSET D :
               /\ \E T \in SUBSET Kept : Loop(pick, T)
               /\ DispatchWith(pick, broken)
    BY <2>1
  <2>3. \A s, t \in D : pick[s] = pick[t] => s = t
    BY <2>2, PickInjective
  <2>4. /\ live' = live \cup {NewAttempt(t, pick[t]) : t \in Begun(pick, broken)}
        /\ busy' = busy \cup {pick[t] : t \in Begun(pick, broken) \cup broken}
        /\ Begun(pick, broken) \subseteq D
    BY <2>2 DEF DispatchWith, Begun
  <2>5. \A t \in D : pick[t] \notin busy /\ NewAttempt(t, pick[t]).account = pick[t]
    BY <2>2 DEF Free, NewAttempt
  <2>6. shut' = shut
    BY <1>2 DEF Dispatch
  <2>7. shut = "open" => \A f \in live' : f.account \in busy'
    BY <2>4, <2>5 DEF HeldInv
  <2>8. ASSUME shut = "open", NEW f \in live', NEW g \in live', f.account = g.account
        PROVE  f = g
    <3>1. CASE f \in live /\ g \in live
      BY <2>8, <3>1 DEF HeldInv
    <3>2. CASE f \in live /\ g \notin live
      BY <2>4, <2>5, <2>8, <3>2 DEF HeldInv
    <3>3. CASE f \notin live /\ g \in live
      BY <2>4, <2>5, <2>8, <3>3 DEF HeldInv
    <3>4. CASE f \notin live /\ g \notin live
      BY <2>3, <2>4, <2>5, <2>8, <3>4
    <3> QED BY <3>1, <3>2, <3>3, <3>4
  <2> QED BY <2>6, <2>7, <2>8 DEF HeldInv
<1>3. ASSUME NEW f \in live, Moves(f) PROVE HeldInv'
  <2>1. PICK g \in Attempt : g.account = f.account /\ Becomes(f, g)
    BY <1>3, MovesQuietly
  <2>2. UNCHANGED <<busy, shut>>
    BY <1>3, MovesQuietly
  <2> QED BY <2>1, <2>2 DEF Becomes, HeldInv
<1>4. ASSUME NEW f \in live, Finish(f) PROVE HeldInv'
  BY <1>4 DEF Finish, HeldInv
<1>5. CASE Shutdown
  BY <1>5 DEF Shutdown, HeldInv
<1>6. CASE CloseExecutor
  BY <1>6 DEF CloseExecutor, HeldInv
<1>7. CASE UNCHANGED <<busy, live, shut>>
  BY <1>7 DEF HeldInv
<1> QED BY <1>1, <1>2, <1>3, <1>4, <1>5, <1>6, <1>7
    DEF Next, AttemptStep, Moves, CheckAccount, Submit, Restart, Poll, LoginStart, LoginSaves,
        LoginExits, SessionLapses, WaitTooLong, SaveAccount, RemoveCheck, RemoveLogin,
        RemoveWait, RemoveTree, sched, vars

\* "one active task per account": no two attempts ever hold the same account
\* before the application is closed.
THEOREM AccountsAreExclusive == Spec => []AccountExclusive
<1>1. Init => QueueInv /\ HeldInv
  BY DEF Init, QueueInv, QueueOrdered, HeldInv
<1>2. HeldInv => AccountExclusive
  BY DEF HeldInv, AccountExclusive
<1> QED BY <1>1, <1>2, QueueStep, HeldStep, TypeCorrect, PTL DEF Spec

-----------------------------------------------------------------------------
(* A running row has its attempt; nothing is lost while the catalog works. *)

LEMMA RunningStep == TypeOK /\ RunningHasAttempt /\ [Next]_vars => RunningHasAttempt'
<1> SUFFICES ASSUME TypeOK, RunningHasAttempt, [Next]_vars,
                    NEW t \in Tasks, task'[t].status = "running"
             PROVE  \E f \in live' : f.task = t /\ f.account = task'[t].account
  BY DEF RunningHasAttempt
<1>1. ASSUME task[t].status = "running", task'[t].account = task[t].account,
             \/ live \subseteq live'
             \/ \E S : live' = TellRunners(S)
      PROVE  \E f \in live' : f.task = t /\ f.account = task'[t].account
  BY <1>1, TellKeepsKeys DEF RunningHasAttempt
<1>2. ASSUME NEW s \in Batches, NEW r \in Targets, Submit(s, r)
      PROVE  \E f \in live' : f.task = t /\ f.account = task'[t].account
  BY <1>1, <1>2 DEF Submit, NewTask
<1>3. ASSUME NEW c \in Tasks, Cancel(c)
      PROVE  \E f \in live' : f.task = t /\ f.account = task'[t].account
  <2>1. task[c] \in TaskRecord
    BY DEF TypeOK
  <2>2. /\ [task[c] EXCEPT !.status = "cancelled"].status = "cancelled"
        /\ [task[c] EXCEPT !.status = "cancelled", !.cancel = TRUE].status = "cancelled"
    BY <2>1 DEF TaskRecord
  <2>3. task'[t] = task[t]
    BY <1>3, <2>2 DEF Cancel, TypeOK
  <2> QED BY <1>1, <1>3, <2>3 DEF Cancel
<1>4. ASSUME NEW c \in Tasks, Restart(c)
      PROVE  \E f \in live' : f.task = t /\ f.account = task'[t].account
  BY <1>1, <1>4 DEF Restart, NewTask, TypeOK
<1>5. CASE Dispatch
  <2>1. PICK D \in SUBSET Kept : \E pick \in [D -> Free], broken \in SUBSET D :
               DispatchWith(pick, broken)
    BY <1>5, DispatchPicks
  <2>2. PICK pick \in [D -> Free], broken \in SUBSET D : DispatchWith(pick, broken)
    BY <2>1
  <2>3. pick \in [D -> Accounts]
    BY <2>2, KeptFree
  <2>4. CASE t \in Begun(pick, broken)
    <3>1. task'[t].account = pick[t]
      BY <2>2, <2>3, <2>4, DispatchRows
    <3>2. NewAttempt(t, pick[t]) \in live'
      BY <2>2, <2>4 DEF DispatchWith
    <3> QED BY <3>1, <3>2 DEF NewAttempt
  <2>5. CASE t \notin Begun(pick, broken)
    <3>1. task'[t] = task[t]
      BY <2>2, <2>3, <2>5, DispatchRows
    <3>2. live \subseteq live'
      BY <2>2 DEF DispatchWith
    <3> QED BY <1>1, <3>1, <3>2
  <2> QED BY <2>4, <2>5
<1>6. ASSUME NEW f \in live, Moves(f)
      PROVE  \E h \in live' : h.task = t /\ h.account = task'[t].account
  <2>1. PICK g \in Attempt : g.task = f.task /\ g.account = f.account /\ Becomes(f, g)
    BY <1>6, MovesQuietly
  <2>2. task'[t].status = task[t].status /\ task'[t].account = task[t].account
    BY <1>6, MovesQuietly
  <2>3. PICK h \in live : h.task = t /\ h.account = task[t].account
    BY <2>2 DEF RunningHasAttempt
  <2> QED BY <2>1, <2>2, <2>3 DEF Becomes
<1>7. ASSUME NEW f \in live, Finish(f)
      PROVE  \E h \in live' : h.task = t /\ h.account = task'[t].account
  <2>1. t # f.task /\ task'[t] = task[t]
    BY <1>7, FinishRows DEF Terminal
  <2>2. PICK h \in live : h.task = t /\ h.account = task[t].account
    BY <2>1 DEF RunningHasAttempt
  <2> QED BY <1>7, <2>1, <2>2 DEF Finish
<1>8. ASSUME NEW c \in Tasks, WaitTooLong(c)
      PROVE  \E f \in live' : f.task = t /\ f.account = task'[t].account
  <2>1. task[c] \in TaskRecord
    BY DEF TypeOK
  <2>2. /\ [task[c] EXCEPT !.late = TRUE].status = task[c].status
        /\ [task[c] EXCEPT !.late = TRUE].account = task[c].account
    BY <2>1 DEF TaskRecord
  <2> QED BY <1>1, <1>8, <2>2 DEF WaitTooLong, TypeOK
<1>9. CASE Shutdown
  <2>1. /\ [task[t] EXCEPT !.status = "cancelled"].status = "cancelled"
        /\ [task[t] EXCEPT !.status = "cancelled", !.cancel = TRUE].status = "cancelled"
    <3>1. task[t] \in TaskRecord
      BY DEF TypeOK
    <3> QED BY <3>1 DEF TaskRecord
  <2>2. task[t].status # "running"
    BY <1>9, <2>1 DEF Shutdown
  <2>3. task'[t] = task[t] \/ task'[t].status = "cancelled"
    BY <1>9, <2>1, <2>2 DEF Shutdown
  <2> QED BY <2>2, <2>3
<1>10. CASE UNCHANGED <<task, live>>
  BY <1>1, <1>10
<1> QED BY <1>2, <1>3, <1>4, <1>5, <1>6, <1>7, <1>8, <1>9, <1>10
    DEF Next, AttemptStep, Moves, CheckAccount, Poll, LoginStart, LoginSaves, LoginExits,
        SessionLapses, SaveAccount, RemoveCheck, RemoveLogin, RemoveWait, RemoveTree,
        CloseExecutor, sched, vars

\* A row that says "running" always has an attempt that will end it.
THEOREM RunningRowsAreAttempted == Spec => []RunningHasAttempt
<1>1. Init => RunningHasAttempt
  BY DEF Init, RunningHasAttempt, NoTask, NewTask
<1> QED BY <1>1, RunningStep, TypeCorrect, PTL DEF Spec

-----------------------------------------------------------------------------
(* TaskScheduler implements AccountSlots: a step of the dispatcher is one  *)
(* Grant, the end of an attempt is one Return, closing the application is  *)
(* Close, and every other step leaves the slots alone.                     *)

\* The number of an attempt identifies it among those of its task.

\* Attempts are numbered from 1, none has a number not given out yet, and no two attempts of
\* a task have the same, also when a restart runs beside a cancelled attempt.
KeyInv ==
  /\ \A f \in live : 0 < f.id /\ f.id <= started[f.task]
  /\ \A f, g \in live : f.task = g.task /\ f.id = g.id => f = g

\* Only the runner of an attempt can be told to stop, so it must have one.
ToldInv == \A f \in live : f.pc \in {"submitted", "starting"} => ~f.told

LEMMA TellKeepsKeyInv ==
  ASSUME TypeOK, KeyInv, NEW S, live' = TellRunners(S), UNCHANGED started
  PROVE  KeyInv'
<1> DEFINE Told(f) == IF f.task \in S /\ f.pc = "running" /\ f.id = task[f.task].runner
                      THEN [f EXCEPT !.told = TRUE] ELSE f
<1>1. \A f \in live : Told(f).task = f.task /\ Told(f).id = f.id
  BY DEF TypeOK, Attempt
<1>2. \A f \in live' : \E g \in live : f = Told(g)
  BY DEF TellRunners
<1> HIDE DEF Told
<1> QED BY <1>1, <1>2 DEF KeyInv

LEMMA DispatchKeepsKeyInv ==
  ASSUME TypeOK, KeyInv, Dispatch
  PROVE  KeyInv'
<1>1. PICK D \in SUBSET Kept : \E pick \in [D -> Free], broken \in SUBSET D :
             DispatchWith(pick, broken)
  BY DispatchPicks
<1>2. PICK pick \in [D -> Free], broken \in SUBSET D : DispatchWith(pick, broken)
  BY <1>1
<1> DEFINE B == Begun(pick, broken)
<1>3. B \subseteq Tasks
  BY <1>2, KeptFree DEF Begun
<1>4. /\ live' = live \cup {NewAttempt(t, pick[t]) : t \in B}
      /\ \A t \in Tasks : started[t] \in Nat
      /\ \A t \in Tasks : started'[t] = started[t] + (IF t \in B THEN 1 ELSE 0)
  BY <1>2 DEF DispatchWith, TypeOK
<1>5. \A t \in B : /\ NewAttempt(t, pick[t]).task = t
                   /\ NewAttempt(t, pick[t]).id = started[t] + 1
  BY DEF NewAttempt
<1>6. \A f \in live : f.task \in Tasks /\ f.id \in Nat
  BY DEF TypeOK, Attempt
<1> HIDE DEF B
<1>7. \A f \in live' : 0 < f.id /\ f.id <= started'[f.task]
  BY <1>3, <1>4, <1>5, <1>6 DEF KeyInv
<1>8. ASSUME NEW f \in live', NEW g \in live', f.task = g.task, f.id = g.id
      PROVE  f = g
  <2>1. ASSUME NEW h \in live, NEW t \in B PROVE h.task # t \/ h.id # started[t] + 1
    BY <1>3, <1>4, <1>6 DEF KeyInv
  <2>2. CASE f \in live /\ g \in live
    BY <1>8, <2>2 DEF KeyInv
  <2>3. CASE f \in live /\ g \notin live
    BY <1>4, <1>5, <1>8, <2>1, <2>3
  <2>4. CASE f \notin live /\ g \in live
    BY <1>4, <1>5, <1>8, <2>1, <2>4
  <2>5. CASE f \notin live /\ g \notin live
    BY <1>4, <1>5, <1>8, <2>5
  <2> QED BY <2>2, <2>3, <2>4, <2>5
<1> QED BY <1>7, <1>8 DEF KeyInv

LEMMA KeyStep == TypeOK /\ KeyInv /\ [Next]_vars => KeyInv'
<1> SUFFICES ASSUME TypeOK, KeyInv, [Next]_vars PROVE KeyInv'
  OBVIOUS
<1>1. ASSUME NEW t \in Tasks, Cancel(t) PROVE KeyInv'
  <2>1. CASE UNCHANGED live
    BY <1>1, <2>1 DEF Cancel, KeyInv
  <2>2. CASE live' = TellRunners({t})
    BY <1>1, <2>2, TellKeepsKeyInv DEF Cancel
  <2> QED BY <1>1, <2>1, <2>2 DEF Cancel
<1>2. CASE Dispatch
  BY <1>2, DispatchKeepsKeyInv
<1>3. ASSUME NEW f \in live, Moves(f) PROVE KeyInv'
  <2>1. PICK g \in Attempt : g.task = f.task /\ g.id = f.id /\ Becomes(f, g)
    BY <1>3, MovesQuietly
  <2>2. started' = started
    BY <1>3 DEF Moves, RunBegin, StoreRunner, RunEnd, FinishRaises
  <2> QED BY <2>1, <2>2 DEF Becomes, KeyInv
<1>4. ASSUME NEW f \in live, Finish(f) PROVE KeyInv'
  BY <1>4 DEF Finish, KeyInv
<1>5. CASE Shutdown
  BY <1>5, TellKeepsKeyInv DEF Shutdown
<1>6. CASE UNCHANGED <<live, started>>
  BY <1>6 DEF KeyInv
<1> QED BY <1>1, <1>2, <1>3, <1>4, <1>5, <1>6
    DEF Next, AttemptStep, Moves, CheckAccount, Submit, Restart, Poll, LoginStart, LoginSaves,
        LoginExits, SessionLapses, WaitTooLong, SaveAccount, RemoveCheck, RemoveLogin,
        RemoveWait, RemoveTree, CloseExecutor, sched, vars

LEMMA ToldStep == TypeOK /\ ToldInv /\ [Next]_vars => ToldInv'
<1> SUFFICES ASSUME TypeOK, ToldInv, [Next]_vars PROVE ToldInv'
  OBVIOUS
<1>1. ASSUME NEW S, live' = TellRunners(S) PROVE ToldInv'
  <2>1. \A f \in live : [f EXCEPT !.told = TRUE].pc = f.pc
    BY DEF TypeOK, Attempt
  <2> QED BY <1>1, <2>1 DEF TellRunners, ToldInv
<1>2. CASE Dispatch
  <2>1. PICK D \in SUBSET Kept : \E pick \in [D -> Free], broken \in SUBSET D :
               DispatchWith(pick, broken)
    BY <1>2, DispatchPicks
  <2>2. PICK pick \in [D -> Free], broken \in SUBSET D : DispatchWith(pick, broken)
    BY <2>1
  <2>3. \A f \in live' : f \in live \/ f.told = FALSE
    <3>1. \A t : NewAttempt(t, pick[t]).told = FALSE
      BY DEF NewAttempt
    <3> QED BY <2>2, <3>1 DEF DispatchWith
  <2> QED BY <2>3 DEF ToldInv
<1>3. ASSUME NEW f \in live, Moves(f) PROVE ToldInv'
  <2>1. PICK g \in Attempt : Becomes(f, g) /\ Further(f, g)
    BY <1>3, MovesQuietly
  <2> QED BY <2>1 DEF Becomes, Further, ToldInv
<1>4. ASSUME NEW f \in live, Finish(f) PROVE ToldInv'
  BY <1>4 DEF Finish, ToldInv
<1>5. CASE UNCHANGED live
  BY <1>5 DEF ToldInv
<1> QED BY <1>1, <1>2, <1>3, <1>4, <1>5
    DEF Next, AttemptStep, Moves, CheckAccount, Submit, Cancel, Restart, Poll, LoginStart,
        LoginSaves, LoginExits, SessionLapses, WaitTooLong, SaveAccount, RemoveCheck, RemoveLogin,
        RemoveWait, RemoveTree, Shutdown, CloseExecutor, sched, vars

-----------------------------------------------------------------------------
(* The refinement, one lemma for each kind of step.                        *)

\* Attempts that keep their task, number and account hold what they held.
SameKey(f, g) == g.task = f.task /\ g.id = f.id /\ g.account = f.account

LEMMA KeysHold ==
  ASSUME \A f \in live : \E g \in live' : SameKey(f, g),
         \A g \in live' : \E f \in live : SameKey(f, g),
         NEW a
  PROVE  Holding(a)' = Holding(a)
BY DEF Holding, SameKey

\* Attempts that keep their key, and are on their way back if they were, make
\* more of them due and let none off.
Due(f) == f.told \/ f.pc \in {"returned", "raised"}

LEMMA KeysLeave ==
  ASSUME \A f \in live : \E g \in live' : SameKey(f, g) /\ (Due(f) => Due(g)),
         \A g \in live' : \E f \in live : SameKey(f, g),
         NEW a
  PROVE  Leaving(a) \subseteq Leaving(a)' /\ Leaving(a)' \subseteq Holding(a)
BY DEF Holding, Leaving, SameKey, Due

LEMMA TellLeaves ==
  ASSUME TypeOK, NEW S, live' = TellRunners(S), NEW a
  PROVE  Leaving(a) \subseteq Leaving(a)' /\ Leaving(a)' \subseteq Holding(a)
<1> DEFINE Told(f) == IF f.task \in S /\ f.pc = "running" /\ f.id = task[f.task].runner
                      THEN [f EXCEPT !.told = TRUE] ELSE f
<1>1. \A f \in live : SameKey(f, Told(f)) /\ (Due(f) => Due(Told(f)))
  BY DEF TypeOK, Attempt, SameKey, Due
<1>2. live' = {Told(f) : f \in live}
  BY DEF TellRunners
<1> HIDE DEF Told
<1> QED BY <1>1, <1>2, KeysLeave

LEMMA MovesLeave ==
  ASSUME TypeOK, ToldInv, NEW f \in live, Moves(f), NEW a
  PROVE  Leaving(a) \subseteq Leaving(a)' /\ Leaving(a)' \subseteq Holding(a)
<1>1. PICK g \in Attempt : SameKey(f, g) /\ Becomes(f, g) /\ Further(f, g)
  BY MovesQuietly DEF SameKey
<1>2. Due(f) => Due(g)
  BY <1>1 DEF Further, Due, ToldInv, Attempt
<1>3. \A h \in live : \E k \in live' : SameKey(h, k) /\ (Due(h) => Due(k))
  BY <1>1, <1>2 DEF Becomes, SameKey
<1>4. \A k \in live' : \E h \in live : SameKey(h, k)
  BY <1>1 DEF Becomes, SameKey
<1> QED BY <1>3, <1>4, KeysLeave

\* Telling runners and the steps of one attempt keep all keys.
LEMMA TellHolds ==
  ASSUME TypeOK, NEW S, live' = TellRunners(S), NEW a
  PROVE  Holding(a)' = Holding(a)
BY TellKeepsKeys, KeysHold DEF SameKey

LEMMA MovesHold ==
  ASSUME TypeOK, NEW f \in live, Moves(f), NEW a
  PROVE  Holding(a)' = Holding(a)
<1>1. PICK g \in Attempt : SameKey(f, g) /\ Becomes(f, g)
  BY MovesQuietly DEF SameKey
<1>2. \A h \in live : \E k \in live' : SameKey(h, k)
  BY <1>1 DEF Becomes, SameKey
<1>3. \A k \in live' : \E h \in live : SameKey(h, k)
  BY <1>1 DEF Becomes, SameKey
<1> QED BY <1>2, <1>3, KeysHold

\* _finish_task gives back the slot of its own attempt, and only that.
LEMMA FinishReturns ==
  ASSUME TypeOK, KeyInv, NEW f \in live, Finish(f)
  PROVE  Slots!Return(f.account, <<f.task, f.id>>)
<1>1. f.account \in Accounts /\ live' = live \ {f}
  BY DEF Finish, TypeOK, Attempt
<1>2. <<f.task, f.id>> \in Holding(f.account)
  BY DEF Holding
<1>3. ASSUME NEW a \in Accounts
      PROVE  Holding(a)' = IF a = f.account THEN Holding(a) \ {<<f.task, f.id>>} ELSE Holding(a)
  <2>1. \A g \in live : <<g.task, g.id>> = <<f.task, f.id>> => g = f
    BY DEF KeyInv
  <2>2. Holding(a)' = {<<g.task, g.id>> : g \in {h \in live \ {f} : h.account = a}}
    BY <1>1 DEF Holding
  <2> QED BY <2>1, <2>2 DEF Holding
<1>4. UNCHANGED <<started, shut>>
  BY DEF Finish
<1>5. <<f.task, f.id>> \in Leaving(f.account)
  BY DEF Finish, Leaving
<1>6. ASSUME NEW a \in Accounts
      PROVE  Leaving(a)' = IF a = f.account THEN Leaving(a) \ {<<f.task, f.id>>} ELSE Leaving(a)
  <2>1. \A g \in live : <<g.task, g.id>> = <<f.task, f.id>> => g = f
    BY DEF KeyInv
  <2> QED BY <1>1, <2>1 DEF Leaving
<1> QED BY <1>1, <1>3, <1>4, <1>5, <1>6 DEF Slots!Return

\* A call of the dispatcher grants slots to the tasks it begins, if any.
LEMMA DispatchGrants ==
  ASSUME TypeOK, QueueInv, HeldInv, Dispatch
  PROVE  Slots!Next \/ UNCHANGED Slots!slots
<1>1. PICK D \in SUBSET Kept : \E pick \in [D -> Free], broken \in SUBSET D :
             /\ \E T \in SUBSET Kept : Loop(pick, T)
             /\ DispatchWith(pick, broken)
  BY DispatchPicks
<1>2. PICK pick \in [D -> Free], broken \in SUBSET D :
             /\ \E T \in SUBSET Kept : Loop(pick, T)
             /\ DispatchWith(pick, broken)
  BY <1>1
<1> DEFINE B == Begun(pick, broken)
           given == [t \in B |-> pick[t]]
<1>3. B \subseteq D /\ D \subseteq Tasks /\ \A t \in B : pick[t] \in Accounts \ busy
  BY <1>2, KeptFree DEF Begun, Free
<1>4. \A s, t \in D : pick[s] = pick[t] => s = t
  BY <1>2, PickInjective
<1>5. /\ live' = live \cup {NewAttempt(t, pick[t]) : t \in B}
      /\ started' = [t \in Tasks |-> started[t] + (IF t \in B THEN 1 ELSE 0)]
      /\ shut' = shut
  BY <1>2 DEF DispatchWith, Dispatch
<1>6. \A t \in B : /\ NewAttempt(t, pick[t]).task = t
                   /\ NewAttempt(t, pick[t]).id = started[t] + 1
                   /\ NewAttempt(t, pick[t]).account = pick[t]
  BY DEF NewAttempt
<1> HIDE DEF B
<1>7. \A a \in Accounts :
        Holding(a)' = Holding(a) \cup {<<t, started[t] + 1>> : t \in {s \in B : pick[s] = a}}
  BY <1>5, <1>6 DEF Holding
<1>8. \A a \in Accounts : Leaving(a)' = Leaving(a)
  <2>1. \A t \in B : /\ NewAttempt(t, pick[t]).told = FALSE
                     /\ NewAttempt(t, pick[t]).pc = "submitted"
    BY DEF NewAttempt
  <2> QED BY <1>5, <2>1 DEF Leaving
<1>9. CASE B = {}
  <2>1. \A a \in Accounts : Holding(a)' = Holding(a)
    BY <1>7, <1>9
  <2>2. started' = started
    BY <1>5, <1>9 DEF TypeOK
  <2> QED BY <1>5, <1>8, <2>1, <2>2 DEF Slots!slots
<1>10. CASE B # {}
  <2>1. shut = "open" => \A t \in B : Holding(pick[t]) = {}
    BY <1>3 DEF HeldInv, Holding
  <2>2. /\ DOMAIN given = B
        /\ \A t \in B : given[t] = pick[t]
        /\ given \in [B -> Accounts]
    BY <1>3
  <2> HIDE DEF given
  <2>3. \A a \in Accounts : {s \in DOMAIN given : given[s] = a} = {s \in B : pick[s] = a}
    BY <2>2
  <2>4. Slots!Grant(given)
    BY <1>3, <1>4, <1>5, <1>7, <1>8, <1>10, <2>1, <2>2, <2>3 DEF Slots!Grant
  <2> QED BY <1>3, <2>2, <2>4 DEF Slots!Next
<1> QED BY <1>9, <1>10

\* Every step of the scheduler is a step of AccountSlots or leaves it alone.
LEMMA SlotsStep ==
  /\ TypeOK /\ QueueInv /\ HeldInv /\ KeyInv /\ ToldInv
  /\ [Next]_vars
  => [Slots!Next]_(Slots!slots)
<1> SUFFICES ASSUME TypeOK, QueueInv, HeldInv, KeyInv, ToldInv, [Next]_vars
             PROVE  Slots!Next \/ UNCHANGED Slots!slots
  OBVIOUS
<1>1. ASSUME live' = live, UNCHANGED started, (shut' = "open") <=> (shut = "open")
      PROVE  UNCHANGED Slots!slots
  BY <1>1 DEF Slots!slots, Holding, Leaving
<1>2. ASSUME \A a \in Accounts : Leaving(a) \subseteq Leaving(a)' /\ Leaving(a)' \subseteq Holding(a)
      PROVE  Slots!MoreDue
  BY <1>2 DEF Slots!MoreDue
<1>3. ASSUME NEW t \in Tasks, Cancel(t) PROVE Slots!Next \/ UNCHANGED Slots!slots
  <2>1. UNCHANGED <<started, shut>>
    BY <1>3 DEF Cancel
  <2>2. CASE UNCHANGED live
    BY <1>1, <2>1, <2>2
  <2>3. CASE live' = TellRunners({t})
    <3>1. Slots!MoreDue
      BY <1>2, <2>3, TellLeaves
    <3>2. \A a \in Accounts : Holding(a)' = Holding(a)
      BY <2>3, TellHolds
    <3> QED BY <2>1, <3>1, <3>2 DEF Slots!Call, Slots!Next
  <2> QED BY <1>3, <2>2, <2>3 DEF Cancel
<1>4. CASE Dispatch
  BY <1>4, DispatchGrants
<1>5. ASSUME NEW f \in live, Moves(f) PROVE Slots!Next
  <2>1. UNCHANGED <<started, shut>>
    BY <1>5 DEF Moves, RunBegin, StoreRunner, RunEnd, FinishRaises
  <2>2. Slots!MoreDue
    BY <1>2, <1>5, MovesLeave
  <2>3. \A a \in Accounts : Holding(a)' = Holding(a)
    BY <1>5, MovesHold
  <2> QED BY <2>1, <2>2, <2>3 DEF Slots!Call, Slots!Next
<1>6. ASSUME NEW f \in live, Finish(f) PROVE Slots!Next
  <2>1. Slots!Return(f.account, <<f.task, f.id>>)
    BY <1>6, FinishReturns
  <2>2. f.account \in Accounts /\ <<f.task, f.id>> \in Leaving(f.account)
    BY <1>6 DEF TypeOK, Attempt, Leaving, Finish
  <2> QED BY <2>1, <2>2 DEF Slots!Next
<1>7. CASE Shutdown
  <2>1. PICK S : live' = TellRunners(S)
    BY <1>7 DEF Shutdown
  <2>2. \A a \in Accounts : Holding(a)' = Holding(a)
    BY <2>1, TellHolds
  <2>3. Slots!MoreDue
    BY <1>2, <2>1, TellLeaves
  <2>4. Slots!Close
    BY <1>7, <2>2, <2>3 DEF Shutdown, Slots!Close
  <2> QED BY <2>4 DEF Slots!Next
<1>8. CASE CloseExecutor
  BY <1>1, <1>8 DEF CloseExecutor, sched
<1>9. CASE UNCHANGED <<live, started, shut>>
  BY <1>1, <1>9
<1> QED BY <1>3, <1>4, <1>5, <1>6, <1>7, <1>8, <1>9
    DEF Next, AttemptStep, Moves, CheckAccount, Submit, Restart, Poll, LoginStart, LoginSaves,
        LoginExits, SessionLapses, WaitTooLong, SaveAccount, RemoveCheck, RemoveLogin,
        RemoveWait, RemoveTree, sched, vars

\* The scheduler hands accounts out and takes them back as AccountSlots says:
\* _dispatch_tasks to new attempts only and one at a time, _finish_task once
\* for each attempt, whatever is cancelled, restarted, retried or fails; and an
\* attempt that is told to stop or has ended is never let off giving it back.
THEOREM SchedulerImplementsSlots == Spec => ImplementsSlots
<1>1. Init => QueueInv /\ HeldInv /\ KeyInv /\ ToldInv
  BY DEF Init, QueueInv, QueueOrdered, HeldInv, KeyInv, ToldInv
<1>2. Init => Slots!Init
  BY DEF Init, Slots!Init, Holding, Leaving
<1> QED BY <1>1, <1>2, QueueStep, HeldStep, KeyStep, ToldStep, SlotsStep, TypeCorrect, PTL
    DEF Spec, ImplementsSlots, Slots!Spec

-----------------------------------------------------------------------------
(* Nothing is lost while the catalog can be read.                          *)

\* Without a failing catalog a call of the dispatcher breaks off at no task.
LEMMA DispatchUnbroken ==
  ASSUME TypeOK, Dispatch, "catalog" \notin Faults
  PROVE  \E D \in SUBSET Kept : \E pick \in [D -> Free] : DispatchWith(pick, {})
<1>1. PICK D \in SUBSET Kept : \E pick \in [D -> Free], broken \in SUBSET D :
             /\ broken # {} => "catalog" \in Faults
             /\ DispatchWith(pick, broken)
  BY DispatchPicks
<1>2. PICK pick \in [D -> Free], broken \in SUBSET D :
             /\ broken # {} => "catalog" \in Faults
             /\ DispatchWith(pick, broken)
  BY <1>1
<1> QED BY <1>2

LEMMA TaskKeptStep == TypeOK /\ NoTaskLost /\ [Next]_vars => NoTaskLost'
<1> SUFFICES ASSUME TypeOK, NoTaskLost, [Next]_vars, "catalog" \notin Faults,
                    NEW t \in Tasks, task'[t].status = "queued"
             PROVE  t \in queue'
  BY DEF NoTaskLost
<1>1. task[t].status = "queued" => t \in queue
  BY DEF NoTaskLost
<1>2. ASSUME NEW s \in Batches, NEW r \in Targets, Submit(s, r) PROVE t \in queue'
  BY <1>1, <1>2 DEF Submit
<1>3. ASSUME NEW c \in Tasks, Cancel(c) PROVE t \in queue'
  <2>1. task[c] \in TaskRecord
    BY DEF TypeOK
  <2>2. /\ [task[c] EXCEPT !.status = "cancelled"].status = "cancelled"
        /\ [task[c] EXCEPT !.status = "cancelled", !.cancel = TRUE].status = "cancelled"
    BY <2>1 DEF TaskRecord
  <2>3. t # c /\ task'[t] = task[t]
    BY <1>3, <2>2 DEF Cancel, TypeOK
  <2> QED BY <1>1, <1>3, <2>3 DEF Cancel, Dequeue
<1>4. ASSUME NEW c \in Tasks, Restart(c) PROVE t \in queue'
  <2>1. t # c => task'[t] = task[t]
    BY <1>4 DEF Restart, TypeOK
  <2> QED BY <1>1, <1>4, <2>1 DEF Restart, Requeue
<1>5. CASE Dispatch
  <2>1. PICK D \in SUBSET Kept : \E pick \in [D -> Free] : DispatchWith(pick, {})
    BY <1>5, DispatchUnbroken
  <2>2. PICK pick \in [D -> Free] : DispatchWith(pick, {})
    BY <2>1
  <2>3. [task[t] EXCEPT !.status = "failed"].status = "failed"
    <3>1. task[t] \in TaskRecord
      BY DEF TypeOK
    <3> QED BY <3>1 DEF TaskRecord
  <2>4. pick \in [D -> Accounts]
    BY <2>2, KeptFree
  <2>5. t \notin Begun(pick, {})
    BY <2>2, <2>4, KeptFree, DispatchRows
  <2>6. t \notin Expired \cup Refused(pick, {}) /\ task'[t] = task[t]
    BY <2>2, <2>3, <2>5 DEF DispatchWith
  <2>7. t \notin D
    BY <2>5, <2>6 DEF Refused
  <2> QED BY <1>1, <2>2, <2>6, <2>7 DEF DispatchWith, Dequeue, Stale
<1>6. ASSUME NEW f \in live, Moves(f) PROVE t \in queue'
  BY <1>1, <1>6, MovesQuietly
<1>7. ASSUME NEW f \in live, Finish(f) PROVE t \in queue'
  <2>1. t # f.task => task'[t] = task[t]
    BY <1>7, FinishRows
  <2>2. /\ f.task \in Tasks
        /\ Requeue(f.task) \/ (UNCHANGED queue /\ task'[f.task].status # "queued")
    BY <1>7, FinishRows
  <2> QED BY <1>1, <2>1, <2>2 DEF Requeue
<1>8. ASSUME NEW c \in Tasks, WaitTooLong(c) PROVE t \in queue'
  <2>1. task[c] \in TaskRecord
    BY DEF TypeOK
  <2>2. [task[c] EXCEPT !.late = TRUE].status = task[c].status
    BY <2>1 DEF TaskRecord
  <2> QED BY <1>1, <1>8, <2>2 DEF WaitTooLong, TypeOK
<1>9. CASE Shutdown
  <2>1. task[t] \in TaskRecord
    BY DEF TypeOK
  <2>2. /\ [task[t] EXCEPT !.status = "cancelled"].status = "cancelled"
        /\ [task[t] EXCEPT !.status = "cancelled", !.cancel = TRUE].status = "cancelled"
    BY <2>1 DEF TaskRecord
  <2>3. task[t].status # "queued"
    BY <1>1, <1>9, <2>2 DEF Shutdown
  <2> QED BY <1>9, <2>2, <2>3 DEF Shutdown
<1>10. CASE UNCHANGED <<task, queue>>
  BY <1>1, <1>10
<1> QED BY <1>2, <1>3, <1>4, <1>5, <1>6, <1>7, <1>8, <1>9, <1>10
    DEF Next, AttemptStep, Moves, CheckAccount, Poll, LoginStart, LoginSaves, LoginExits,
        SessionLapses, SaveAccount, RemoveCheck, RemoveLogin, RemoveWait, RemoveTree,
        CloseExecutor, sched, vars

\* A task shown as queued is in the queue the dispatcher reads, as long as the
\* workflow catalog can be read.
THEOREM NoTaskIsLost == Spec => []NoTaskLost
<1>1. Init => NoTaskLost
  BY DEF Init, NoTaskLost, NoTask, NewTask
<1> QED BY <1>1, TaskKeptStep, TypeCorrect, PTL DEF Spec

\* No callback raises if state.json can be written.
RaisedInv == "state" \notin Faults => \A f \in live : f.pc # "raised"

LEMMA RaisedStep == TypeOK /\ RaisedInv /\ [Next]_vars => RaisedInv'
<1> SUFFICES ASSUME TypeOK, RaisedInv, [Next]_vars PROVE RaisedInv'
  OBVIOUS
<1>1. ASSUME NEW S, live' = TellRunners(S) PROVE RaisedInv'
  <2>1. \A f \in live : [f EXCEPT !.told = TRUE].pc = f.pc
    BY DEF TypeOK, Attempt
  <2> QED BY <1>1, <2>1 DEF TellRunners, RaisedInv
<1>2. CASE Dispatch
  <2>1. PICK D \in SUBSET Kept : \E pick \in [D -> Free], broken \in SUBSET D :
               DispatchWith(pick, broken)
    BY <1>2, DispatchPicks
  <2>2. PICK pick \in [D -> Free], broken \in SUBSET D : DispatchWith(pick, broken)
    BY <2>1
  <2>3. \A f \in live' : f \in live \/ f.pc = "submitted"
    <3>1. \A t : NewAttempt(t, pick[t]).pc = "submitted"
      BY DEF NewAttempt
    <3> QED BY <2>2, <3>1 DEF DispatchWith
  <2> QED BY <2>3 DEF RaisedInv
<1>3. ASSUME NEW f \in live, Moves(f) PROVE RaisedInv'
  <2>1. PICK g \in Attempt : Becomes(f, g) /\ Further(f, g)
    BY <1>3, MovesQuietly
  <2> QED BY <2>1 DEF Becomes, Further, RaisedInv
<1>4. ASSUME NEW f \in live, Finish(f) PROVE RaisedInv'
  BY <1>4 DEF Finish, RaisedInv
<1>5. CASE UNCHANGED live
  BY <1>5 DEF RaisedInv
<1> QED BY <1>1, <1>2, <1>3, <1>4, <1>5
    DEF Next, AttemptStep, Moves, CheckAccount, Submit, Cancel, Restart, Poll, LoginStart,
        LoginSaves, LoginExits, SessionLapses, WaitTooLong, SaveAccount, RemoveCheck, RemoveLogin,
        RemoveWait, RemoveTree, Shutdown, CloseExecutor, sched, vars

\* NoAccountLost without what RaisedInv adds to it.
BusyInv == "catalog" \notin Faults => \A a \in busy : \E f \in live : f.account = a

LEMMA AccountKeptStep == TypeOK /\ BusyInv /\ [Next]_vars => BusyInv'
<1> SUFFICES ASSUME TypeOK, BusyInv, [Next]_vars, "catalog" \notin Faults,
                    NEW a \in busy'
             PROVE  \E f \in live' : f.account = a
  BY DEF BusyInv
<1>1. a \in busy => \E f \in live : f.account = a
  BY DEF BusyInv
<1>2. ASSUME NEW t \in Tasks, Cancel(t) PROVE \E f \in live' : f.account = a
  <2>1. \A f \in live : \E g \in live' : g.account = f.account
    BY <1>2, TellKeepsKeys DEF Cancel
  <2> QED BY <1>1, <1>2, <2>1 DEF Cancel
<1>3. CASE Dispatch
  <2>1. PICK D \in SUBSET Kept : \E pick \in [D -> Free] : DispatchWith(pick, {})
    BY <1>3, DispatchUnbroken
  <2>2. PICK pick \in [D -> Free] : DispatchWith(pick, {})
    BY <2>1
  <2>3. CASE a \in busy
    BY <1>1, <2>2, <2>3 DEF DispatchWith
  <2>4. CASE a \notin busy
    <3>1. PICK t \in Begun(pick, {}) : a = pick[t]
      BY <2>2, <2>4 DEF DispatchWith
    <3>2. NewAttempt(t, a) \in live' /\ NewAttempt(t, a).account = a
      BY <2>2, <3>1 DEF DispatchWith, NewAttempt
    <3> QED BY <3>2
  <2> QED BY <2>3, <2>4
<1>4. ASSUME NEW f \in live, Moves(f) PROVE \E h \in live' : h.account = a
  <2>1. PICK g \in Attempt : g.account = f.account /\ Becomes(f, g)
    BY <1>4, MovesQuietly
  <2>2. busy' = busy
    BY <1>4, MovesQuietly
  <2> QED BY <1>1, <2>1, <2>2 DEF Becomes
<1>5. ASSUME NEW f \in live, Finish(f) PROVE \E h \in live' : h.account = a
  BY <1>1, <1>5 DEF Finish
<1>6. CASE Shutdown
  BY <1>6 DEF Shutdown
<1>7. CASE UNCHANGED <<busy, live>>
  BY <1>1, <1>7
<1> QED BY <1>2, <1>3, <1>4, <1>5, <1>6, <1>7
    DEF Next, AttemptStep, Moves, CheckAccount, Submit, Restart, Poll, LoginStart, LoginSaves,
        LoginExits, SessionLapses, WaitTooLong, SaveAccount, RemoveCheck, RemoveLogin,
        RemoveWait, RemoveTree, CloseExecutor, sched, vars

\* A busy mark belongs to a live attempt whose callback is still to come, as long
\* as the catalog can be read and state.json be written.
THEOREM NoAccountIsLost == Spec => []NoAccountLost
<1>1. Init => BusyInv /\ RaisedInv
  BY DEF Init, BusyInv, RaisedInv
<1>2. BusyInv /\ RaisedInv => NoAccountLost
  BY DEF BusyInv, RaisedInv, NoAccountLost
<1> QED BY <1>1, <1>2, AccountKeptStep, RaisedStep, TypeCorrect, PTL DEF Spec

-----------------------------------------------------------------------------
(* A login and a task never share a profile.                               *)

LEMMA ProfileStep == TypeOK /\ HeldInv /\ ProfileExclusive /\ [Next]_vars => ProfileExclusive'
<1> SUFFICES ASSUME TypeOK, HeldInv, ProfileExclusive, [Next]_vars,
                    "removal" \notin Faults, shut' = "open", NEW f \in live'
             PROVE  login'[f.account] # "running"
  BY DEF ProfileExclusive
<1>1. shut = "open" => \A g \in live : login[g.account] # "running" /\ g.account \in Accounts
  BY DEF ProfileExclusive, TypeOK, Attempt
<1>2. ASSUME NEW t \in Tasks, Cancel(t) PROVE login'[f.account] # "running"
  <2>1. \E g \in live : g.account = f.account
    BY <1>2, TellKeepsKeys DEF Cancel
  <2> QED BY <1>1, <1>2, <2>1 DEF Cancel, env
<1>3. CASE Dispatch
  <2>1. PICK D \in SUBSET Kept : \E pick \in [D -> Free], broken \in SUBSET D :
               DispatchWith(pick, broken)
    BY <1>3, DispatchPicks
  <2>2. PICK pick \in [D -> Free], broken \in SUBSET D : DispatchWith(pick, broken)
    BY <2>1
  <2>3. \A a \in Accounts : login'[a] = "running" => login[a] = "running"
    BY <1>3 DEF Dispatch, Reaped
  <2>4. CASE f \in live
    BY <1>1, <1>3, <2>3, <2>4 DEF Dispatch
  <2>5. CASE f \notin live
    <3>1. PICK t \in Begun(pick, broken) : f = NewAttempt(t, pick[t])
      BY <2>2, <2>5 DEF DispatchWith
    <3>2. f.account = pick[t] /\ pick[t] \in Free
      BY <3>1 DEF NewAttempt, Begun
    <3> QED BY <2>3, <3>2, KeptFree DEF Free, Ready
  <2> QED BY <2>4, <2>5
<1>4. ASSUME NEW h \in live, Moves(h) PROVE login'[f.account] # "running"
  <2>1. PICK g \in Attempt : g.account = h.account /\ Becomes(h, g)
    BY <1>4, MovesQuietly
  <2>2. UNCHANGED <<login, shut>>
    BY <1>4, MovesQuietly
  <2> QED BY <1>1, <2>1, <2>2 DEF Becomes
<1>5. ASSUME NEW h \in live, Finish(h) PROVE login'[f.account] # "running"
  BY <1>1, <1>5 DEF Finish
<1>6. ASSUME NEW a \in Accounts, LoginStart(a) PROVE login'[f.account] # "running"
  <2>1. f \in live /\ shut = "open"
    BY <1>6 DEF LoginStart, sched
  <2>2. f.account # a
    BY <1>6, <2>1 DEF LoginStart, HeldInv
  <2> QED BY <1>1, <1>6, <2>1, <2>2 DEF LoginStart, TypeOK
<1>7. ASSUME NEW a \in Accounts, LoginExits(a) \/ RemoveLogin(a)
      PROVE  login'[f.account] # "running"
  BY <1>1, <1>7 DEF LoginExits, RemoveLogin, TypeOK, sched
<1>8. ASSUME NEW a \in Accounts, CheckAccount(a) PROVE login'[f.account] # "running"
  BY <1>1, <1>8 DEF CheckAccount, Reaped, sched
<1>9. CASE Shutdown \/ CloseExecutor
  BY <1>9 DEF Shutdown, CloseExecutor
<1>10. CASE UNCHANGED <<live, login, shut>>
  BY <1>1, <1>10
<1> QED BY <1>2, <1>3, <1>4, <1>5, <1>6, <1>7, <1>8, <1>9, <1>10
    DEF Next, AttemptStep, Moves, Submit, Restart, Poll, LoginSaves, SessionLapses,
        WaitTooLong, SaveAccount, RemoveCheck, RemoveWait, RemoveTree, sched, env, vars

\* The browser of a task and a login worker never have the same profile open,
\* by the busy mark that the attempt keeps and the login handler looks at.
THEOREM ProfilesAreExclusive == Spec => []ProfileExclusive
<1>1. Init => QueueInv /\ HeldInv /\ ProfileExclusive
  BY DEF Init, QueueInv, QueueOrdered, HeldInv, ProfileExclusive
<1> QED BY <1>1, QueueStep, HeldStep, ProfileStep, TypeCorrect, PTL DEF Spec

-----------------------------------------------------------------------------
(* Retries are bounded.                                                    *)

\* Starts of the task that are still waiting in the queue.
Waiting(t) == IF t \in queue THEN 1 ELSE 0

\* AttemptsBounded with what makes it inductive: every start, past or waiting,
\* was paid for by the task's submission, a restart or a counted retry.
BudgetInv ==
  \A t \in Tasks :
    IF task[t].status = "absent"
    THEN started[t] = 0
    ELSE started[t] + Waiting(t) <=
           (MaxRequeues + 1) * task[t].restarts + task[t].retry + 1

\* A step that starts nothing and queues nothing keeps the budget.
LEMMA BudgetQuiet ==
  ASSUME TypeOK, BudgetInv, NEW t \in Tasks,
         started'[t] = started[t], t \in queue' => t \in queue,
         (task'[t].status = "absent") <=> (task[t].status = "absent"),
         task'[t].restarts = task[t].restarts, task'[t].retry = task[t].retry
  PROVE  IF task'[t].status = "absent"
         THEN started'[t] = 0
         ELSE started'[t] + Waiting(t)' <=
                (MaxRequeues + 1) * task'[t].restarts + task'[t].retry + 1
<1>1. /\ started[t] \in Nat
      /\ task[t].retry \in Nat
      /\ (MaxRequeues + 1) * task[t].restarts \in Nat
  BY SchedulerAssumption DEF TypeOK, TaskRecord
<1>2. started[t] + Waiting(t)' <= started[t] + Waiting(t)
  BY <1>1 DEF Waiting
<1>3. Waiting(t) \in Nat /\ Waiting(t)' \in Nat
  BY DEF Waiting
<1> DEFINE P == (MaxRequeues + 1) * task[t].restarts
<1>4. task'[t].status # "absent" => started[t] + Waiting(t) <= P + task[t].retry + 1
  BY DEF BudgetInv
<1>5. task'[t].status = "absent" => started[t] = 0
  BY DEF BudgetInv
<1> HIDE DEF P
<1>6. P \in Nat
  BY <1>1 DEF P
<1>7. task'[t].status # "absent" => started'[t] + Waiting(t)' <= P + task'[t].retry + 1
  BY <1>1, <1>2, <1>3, <1>4, <1>6
<1> QED BY <1>5, <1>7 DEF P

LEMMA BudgetStep == TypeOK /\ KeyInv /\ QueueInv /\ BudgetInv /\ [Next]_vars => BudgetInv'
<1> SUFFICES ASSUME TypeOK, KeyInv, QueueInv, BudgetInv, [Next]_vars, NEW t \in Tasks
             PROVE  IF task'[t].status = "absent"
                    THEN started'[t] = 0
                    ELSE started'[t] + Waiting(t)' <=
                           (MaxRequeues + 1) * task'[t].restarts + task'[t].retry + 1
  BY DEF BudgetInv
<1> USE SchedulerAssumption
<1>1. /\ task[t] \in TaskRecord /\ started[t] \in Nat
      /\ task[t].retry \in Nat /\ task[t].restarts \in Nat
  BY DEF TypeOK, TaskRecord
<1> DEFINE Goal == IF task'[t].status = "absent"
                   THEN started'[t] = 0
                   ELSE started'[t] + Waiting(t)' <=
                          (MaxRequeues + 1) * task'[t].restarts + task'[t].retry + 1
<1>2. ASSUME task'[t] = task[t], started' = started, t \in queue' => t \in queue PROVE Goal
  BY <1>2, BudgetQuiet
<1>3. ASSUME NEW s \in Batches, NEW r \in Targets, Submit(s, r) PROVE Goal
  <2>1. CASE t \in Elements(s)
    <3>1. started[t] = 0
      BY <2>1 DEF BudgetInv, Batches, Elements
    <3>2. /\ task'[t].status = "queued" /\ task'[t].restarts = 0 /\ task'[t].retry = 0
          /\ started'[t] = 0
      BY <1>3, <2>1, <3>1 DEF Submit, NewTask
    <3>3. Waiting(t)' \in 0..1 /\ (MaxRequeues + 1) * 0 = 0
      BY DEF Waiting
    <3> QED BY <3>2, <3>3
  <2>2. CASE t \notin Elements(s)
    BY <1>2, <1>3, <2>2 DEF Submit
  <2> QED BY <2>1, <2>2
<1>4. ASSUME NEW c \in Tasks, Cancel(c) PROVE Goal
  <2>1. \A e \in {[task[t] EXCEPT !.status = "cancelled"],
                  [task[t] EXCEPT !.status = "cancelled", !.cancel = TRUE]} :
          e.status = "cancelled" /\ e.restarts = task[t].restarts /\ e.retry = task[t].retry
    BY <1>1 DEF TaskRecord
  <2>2. t \in queue' => t \in queue
    BY <1>4 DEF Cancel, Dequeue
  <2>3. CASE t = c
    <3>1. task[t].status # "absent"
      BY <1>4, <2>3 DEF Cancel
    <3>2. task'[t] \in {[task[t] EXCEPT !.status = "cancelled"],
                        [task[t] EXCEPT !.status = "cancelled", !.cancel = TRUE]}
      BY <1>4, <2>3 DEF Cancel, TypeOK
    <3> QED BY <1>4, <2>1, <2>2, <3>1, <3>2, BudgetQuiet DEF Cancel
  <2>4. CASE t # c
    BY <1>2, <1>4, <2>2, <2>4 DEF Cancel, TypeOK
  <2> QED BY <2>3, <2>4
<1>5. ASSUME NEW c \in Tasks, Restart(c) PROVE Goal
  <2>1. CASE t = c
    <3> DEFINE M == MaxRequeues + 1
               P == M * task[t].restarts
    <3>1. task'[t] = NewTask(task[t].requested, task[t].restarts + 1)
      BY <1>5, <2>1 DEF Restart, TypeOK
    <3>2. /\ task'[t].status = "queued" /\ task'[t].retry = 0
          /\ task'[t].restarts = task[t].restarts + 1 /\ started'[t] = started[t]
      BY <1>5, <3>1 DEF Restart, NewTask
    <3>3. started[t] + Waiting(t) <= P + task[t].retry + 1
      BY <1>5, <2>1 DEF Restart, BudgetInv
    <3>4. M * (task[t].restarts + 1) = P + M
      BY <1>1
    <3>5. /\ task[t].retry + 1 <= M /\ M \in Nat /\ P \in Nat
          /\ Waiting(t) \in 0..1 /\ Waiting(t)' \in 0..1
      BY <1>1 DEF TaskRecord, Waiting
    <3> HIDE DEF M, P
    <3>6. started[t] + Waiting(t)' <= P + M + 0 + 1
      BY <1>1, <3>3, <3>5
    <3> QED BY <3>2, <3>4, <3>6 DEF M
  <2>2. CASE t # c
    <3>1. t \in queue' => t \in queue
      BY <1>5, <2>2 DEF Restart, Requeue
    <3> QED BY <1>2, <1>5, <2>2, <3>1 DEF Restart, TypeOK
  <2> QED BY <2>1, <2>2
<1>6. CASE Dispatch
  <2>1. PICK D \in SUBSET Kept : \E pick \in [D -> Free], broken \in SUBSET D :
               DispatchWith(pick, broken)
    BY <1>6, DispatchPicks
  <2>2. PICK pick \in [D -> Free], broken \in SUBSET D : DispatchWith(pick, broken)
    BY <2>1
  <2>3. \A e \in {task[t], [task[t] EXCEPT !.status = "failed"],
                  [task[t] EXCEPT !.status = "running", !.account = pick[t]]} :
          e.restarts = task[t].restarts /\ e.retry = task[t].retry
    BY <1>1 DEF TaskRecord
  <2>4. task'[t] \in {task[t], [task[t] EXCEPT !.status = "failed"],
                      [task[t] EXCEPT !.status = "running", !.account = pick[t]]}
    BY <2>2 DEF DispatchWith
  <2>5. queue' \subseteq queue
    BY <2>2 DEF DispatchWith, Dequeue
  <2>6. CASE t \in Begun(pick, broken)
    <3>1. t \in queue /\ t \notin queue'
      BY <2>2, <2>6 DEF Begun, Kept, DispatchWith, Dequeue
    <3>2. started'[t] = started[t] + 1 /\ Waiting(t) = 1 /\ Waiting(t)' = 0
      BY <2>2, <2>6, <3>1 DEF DispatchWith, Waiting
    <3>3. task'[t].status = "running" /\ task[t].status # "absent"
      <4>1. [task[t] EXCEPT !.status = "running", !.account = pick[t]].status = "running"
        BY <1>1 DEF TaskRecord
      <4>2. t \notin Expired \cup Refused(pick, broken)
        BY <2>6 DEF Begun, Kept, Refused
      <4> QED BY <2>2, <2>6, <3>1, <4>1, <4>2 DEF DispatchWith, QueueInv
    <3>4. started[t] + Waiting(t) <= (MaxRequeues + 1) * task[t].restarts + task[t].retry + 1
      BY <3>3 DEF BudgetInv
    <3>5. started'[t] + Waiting(t)' = started[t] + Waiting(t)
      BY <1>1, <3>2
    <3> QED BY <2>3, <2>4, <3>3, <3>4, <3>5
  <2>7. CASE t \notin Begun(pick, broken)
    <3>1. started'[t] = started[t]
      <4>1. started'[t] = started[t] + 0
        BY <2>2, <2>7 DEF DispatchWith
      <4> QED BY <1>1, <4>1
    <3>2. (task'[t].status = "absent") <=> (task[t].status = "absent")
      <4>1. [task[t] EXCEPT !.status = "failed"].status = "failed"
        BY <1>1 DEF TaskRecord
      <4>2. t \in Expired \cup Refused(pick, broken) => task[t].status # "absent"
        BY <2>2 DEF Expired, Refused, Kept, QueueInv
      <4> QED BY <2>2, <2>7, <4>1, <4>2 DEF DispatchWith
    <3> QED BY <2>3, <2>4, <2>5, <3>1, <3>2, BudgetQuiet
  <2> QED BY <2>6, <2>7
<1>7. ASSUME NEW f \in live, RunBegin(f) \/ \E outcome \in Outcomes(f) : RunEnd(f, outcome)
      PROVE  Goal
  BY <1>2, <1>7 DEF RunBegin, RunEnd
<1>8. ASSUME NEW f \in live, StoreRunner(f) PROVE Goal
  <2>1. [task[t] EXCEPT !.runner = f.id].restarts = task[t].restarts
        /\ [task[t] EXCEPT !.runner = f.id].retry = task[t].retry
        /\ [task[t] EXCEPT !.runner = f.id].status = task[t].status
    BY <1>1 DEF TaskRecord
  <2>2. task'[t] = task[t] \/ task'[t] = [task[t] EXCEPT !.runner = f.id]
    BY <1>8 DEF StoreRunner, TypeOK
  <2> QED BY <1>8, <2>1, <2>2, BudgetQuiet DEF StoreRunner
<1>9. ASSUME NEW f \in live, Finish(f) PROVE Goal
  <2>1. started' = started
    BY <1>9 DEF Finish
  <2>2. CASE t = f.task
    <3>1. task[t].status # "absent"
      BY <2>2 DEF BudgetInv, KeyInv, TypeOK, Attempt
    <3>2. started[t] + Waiting(t) <= (MaxRequeues + 1) * task[t].restarts + task[t].retry + 1
      BY <3>1 DEF BudgetInv
    <3>3. CASE Retries(f)
      <4>1. task'[t] = RetryRow(task[t], f.result)
        BY <1>9, <2>2, <3>3 DEF Finish, BookRetry, TypeOK
      <4>2. /\ task'[t].status = "queued" /\ task'[t].retry = task[t].retry + 1
            /\ task'[t].restarts = task[t].restarts
        BY <1>1, <4>1 DEF RetryRow, TaskRecord
      <4>3. Waiting(t) \in 0..1 /\ Waiting(t)' \in 0..1
        BY DEF Waiting
      <4> DEFINE P == (MaxRequeues + 1) * task[t].restarts
      <4>4. P \in Nat
        BY <1>1
      <4> HIDE DEF P
      <4>5. started[t] + Waiting(t)' <= P + (task[t].retry + 1) + 1
        BY <1>1, <3>2, <4>3, <4>4 DEF P
      <4> QED BY <2>1, <4>2, <4>5 DEF P
    <3>4. CASE ~Retries(f)
      <4>1. task'[t] = ResultRow(task[t], f.result) /\ UNCHANGED queue
        BY <1>9, <2>2, <3>4 DEF Finish, BookResult, TypeOK
      <4>2. /\ task'[t].status # "absent" /\ task'[t].retry = task[t].retry
            /\ task'[t].restarts = task[t].restarts
        BY <1>1, <4>1 DEF ResultRow, TaskRecord, Terminal
      <4> QED BY <2>1, <3>1, <4>1, <4>2, BudgetQuiet
    <3> QED BY <3>3, <3>4
  <2>3. CASE t # f.task
    <3>1. task'[t] = task[t]
      BY <1>9, <2>3, FinishRows
    <3>2. t \in queue' => t \in queue
      BY <1>9, <2>3, FinishRows DEF Requeue
    <3> QED BY <1>2, <2>1, <3>1, <3>2
  <2> QED BY <2>2, <2>3
<1>10. ASSUME NEW c \in Tasks, WaitTooLong(c) PROVE Goal
  <2>1. /\ [task[t] EXCEPT !.late = TRUE].restarts = task[t].restarts
        /\ [task[t] EXCEPT !.late = TRUE].retry = task[t].retry
        /\ [task[t] EXCEPT !.late = TRUE].status = task[t].status
    BY <1>1 DEF TaskRecord
  <2>2. task'[t] = task[t] \/ task'[t] = [task[t] EXCEPT !.late = TRUE]
    BY <1>10 DEF WaitTooLong, TypeOK
  <2> QED BY <1>10, <2>1, <2>2, BudgetQuiet DEF WaitTooLong
<1>11. CASE Shutdown
  <2>1. \A e \in {[task[t] EXCEPT !.status = "cancelled"],
                  [task[t] EXCEPT !.status = "cancelled", !.cancel = TRUE]} :
          e.status = "cancelled" /\ e.restarts = task[t].restarts /\ e.retry = task[t].retry
    BY <1>1 DEF TaskRecord
  <2>2. \/ task'[t] = task[t]
        \/ /\ task[t].status \in {"queued", "running"}
           /\ task'[t] \in {[task[t] EXCEPT !.status = "cancelled"],
                            [task[t] EXCEPT !.status = "cancelled", !.cancel = TRUE]}
    BY <1>11 DEF Shutdown
  <2>3. started' = started /\ (t \in queue' => t \in queue)
    BY <1>11 DEF Shutdown, Dequeue
  <2> QED BY <2>1, <2>2, <2>3, BudgetQuiet
<1>12. CASE UNCHANGED <<task, queue, started>>
  BY <1>2, <1>12
<1> QED BY <1>3, <1>4, <1>5, <1>6, <1>7, <1>8, <1>9, <1>10, <1>11, <1>12
    DEF Next, AttemptStep, FinishRaises, CheckAccount, Poll, LoginStart, LoginSaves, LoginExits,
        SessionLapses, SaveAccount, RemoveCheck, RemoveLogin, RemoveWait, RemoveTree,
        CloseExecutor, sched, vars

\* In all its life a task is attempted at most once and MaxRequeues times again
\* for each time a user starts it, also when a restart overlaps an attempt that
\* is still being cancelled and books its failure on the new row.
THEOREM AttemptsAreBounded == Spec => []AttemptsBounded
<1>1. Init => QueueInv /\ KeyInv /\ BudgetInv
  BY DEF Init, QueueInv, QueueOrdered, KeyInv, BudgetInv, NoTask, NewTask
<1>2. TypeOK /\ BudgetInv => AttemptsBounded
  <2> SUFFICES ASSUME TypeOK, BudgetInv, NEW t \in Tasks
               PROVE  started[t] <= (MaxRequeues + 1) * (task[t].restarts + 1)
    BY DEF AttemptsBounded
  <2> DEFINE M == MaxRequeues + 1
             P == M * task[t].restarts
  <2>1. /\ started[t] \in Nat /\ MaxRequeues \in Nat /\ task[t].restarts \in Nat
        /\ task[t].retry \in 0..MaxRequeues
    BY SchedulerAssumption DEF TypeOK, TaskRecord
  <2>2. M * (task[t].restarts + 1) = P + M
    BY <2>1
  <2>3. M \in Nat /\ P \in Nat /\ task[t].retry + 1 <= M
    BY <2>1
  <2>4. Waiting(t) \in 0..1
    BY DEF Waiting
  <2>5. started[t] = 0 \/ started[t] + Waiting(t) <= P + task[t].retry + 1
    BY DEF BudgetInv
  <2> HIDE DEF M, P
  <2>6. started[t] <= P + M
    BY <2>3, <2>4, <2>5, <2>1
  <2> QED BY <2>2, <2>6 DEF M
<1> QED BY <1>1, <1>2, QueueStep, KeyStep, BudgetStep, TypeCorrect, PTL DEF Spec

-----------------------------------------------------------------------------
(* A cancellation reaches the runner.                                      *)

\* What CancelReachesRunner says of one attempt.
Heard(f) == f.pc = "running" /\ task[f.task].cancel /\ task[f.task].runner = f.id => f.told

\* A row keeps its runner and is not flagged anew, or a new one has neither.
Silent(row, new) ==
  \/ (new.cancel => row.cancel) /\ new.runner = row.runner
  \/ ~new.cancel
  \/ new.runner = 0

\* Rows that only fall silent ask nothing more of the attempts there are.
LEMMA HeardStays ==
  ASSUME TypeOK, KeyInv, NEW f \in live, Heard(f), Silent(task[f.task], task'[f.task])
  PROVE  Heard(f)'
<1>1. f.id \in Nat /\ 0 < f.id
  BY DEF TypeOK, Attempt, KeyInv
<1> QED BY <1>1 DEF Heard, Silent

\* After the runners of a set of flagged rows have been told, they have heard.
LEMMA ToldHeard ==
  ASSUME TypeOK, CancelReachesRunner, NEW S, live' = TellRunners(S),
         \A t \in Tasks : task'[t].runner = task[t].runner,
         \A t \in Tasks \ S : task'[t].cancel = task[t].cancel
  PROVE  CancelReachesRunner'
<1> SUFFICES ASSUME NEW g \in live', g.pc = "running", task'[g.task].cancel,
                    task'[g.task].runner = g.id
             PROVE  g.told
  BY DEF CancelReachesRunner
<1> DEFINE Hears(f) == f.task \in S /\ f.pc = "running" /\ f.id = task[f.task].runner
<1>1. PICK f \in live : g = IF Hears(f) THEN [f EXCEPT !.told = TRUE] ELSE f
  BY DEF TellRunners
<1>2. f \in Attempt /\ f.task \in Tasks
  BY DEF TypeOK, Attempt
<1>3. [f EXCEPT !.told = TRUE].told = TRUE
  BY <1>2 DEF Attempt
<1>4. CASE Hears(f)
  BY <1>1, <1>3, <1>4
<1>5. CASE ~Hears(f)
  <2>1. g = f /\ f.task \notin S
    BY <1>1, <1>2, <1>5
  <2> QED BY <1>2, <2>1 DEF CancelReachesRunner
<1> QED BY <1>4, <1>5

LEMMA CancelStep == TypeOK /\ KeyInv /\ CancelReachesRunner /\ [Next]_vars => CancelReachesRunner'
<1> SUFFICES ASSUME TypeOK, KeyInv, CancelReachesRunner, [Next]_vars PROVE CancelReachesRunner'
  OBVIOUS
<1>1. \A f \in live : Heard(f) /\ f.task \in Tasks
  BY DEF CancelReachesRunner, Heard, TypeOK, Attempt
<1>2. ASSUME \A t \in Tasks : Silent(task[t], task'[t]),
             \A f \in live' : f \in live \/ f.pc # "running"
      PROVE  CancelReachesRunner'
  <2> SUFFICES ASSUME NEW f \in live' PROVE Heard(f)'
    BY DEF CancelReachesRunner, Heard
  <2>1. CASE f \in live
    BY <1>1, <1>2, <2>1, HeardStays
  <2>2. CASE f.pc # "running"
    BY <2>2 DEF Heard
  <2> QED BY <1>2, <2>1, <2>2
<1>3. ASSUME NEW s \in Batches, NEW r \in Targets, Submit(s, r) PROVE CancelReachesRunner'
  BY <1>2, <1>3 DEF Submit, NewTask, Silent
<1>4. ASSUME NEW t \in Tasks, Cancel(t) PROVE CancelReachesRunner'
  <2>1. task[t] \in TaskRecord
    BY DEF TypeOK
  <2>2. /\ [task[t] EXCEPT !.status = "cancelled"].cancel = task[t].cancel
        /\ [task[t] EXCEPT !.status = "cancelled"].runner = task[t].runner
        /\ [task[t] EXCEPT !.status = "cancelled", !.cancel = TRUE].runner = task[t].runner
    BY <2>1 DEF TaskRecord
  <2>3. CASE task[t].status = "queued"
    <3>1. UNCHANGED live /\ task' = [task EXCEPT ![t] = [task[t] EXCEPT !.status = "cancelled"]]
      BY <1>4, <2>3 DEF Cancel
    <3>2. \A u \in Tasks : Silent(task[u], task'[u])
      BY <2>2, <3>1 DEF Silent, TypeOK
    <3> QED BY <1>2, <3>1, <3>2
  <2>4. CASE task[t].status = "running"
    <3>1. /\ live' = TellRunners({t})
          /\ task' = [task EXCEPT ![t] = [task[t] EXCEPT !.status = "cancelled", !.cancel = TRUE]]
      BY <1>4, <2>4 DEF Cancel
    <3>2. /\ \A u \in Tasks : task'[u].runner = task[u].runner
          /\ \A u \in Tasks \ {t} : task'[u].cancel = task[u].cancel
      BY <2>2, <3>1 DEF TypeOK
    <3> QED BY <3>1, <3>2, ToldHeard
  <2> QED BY <1>4, <2>3, <2>4 DEF Cancel
<1>5. ASSUME NEW t \in Tasks, Restart(t) PROVE CancelReachesRunner'
  BY <1>2, <1>5 DEF Restart, NewTask, Silent, TypeOK
<1>6. CASE Dispatch
  <2>1. PICK D \in SUBSET Kept : \E pick \in [D -> Free], broken \in SUBSET D :
               DispatchWith(pick, broken)
    BY <1>6, DispatchPicks
  <2>2. PICK pick \in [D -> Free], broken \in SUBSET D : DispatchWith(pick, broken)
    BY <2>1
  <2>3. ASSUME NEW t \in Tasks PROVE Silent(task[t], task'[t])
    <3>1. task[t] \in TaskRecord
      BY DEF TypeOK
    <3>2. \A e \in {task[t], [task[t] EXCEPT !.status = "failed"],
                    [task[t] EXCEPT !.status = "running", !.account = pick[t]]} :
            e.cancel = task[t].cancel /\ e.runner = task[t].runner
      BY <3>1 DEF TaskRecord
    <3>3. task'[t] \in {task[t], [task[t] EXCEPT !.status = "failed"],
                        [task[t] EXCEPT !.status = "running", !.account = pick[t]]}
      BY <2>2 DEF DispatchWith
    <3> QED BY <3>2, <3>3 DEF Silent
  <2>4. \A f \in live' : f \in live \/ f.pc # "running"
    <3>1. live' = live \cup {NewAttempt(t, pick[t]) : t \in Begun(pick, broken)}
      BY <2>2 DEF DispatchWith
    <3>2. \A t \in Begun(pick, broken) : NewAttempt(t, pick[t]).pc = "submitted"
      BY DEF NewAttempt
    <3> QED BY <3>1, <3>2
  <2> QED BY <1>2, <2>3, <2>4
<1>7. ASSUME NEW f \in live, RunBegin(f) PROVE CancelReachesRunner'
  <2>1. /\ [f EXCEPT !.pc = "starting"].pc = "starting"
        /\ [f EXCEPT !.pc = "returned", !.result = "failed"].pc = "returned"
    BY DEF TypeOK, Attempt
  <2>2. \A h \in live' : h \in live \/ h.pc # "running"
    BY <1>7, <2>1 DEF RunBegin, Becomes
  <2> QED BY <1>2, <1>7, <2>2 DEF RunBegin, Silent
<1>8. ASSUME NEW f \in live, NEW outcome \in Outcomes(f), RunEnd(f, outcome)
      PROVE  CancelReachesRunner'
  <2>1. [f EXCEPT !.pc = "returned",
           !.result = IF task[f.task].cancel THEN "cancelled" ELSE outcome].pc = "returned"
    BY DEF TypeOK, Attempt
  <2>2. \A h \in live' : h \in live \/ h.pc # "running"
    BY <1>8, <2>1 DEF RunEnd, Becomes
  <2> QED BY <1>2, <1>8, <2>2 DEF RunEnd, Silent
<1>9. ASSUME NEW f \in live, StoreRunner(f) PROVE CancelReachesRunner'
  <2> DEFINE g == [f EXCEPT !.pc = "running", !.told = task[f.task].cancel]
  <2>1. f \in Attempt /\ f.task \in Tasks /\ task[f.task] \in TaskRecord
    BY DEF TypeOK, Attempt
  <2>2. g.task = f.task /\ g.id = f.id /\ g.told = task[f.task].cancel
    BY <2>1 DEF Attempt
  <2>3. live' = (live \ {f}) \cup {g}
    BY <1>9 DEF StoreRunner, Becomes
  <2>4. /\ task'[f.task].runner = f.id
        /\ task'[f.task].cancel = task[f.task].cancel
        /\ \A t \in Tasks \ {f.task} : task'[t] = task[t]
    BY <1>9, <2>1 DEF StoreRunner, TypeOK, TaskRecord
  <2> HIDE DEF g
  <2> SUFFICES ASSUME NEW h \in live', h.pc = "running", task'[h.task].cancel,
                      task'[h.task].runner = h.id
               PROVE  h.told
    BY DEF CancelReachesRunner
  <2>5. CASE h = g
    BY <2>2, <2>4, <2>5
  <2>6. CASE h # g
    <3>1. h \in live /\ h # f
      BY <2>3, <2>6
    <3>2. h.task # f.task
      BY <2>4, <3>1 DEF KeyInv
    <3>3. task'[h.task] = task[h.task]
      BY <1>1, <2>4, <3>1, <3>2
    <3> QED BY <3>1, <3>3 DEF CancelReachesRunner
  <2> QED BY <2>5, <2>6
<1>10. ASSUME NEW f \in live, Finish(f) PROVE CancelReachesRunner'
  <2>1. f.task \in Tasks /\ task[f.task] \in TaskRecord
    BY DEF TypeOK, Attempt
  <2>2. /\ RetryRow(task[f.task], f.result).runner = 0
        /\ ResultRow(task[f.task], f.result).runner = 0
    BY <2>1 DEF RetryRow, ResultRow, TaskRecord
  <2>3. task'[f.task].runner = 0
    BY <1>10, <2>1, <2>2 DEF Finish, BookRetry, BookResult, TypeOK
  <2>4. \A t \in Tasks : Silent(task[t], task'[t])
    BY <1>10, <2>3, FinishRows DEF Silent
  <2> QED BY <1>2, <1>10, <2>4 DEF Finish
<1>11. ASSUME NEW t \in Tasks, WaitTooLong(t) PROVE CancelReachesRunner'
  <2>1. task[t] \in TaskRecord
    BY DEF TypeOK
  <2>2. /\ [task[t] EXCEPT !.late = TRUE].cancel = task[t].cancel
        /\ [task[t] EXCEPT !.late = TRUE].runner = task[t].runner
    BY <2>1 DEF TaskRecord
  <2> QED BY <1>2, <1>11, <2>2 DEF WaitTooLong, Silent, TypeOK
<1>12. CASE Shutdown
  <2> DEFINE running == {t \in Tasks : task[t].status = "running"}
  <2>1. ASSUME NEW t \in Tasks
        PROVE  /\ task'[t].runner = task[t].runner
               /\ t \notin running => task'[t].cancel = task[t].cancel
    <3>1. task[t] \in TaskRecord
      BY DEF TypeOK
    <3>2. /\ [task[t] EXCEPT !.status = "cancelled"].cancel = task[t].cancel
          /\ [task[t] EXCEPT !.status = "cancelled"].runner = task[t].runner
          /\ [task[t] EXCEPT !.status = "cancelled", !.cancel = TRUE].runner = task[t].runner
      BY <3>1 DEF TaskRecord
    <3> QED BY <1>12, <3>2 DEF Shutdown
  <2>2. live' = TellRunners(running)
    BY <1>12 DEF Shutdown
  <2> HIDE DEF running
  <2> QED BY <2>1, <2>2, ToldHeard
<1>13. ASSUME NEW f \in live, FinishRaises(f) PROVE CancelReachesRunner'
  <2>1. [f EXCEPT !.pc = "raised"].pc = "raised"
    BY DEF TypeOK, Attempt
  <2>2. \A h \in live' : h \in live \/ h.pc # "running"
    BY <1>13, <2>1 DEF FinishRaises, Becomes
  <2> QED BY <1>2, <1>13, <2>2 DEF FinishRaises, Silent
<1>14. CASE UNCHANGED <<task, live>>
  BY <1>2, <1>14 DEF Silent
<1> QED BY <1>3, <1>4, <1>5, <1>6, <1>7, <1>8, <1>9, <1>10, <1>11, <1>12, <1>13, <1>14
    DEF Next, AttemptStep, CheckAccount, Poll, LoginStart, LoginSaves, LoginExits,
        SessionLapses, SaveAccount, RemoveCheck, RemoveLogin, RemoveWait, RemoveTree,
        CloseExecutor, sched, vars

\* A runner the row refers to has been told of a cancellation, whichever of the
\* cancel request and the start of the browser came first.
THEOREM CancellationsReachRunners == Spec => []CancelReachesRunner
<1>1. Init => KeyInv /\ CancelReachesRunner
  BY DEF Init, KeyInv, CancelReachesRunner
<1> QED BY <1>1, KeyStep, CancelStep, TypeCorrect, PTL DEF Spec

-----------------------------------------------------------------------------
(* First come, first served.                                               *)

\* The order of the deque is transitive.
AheadInv ==
  \A s, t, u \in queue : s \in ahead[t] /\ t \in ahead[u] => s \in ahead[u]

LEMMA DequeueKeepsAhead ==
  ASSUME TypeOK, AheadInv, NEW S, Dequeue(S)
  PROVE  AheadInv'
<1>1. queue' \subseteq queue /\ \A t \in queue' : ahead'[t] = ahead[t] \ S
  BY DEF Dequeue, TypeOK
<1>2. \A t \in queue' : t \notin S
  BY DEF Dequeue
<1> QED BY <1>1, <1>2 DEF AheadInv

LEMMA RequeueKeepsAhead ==
  ASSUME TypeOK, QueueInv, AheadInv, NEW q \in Tasks, Requeue(q)
  PROVE  AheadInv'
<1>1. CASE q \in queue
  BY <1>1 DEF Requeue, AheadInv
<1>2. CASE q \notin queue
  <2>1. queue' = queue \cup {q} /\ ahead' = [ahead EXCEPT ![q] = queue]
    BY <1>2 DEF Requeue
  <2>2. ahead'[q] = queue /\ \A t \in queue : ahead'[t] = ahead[t]
    BY <1>2, <2>1 DEF TypeOK
  <2> QED BY <1>2, <2>1, <2>2 DEF QueueInv, AheadInv
<1> QED BY <1>1, <1>2

LEMMA SubmitKeepsAhead ==
  ASSUME TypeOK, QueueInv, AheadInv, NEW s \in Batches, NEW r \in Targets, Submit(s, r)
  PROVE  AheadInv'
<1>1. /\ Elements(s) \subseteq Tasks
      /\ \A t \in Elements(s) : t \notin queue
  BY DEF Batches, Elements, QueueInv
<1>2. PICK n \in Nat : s \in [1..n -> Tasks]
  BY DEF Batches
<1>3. /\ \A t \in Elements(s) : ahead'[t] = queue \cup Before(s, t)
      /\ \A t \in queue : ahead'[t] = ahead[t]
      /\ queue' = queue \cup Elements(s)
  BY <1>1 DEF Submit, TypeOK
<1>4. \A t \in Elements(s) : Before(s, t) \subseteq Elements(s)
  BY DEF Before, Elements
<1>5. ASSUME NEW t \in Elements(s), NEW u \in Elements(s), NEW v \in Elements(s),
             t \in Before(s, u), u \in Before(s, v)
      PROVE  t \in Before(s, v)
  <2>1. \A k, l \in 1..n : s[k] = s[l] => k = l
    BY <1>2 DEF Batches
  <2>2. PICK i \in 1..n, j \in 1..n : i < j /\ s[i] = t /\ s[j] = u
    BY <1>2, <1>5 DEF Before
  <2>3. PICK k \in 1..n, l \in 1..n : k < l /\ s[k] = u /\ s[l] = v
    BY <1>2, <1>5 DEF Before
  <2>4. i < l
    BY <2>1, <2>2, <2>3
  <2> QED BY <1>2, <2>2, <2>3, <2>4 DEF Before
<1>6. ASSUME NEW t \in queue', NEW u \in queue', NEW v \in queue',
             t \in ahead'[u], u \in ahead'[v]
      PROVE  t \in ahead'[v]
  <2>1. CASE v \in queue
    <3>1. u \in queue /\ t \in queue
      BY <1>3, <1>6, <2>1 DEF QueueInv
    <3> QED BY <1>3, <1>6, <2>1, <3>1 DEF AheadInv
  <2>2. CASE v \in Elements(s) /\ u \in queue
    BY <1>3, <1>6, <2>2 DEF QueueInv
  <2>3. CASE v \in Elements(s) /\ u \in Elements(s)
    BY <1>1, <1>3, <1>4, <1>5, <1>6, <2>3
  <2> QED BY <1>3, <2>1, <2>2, <2>3
<1> QED BY <1>6 DEF AheadInv

LEMMA AheadStep == TypeOK /\ QueueInv /\ AheadInv /\ [Next]_vars => AheadInv'
<1> SUFFICES ASSUME TypeOK, QueueInv, AheadInv, [Next]_vars PROVE AheadInv'
  OBVIOUS
<1>1. ASSUME NEW s \in Batches, NEW r \in Targets, Submit(s, r) PROVE AheadInv'
  BY <1>1, SubmitKeepsAhead
<1>2. CASE UNCHANGED <<queue, ahead>>
  BY <1>2 DEF AheadInv
<1>3. ASSUME NEW t \in Tasks, Cancel(t) PROVE AheadInv'
  BY <1>2, <1>3, DequeueKeepsAhead DEF Cancel
<1>4. ASSUME NEW t \in Tasks, Restart(t) PROVE AheadInv'
  BY <1>4, RequeueKeepsAhead DEF Restart
<1>5. CASE Dispatch
  BY <1>5, DispatchPicks, DequeueKeepsAhead DEF DispatchWith
<1>6. ASSUME NEW f \in live, Finish(f) PROVE AheadInv'
  BY <1>2, <1>6, FinishRows, RequeueKeepsAhead
<1>7. CASE Shutdown
  BY <1>7, DequeueKeepsAhead DEF Shutdown
<1> QED BY <1>1, <1>2, <1>3, <1>4, <1>5, <1>6, <1>7
    DEF Next, AttemptStep, CheckAccount, Poll, RunBegin, StoreRunner, RunEnd, FinishRaises,
        LoginStart, LoginSaves, LoginExits, SessionLapses, WaitTooLong, SaveAccount, RemoveCheck,
        RemoveLogin, RemoveWait, RemoveTree, CloseExecutor, sched, vars

\* Whether or not the catalog breaks it off, the loop of the dispatcher has
\* come past everything that is in front of what it has come past.
LEMMA DispatchLooksInOrder ==
  ASSUME TypeOK, AheadInv, Dispatch
  PROVE  \E T \in SUBSET Kept : \E D \in SUBSET T : \E pick \in [D -> Free], broken \in SUBSET D :
           /\ \A t \in T, s \in Kept : s \in ahead[t] => s \in T
           /\ Loop(pick, T)
           /\ DispatchWith(pick, broken)
<1>1. CASE \E D \in SUBSET Kept : \E pick \in [D -> Free] :
             Loop(pick, Kept) /\ DispatchWith(pick, {})
  BY <1>1
<1>2. CASE \E b \in Kept :
             \E D \in SUBSET ({b} \cup (Kept \cap ahead[b])) : \E pick \in [D -> Free] :
               b \in D /\ Loop(pick, {b} \cup (Kept \cap ahead[b])) /\ DispatchWith(pick, {b})
  <2>1. PICK b \in Kept :
             \E D \in SUBSET ({b} \cup (Kept \cap ahead[b])) : \E pick \in [D -> Free] :
               b \in D /\ Loop(pick, {b} \cup (Kept \cap ahead[b])) /\ DispatchWith(pick, {b})
    BY <1>2
  <2> DEFINE T == {b} \cup (Kept \cap ahead[b])
  <2>2. PICK D \in SUBSET T : \E pick \in [D -> Free] :
           b \in D /\ Loop(pick, T) /\ DispatchWith(pick, {b})
    BY <2>1
  <2>3. PICK pick \in [D -> Free] : b \in D /\ Loop(pick, T) /\ DispatchWith(pick, {b})
    BY <2>2
  <2>4. \A t \in T, s \in Kept : s \in ahead[t] => s \in T
    BY DEF AheadInv, Kept
  <2>5. T \in SUBSET Kept /\ {b} \in SUBSET D
    BY <2>3
  <2> HIDE DEF T
  <2> QED BY <2>3, <2>4, <2>5
<1> QED BY <1>1, <1>2 DEF Dispatch

LEMMA OvertakingStep ==
  ASSUME TypeOK, QueueInv, AheadInv, [Next]_vars, NEW s \in queue, NEW t \in queue,
         s \in ahead[t], ~Pinned(s), ~Pinned(t), started'[t] > started[t]
  PROVE  s \notin queue' \/ task[s].status # "queued"
<1>1. started' # started
  BY DEF TypeOK
<1>2. Dispatch
  BY <1>1 DEF Next, AttemptStep, CheckAccount, Submit, Cancel, Restart, Poll, RunBegin,
        StoreRunner, RunEnd, Finish, FinishRaises, LoginStart, LoginSaves, LoginExits, SessionLapses,
        WaitTooLong, SaveAccount, RemoveCheck, RemoveLogin, RemoveWait, RemoveTree, Shutdown,
        CloseExecutor, vars
<1>3. PICK T \in SUBSET Kept :
        \E D \in SUBSET T : \E pick \in [D -> Free], broken \in SUBSET D :
           /\ \A u \in T, w \in Kept : w \in ahead[u] => w \in T
           /\ Loop(pick, T)
           /\ DispatchWith(pick, broken)
  BY <1>2, DispatchLooksInOrder
<1>4. PICK D \in SUBSET T :
        \E pick \in [D -> Free], broken \in SUBSET D :
           /\ \A u \in T, w \in Kept : w \in ahead[u] => w \in T
           /\ Loop(pick, T)
           /\ DispatchWith(pick, broken)
  BY <1>3
<1>5. PICK pick \in [D -> Free], broken \in SUBSET D :
           /\ \A u \in T, w \in Kept : w \in ahead[u] => w \in T
           /\ Loop(pick, T)
           /\ DispatchWith(pick, broken)
  BY <1>4
<1>6. t \in D
  <2>1. t \in Begun(pick, broken)
    <3>1. t \in Tasks /\ started[t] \in Nat
      BY DEF TypeOK
    <3>2. t \notin Begun(pick, broken) => started'[t] = started[t] + 0
      BY <1>5, <3>1 DEF DispatchWith
    <3> QED BY <3>1, <3>2
  <2> QED BY <2>1 DEF Begun
<1> SUFFICES ASSUME s \in queue', task[s].status = "queued" PROVE FALSE
  OBVIOUS
<1>7. s \in Kept /\ s \notin D
  BY <1>5 DEF DispatchWith, Dequeue, Kept
<1>8. s \in T
  BY <1>5, <1>6, <1>7
<1>9. pick[t] \in Free /\ pick[t] \in Accounts
  BY <1>6, KeptFree
<1>10. ~Fits(pick, s, pick[t])
  BY <1>5, <1>7, <1>8, <1>9 DEF Loop
<1>11. PICK d \in D \cap ahead[s] : pick[d] = pick[t]
  BY <1>9, <1>10 DEF Fits, FreeAt
<1>12. d \in ahead[t]
  BY <1>11 DEF AheadInv, QueueInv
<1>13. Fits(pick, t, pick[t])
  BY <1>5, <1>6 DEF Loop
<1> QED BY <1>11, <1>12, <1>13 DEF Fits, FreeAt

\* An "auto" task is never given an account while an "auto" task in front of it
\* in the queue stays behind.
THEOREM NobodyOvertakes == Spec => NoOvertaking
<1> DEFINE Fair ==
      \A s, t \in queue :
        /\ s \in ahead[t] /\ ~Pinned(s) /\ ~Pinned(t)
        /\ started'[t] > started[t]
        => s \notin queue' \/ task[s].status # "queued"
<1>1. Init => QueueInv /\ AheadInv
  BY DEF Init, QueueInv, QueueOrdered, AheadInv
<1>2. TypeOK /\ QueueInv /\ AheadInv /\ [Next]_vars => [Fair]_vars
  BY OvertakingStep
<1> HIDE DEF Fair
<1>3. Spec => [][Fair]_vars
  BY <1>1, <1>2, QueueStep, AheadStep, TypeCorrect, PTL DEF Spec
<1> QED BY <1>3 DEF NoOvertaking, Fair

-----------------------------------------------------------------------------
(* No wake-up is lost.                                                     *)

\* NoLostWakeup with what makes it inductive: it holds of every account the
\* last call saw ready that is not busy, also while a login uses it; a task
\* that comes in meanwhile is looked at by a call of its own.
WakeInv ==
  calls = 0 /\ "catalog" \notin Faults /\ shut = "open" =>
    \A a \in seen \ busy, t \in queue :
      task[t].status = "queued" => Pinned(t) /\ task[t].requested # a

\* A step that frees no account and queues no task loses no wake-up.
LEMMA WakeQuiet ==
  ASSUME WakeInv, UNCHANGED <<seen, shut, calls>>, busy \subseteq busy', queue' \subseteq queue,
         \A t \in queue' : task'[t].status = "queued" =>
           task[t].status = "queued" /\ task'[t].requested = task[t].requested
  PROVE  WakeInv'
BY DEF WakeInv, Pinned

LEMMA DispatchWakes ==
  ASSUME TypeOK, Dispatch, "catalog" \notin Faults, shut = "open"
  PROVE  \A a \in seen' \ busy', t \in queue' :
           task'[t].status = "queued" => Pinned(t)' /\ task'[t].requested # a
<1>1. PICK D \in SUBSET Kept : \E pick \in [D -> Free] :
             Loop(pick, Kept) /\ DispatchWith(pick, {})
  BY DEF Dispatch
<1>2. PICK pick \in [D -> Free] : Loop(pick, Kept) /\ DispatchWith(pick, {})
  BY <1>1
<1>3. Begun(pick, {}) = D /\ Refused(pick, {}) = {}
  BY DEF Begun, Refused
<1>4. /\ busy' = busy \cup {pick[t] : t \in D}
      /\ queue' = Kept \ D
  BY <1>2, <1>3 DEF DispatchWith, Dequeue, Kept
<1>5. seen' = Ready
  BY DEF Dispatch
<1> SUFFICES ASSUME NEW a \in seen' \ busy', NEW t \in queue'
             PROVE  task'[t].requested # AnyAccount /\ task'[t].requested # a
  BY DEF Pinned
<1>6. t \in Tasks /\ t \in Kept \ D /\ t \notin Expired
  BY <1>4 DEF Kept, TypeOK
<1>7. task'[t] = task[t]
  BY <1>2, <1>3, <1>6 DEF DispatchWith
<1>8. a \in FreeAt(pick, t) /\ a \in Accounts
  <2>1. a \in Free
    BY <1>4, <1>5 DEF Free
  <2>2. \A d \in D : pick[d] # a
    BY <1>4
  <2> QED BY <2>1, <2>2, KeptFree DEF FreeAt
<1>9. ~Fits(pick, t, a)
  BY <1>2, <1>6, <1>8 DEF Loop
<1> QED BY <1>7, <1>8, <1>9 DEF Fits, Pinned

LEMMA WakeStep == TypeOK /\ WakeInv /\ [Next]_vars => WakeInv'
<1> SUFFICES ASSUME TypeOK, WakeInv, [Next]_vars PROVE WakeInv'
  OBVIOUS
<1>1. ASSUME NEW s \in Batches, NEW r \in Targets, Submit(s, r) PROVE WakeInv'
  BY <1>1 DEF Submit, WakeInv, TypeOK
<1>2. ASSUME NEW c \in Tasks, Cancel(c) PROVE WakeInv'
  <2>1. task[c] \in TaskRecord
    BY DEF TypeOK
  <2>2. /\ [task[c] EXCEPT !.status = "cancelled"].status = "cancelled"
        /\ [task[c] EXCEPT !.status = "cancelled", !.cancel = TRUE].status = "cancelled"
    BY <2>1 DEF TaskRecord
  <2>3. task'[c].status = "cancelled" /\ \A t \in Tasks \ {c} : task'[t] = task[t]
    BY <1>2, <2>2 DEF Cancel, TypeOK
  <2>4. queue' \subseteq queue /\ queue \subseteq Tasks
    BY <1>2 DEF Cancel, Dequeue, TypeOK
  <2>5. UNCHANGED <<seen, shut, calls, busy>>
    BY <1>2 DEF Cancel
  <2>6. \A t \in queue' : task'[t].status = "queued" =>
           task[t].status = "queued" /\ task'[t].requested = task[t].requested
    BY <2>3, <2>4
  <2> QED BY <2>4, <2>5, <2>6, WakeQuiet
<1>3. ASSUME NEW c \in Tasks, Restart(c) PROVE WakeInv'
  BY <1>3 DEF Restart, WakeInv, TypeOK
<1>4. CASE Poll
  BY <1>4 DEF Poll, WakeInv
<1>5. CASE Dispatch
  BY <1>5, DispatchWakes DEF WakeInv, Dispatch
<1>6. ASSUME NEW f \in live, RunBegin(f) \/ \E outcome \in Outcomes(f) : RunEnd(f, outcome)
      PROVE  WakeInv'
  BY <1>6 DEF RunBegin, RunEnd, WakeInv, Pinned
<1>7. ASSUME NEW f \in live, StoreRunner(f) PROVE WakeInv'
  <2>1. f.task \in Tasks /\ task[f.task] \in TaskRecord
    BY DEF TypeOK, Attempt
  <2>2. /\ [task[f.task] EXCEPT !.runner = f.id].status = task[f.task].status
        /\ [task[f.task] EXCEPT !.runner = f.id].requested = task[f.task].requested
    BY <2>1 DEF TaskRecord
  <2>3. \A t \in Tasks : task'[t].status = task[t].status /\ task'[t].requested = task[t].requested
    BY <1>7, <2>1, <2>2 DEF StoreRunner, TypeOK
  <2>4. UNCHANGED <<seen, shut, calls, busy, queue>> /\ queue \subseteq Tasks
    BY <1>7 DEF StoreRunner, TypeOK
  <2> QED BY <2>3, <2>4, WakeQuiet
<1>8. ASSUME NEW f \in live, Finish(f) PROVE WakeInv'
  BY <1>8 DEF Finish, WakeInv, TypeOK
<1>9. ASSUME NEW c \in Tasks, WaitTooLong(c) PROVE WakeInv'
  <2>1. task[c] \in TaskRecord
    BY DEF TypeOK
  <2>2. /\ [task[c] EXCEPT !.late = TRUE].status = task[c].status
        /\ [task[c] EXCEPT !.late = TRUE].requested = task[c].requested
    BY <2>1 DEF TaskRecord
  <2>3. \A t \in Tasks : task'[t].status = task[t].status /\ task'[t].requested = task[t].requested
    BY <1>9, <2>2 DEF WaitTooLong, TypeOK
  <2>4. UNCHANGED <<seen, shut, calls, busy, queue>> /\ queue \subseteq Tasks
    BY <1>9 DEF WaitTooLong, TypeOK
  <2> QED BY <2>3, <2>4, WakeQuiet
<1>10. ASSUME NEW a \in Accounts, SaveAccount(a) \/ RemoveTree(a) PROVE WakeInv'
  BY <1>10 DEF SaveAccount, RemoveTree, WakeInv, TypeOK
<1>11. CASE Shutdown \/ CloseExecutor
  BY <1>11 DEF Shutdown, CloseExecutor, WakeInv
<1>12. CASE UNCHANGED <<task, queue, busy, seen, shut, calls>>
  BY <1>12 DEF WakeInv, Pinned
<1> QED BY <1>1, <1>2, <1>3, <1>4, <1>5, <1>6, <1>7, <1>8, <1>9, <1>10, <1>11, <1>12
    DEF Next, AttemptStep, FinishRaises, CheckAccount, LoginStart, LoginSaves, LoginExits,
        SessionLapses, RemoveCheck, RemoveLogin, RemoveWait, sched, vars

\* Every change that could let a task start is followed by a dispatcher call,
\* and a call leaves no account free that a waiting task could use.
THEOREM NoWakeupIsLost == Spec => []NoLostWakeup
<1>1. Init => WakeInv
  BY DEF Init, WakeInv
<1>2. WakeInv => NoLostWakeup
  BY DEF WakeInv, NoLostWakeup, Free
<1> QED BY <1>1, <1>2, WakeStep, TypeCorrect, PTL DEF Spec
-----------------------------------------------------------------------------
(* Rows go forward.                                                        *)

\* How far the present attempt of a task has come.
Stage(status) ==
  CASE status = "absent" -> 0 [] status = "queued" -> 1 [] status = "running" -> 2 [] OTHER -> 3

\* A row goes on to the next restart, within it to the next retry, or within that to
\* the next stage; and it does not disappear.
Onward(row, new) ==
  /\ new.status # "absent"
  /\ \/ row.restarts < new.restarts
     \/ row.restarts = new.restarts /\ row.retry < new.retry
     \/ /\ row.restarts = new.restarts /\ row.retry = new.retry
        /\ Stage(row.status) < Stage(new.status)

Unmoved(row, new) ==
  new.restarts = row.restarts /\ new.retry = row.retry /\ new.status = row.status

\* The one way in which a row moves without going on: an attempt that was left behind
\* by a cancellation, and a restart, ends, and writes its own end over another.
Overwritten(t) ==
  /\ task[t].status \in Terminal /\ task'[t].status \in Terminal
  /\ task'[t].restarts = task[t].restarts /\ task'[t].retry = task[t].retry
  /\ \E f \in live : f.task = t /\ f.pc = "returned" /\ live' = live \ {f}

Advances(t) == Unmoved(task[t], task'[t]) \/ Onward(task[t], task'[t]) \/ Overwritten(t)

Forward == \A t \in Tasks : Advances(t)

\* Ids that have no row have been neither restarted nor retried.
BlankInv ==
  \A t \in Tasks : task[t].status = "absent" => task[t].restarts = 0 /\ task[t].retry = 0

\* The same restart and retry, and a later stage, or the same.
LEMMA SetStatus ==
  ASSUME TypeOK, NEW t \in Tasks, task'[t].status \in Statuses \ {"absent"},
         task'[t].restarts = task[t].restarts, task'[t].retry = task[t].retry,
         \/ task'[t].status = task[t].status
         \/ Stage(task[t].status) < Stage(task'[t].status)
  PROVE  Advances(t)
BY DEF Advances, Unmoved, Onward

\* What _finish_task makes of the row.
LEMMA FinishAdvances ==
  ASSUME TypeOK, NEW f \in live, Finish(f), NEW t \in Tasks
  PROVE  Advances(t)
<1>1. f.task \in Tasks /\ task[t] \in TaskRecord /\ f.pc = "returned" /\ live' = live \ {f}
  BY DEF TypeOK, Attempt, Finish
<1>2. CASE t # f.task
  BY <1>2, FinishRows DEF Advances, Unmoved
<1>3. CASE t = f.task /\ Retries(f)
  <2>1. task'[t] = RetryRow(task[t], f.result)
    BY <1>1, <1>3 DEF Finish, BookRetry, TypeOK
  <2>2. /\ task'[t].status = "queued" /\ task'[t].restarts = task[t].restarts
        /\ task'[t].retry = task[t].retry + 1
    BY <1>1, <2>1 DEF RetryRow, TaskRecord
  <2>3. task[t].retry \in Nat
    BY <1>1, SchedulerAssumption DEF TaskRecord
  <2> QED
    BY <2>2, <2>3 DEF Advances, Onward
<1>4. CASE t = f.task /\ ~Retries(f)
  <2>1. task'[t] = ResultRow(task[t], f.result)
    BY <1>1, <1>4 DEF Finish, BookResult, TypeOK
  <2>2. /\ task'[t].status \in Terminal /\ task'[t].restarts = task[t].restarts
        /\ task'[t].retry = task[t].retry
    BY <1>1, <2>1 DEF ResultRow, TaskRecord, Terminal
  <2>3. CASE task[t].status \in Terminal
    BY <1>1, <1>4, <2>2, <2>3 DEF Advances, Overwritten
  <2>4. CASE task[t].status \notin Terminal
    <3>1. Stage(task[t].status) < Stage(task'[t].status)
      BY <1>1, <2>2, <2>4 DEF Stage, Terminal, TaskRecord, Statuses
    <3> QED
      BY <2>2, <3>1, SetStatus DEF Terminal, Statuses
  <2> QED
    BY <2>3, <2>4
<1> QED
  BY <1>2, <1>3, <1>4

\* What one call of the dispatcher makes of the row: it only takes up queued tasks.
LEMMA PicksAdvance ==
  ASSUME TypeOK, NEW D \in SUBSET Kept, NEW pick \in [D -> Accounts],
         NEW broken \in SUBSET D, DispatchWith(pick, broken), NEW t \in Tasks
  PROVE  Advances(t)
<1>1. task[t] \in TaskRecord
  BY DEF TypeOK
<1>2. /\ Begun(pick, broken) \cap (Expired \cup Refused(pick, broken)) = {}
      /\ Begun(pick, broken) \cup Refused(pick, broken) \subseteq Kept
  BY DEF Begun, Refused, Kept
<1>3. ASSUME task[t].status = "queued", NEW status \in {"failed", "running"},
             task'[t].status = status, task'[t].restarts = task[t].restarts,
             task'[t].retry = task[t].retry
      PROVE  Advances(t)
  BY <1>3, SetStatus DEF Stage, Statuses, Terminal
<1>4. CASE t \in Expired \cup Refused(pick, broken)
  <2>1. task'[t] = [task[t] EXCEPT !.status = "failed"]
    BY <1>2, <1>4 DEF DispatchWith
  <2>2. task[t].status = "queued"
    BY <1>2, <1>4 DEF Expired, Kept, Stale
  <2> QED
    BY <1>1, <1>3, <2>1, <2>2 DEF TaskRecord
<1>5. CASE t \in Begun(pick, broken)
  <2>1. task'[t] = [task[t] EXCEPT !.status = "running", !.account = pick[t]]
    BY <1>2, <1>5 DEF DispatchWith
  <2>2. task[t].status = "queued"
    BY <1>2, <1>5 DEF Kept, Stale
  <2> QED
    BY <1>1, <1>3, <2>1, <2>2 DEF TaskRecord
<1>6. CASE t \notin Begun(pick, broken) \cup Expired \cup Refused(pick, broken)
  <2>1. task'[t] = task[t]
    BY <1>6 DEF DispatchWith
  <2> QED
    BY <2>1 DEF Advances, Unmoved
<1> QED
  BY <1>4, <1>5, <1>6

LEMMA DispatchAdvances ==
  ASSUME TypeOK, Dispatch, NEW t \in Tasks
  PROVE  Advances(t)
<1>1. PICK D \in SUBSET Kept : \E pick \in [D -> Free], broken \in SUBSET D :
        DispatchWith(pick, broken)
  BY DispatchPicks
<1>2. PICK pick \in [D -> Free], broken \in SUBSET D : DispatchWith(pick, broken)
  BY <1>1
<1>3. pick \in [D -> Accounts]
  BY KeptFree
<1> QED
  BY <1>2, <1>3, PicksAdvance

LEMMA ForwardStep == TypeOK /\ BlankInv /\ [Next]_vars => BlankInv' /\ Forward
<1> SUFFICES ASSUME TypeOK, BlankInv, [Next]_vars, NEW t \in Tasks
             PROVE  /\ Advances(t)
                    /\ task'[t].status = "absent" => task'[t].restarts = 0 /\ task'[t].retry = 0
  BY DEF BlankInv, Forward
<1>1. /\ task[t] \in TaskRecord
      /\ task[t].status \in Statuses /\ task[t].restarts \in Nat /\ task[t].retry \in Nat
  BY SchedulerAssumption DEF TypeOK, TaskRecord
<1> DEFINE row == task[t]
<1>2. ASSUME task'[t] = row PROVE Advances(t)
  BY <1>2 DEF Advances, Unmoved
<1>3. ASSUME NEW s \in Batches, NEW r \in Targets, Submit(s, r) PROVE Advances(t)
  <2>1. task'[t] = IF t \in Elements(s) THEN NewTask(r, 0) ELSE row
    BY <1>3 DEF Submit
  <2>2. t \in Elements(s) => row.status = "absent"
    BY DEF Batches, Elements
  <2>3. NewTask(r, 0).status = "queued" /\ NewTask(r, 0).restarts = 0 /\ NewTask(r, 0).retry = 0
    BY DEF NewTask
  <2>4. CASE t \in Elements(s)
    <3>1. row.restarts = 0 /\ row.retry = 0
      BY <2>2, <2>4 DEF BlankInv
    <3> QED
      BY <2>1, <2>2, <2>3, <2>4, <3>1, SetStatus DEF Stage, Statuses
  <2> QED
    BY <1>2, <2>1, <2>4
<1>4. ASSUME NEW c \in Tasks, Cancel(c) PROVE Advances(t)
  <2>1. CASE t = c
    <3>1. /\ row.status \in {"queued", "running"}
          /\ \/ task'[t] = [row EXCEPT !.status = "cancelled"]
             \/ task'[t] = [row EXCEPT !.status = "cancelled", !.cancel = TRUE]
      BY <1>4, <2>1 DEF Cancel, TypeOK
    <3>2. /\ task'[t].status = "cancelled" /\ task'[t].restarts = row.restarts
          /\ task'[t].retry = row.retry
      BY <1>1, <3>1 DEF TaskRecord
    <3> QED
      BY <3>1, <3>2, SetStatus DEF Stage, Statuses, Terminal
  <2>2. CASE t # c
    BY <1>2, <1>4, <2>2 DEF Cancel, TypeOK
  <2> QED
    BY <2>1, <2>2
<1>5. ASSUME NEW c \in Tasks, Restart(c) PROVE Advances(t)
  <2>1. CASE t = c
    <3>1. task'[t] = NewTask(row.requested, row.restarts + 1)
      BY <1>5, <2>1 DEF Restart, TypeOK
    <3>2. task'[t].status = "queued" /\ task'[t].restarts = row.restarts + 1
      BY <3>1 DEF NewTask
    <3> QED
      BY <1>1, <3>2 DEF Advances, Onward
  <2>2. CASE t # c
    BY <1>2, <1>5, <2>2 DEF Restart, TypeOK
  <2> QED
    BY <2>1, <2>2
<1>6. ASSUME Dispatch PROVE Advances(t)
  BY <1>6, DispatchAdvances
<1>7. ASSUME NEW f \in live, AttemptStep(f) PROVE Advances(t)
  <2>1. CASE Finish(f)
    BY <2>1, FinishAdvances
  <2>2. CASE StoreRunner(f)
    <3>1. task'[t] = row \/ task'[t] = [row EXCEPT !.runner = f.id]
      BY <2>2 DEF StoreRunner, TypeOK
    <3> QED
      BY <1>1, <3>1 DEF Advances, Unmoved, TaskRecord
  <2>3. CASE RunBegin(f) \/ (\E outcome \in Outcomes(f) : RunEnd(f, outcome)) \/ FinishRaises(f)
    BY <1>2, <2>3 DEF RunBegin, RunEnd, FinishRaises
  <2> QED
    BY <1>7, <2>1, <2>2, <2>3 DEF AttemptStep
<1>8. ASSUME NEW c \in Tasks, WaitTooLong(c) PROVE Advances(t)
  <2>1. task'[t] = row \/ task'[t] = [row EXCEPT !.late = TRUE]
    BY <1>8 DEF WaitTooLong, TypeOK
  <2> QED
    BY <1>1, <2>1 DEF Advances, Unmoved, TaskRecord
<1>9. ASSUME Shutdown PROVE Advances(t)
  <2>1. \/ task'[t] = row
        \/ /\ row.status \in {"queued", "running"}
           /\ task'[t] \in {[row EXCEPT !.status = "cancelled"],
                            [row EXCEPT !.status = "cancelled", !.cancel = TRUE]}
    BY <1>9 DEF Shutdown
  <2>2. CASE task'[t] # row
    <3>1. /\ task'[t].status = "cancelled" /\ task'[t].restarts = row.restarts
          /\ task'[t].retry = row.retry
      BY <1>1, <2>1, <2>2 DEF TaskRecord
    <3> QED
      BY <2>1, <2>2, <3>1, SetStatus DEF Stage, Statuses, Terminal
  <2> QED
    BY <1>2, <2>2
<1>10. ASSUME UNCHANGED task PROVE Advances(t)
  BY <1>2, <1>10
<1>11. Advances(t)
  BY <1>3, <1>4, <1>5, <1>6, <1>7, <1>8, <1>9, <1>10
    DEF Next, CheckAccount, Poll, LoginStart, LoginSaves, LoginExits,
        SessionLapses, SaveAccount, RemoveCheck, RemoveLogin, RemoveWait, RemoveTree,
        CloseExecutor, sched, vars
<1>12. task'[t].status = "absent" => Unmoved(row, task'[t])
  BY <1>11 DEF Advances, Onward, Overwritten, Terminal
<1> QED
  BY <1>11, <1>12 DEF BlankInv, Unmoved

\* No task goes back without its being counted: the row of a task, over all handlers,
\* the dispatcher and the attempts, only ever goes on to a later stage (queued, running,
\* over), or begins again with one more retry or one more restart on its count; retries
\* are at most MaxRequeues by its type, so between two restarts it changes its stage a
\* bounded number of times, which is what lets a task settle.  An attempt left behind may
\* replace one end by another, once, since it is gone then (_finish_task,
\* server.py:1424).
THEOREM RowsGoForward == Spec => [][Forward]_vars
<1>1. Init => BlankInv
  BY DEF Init, BlankInv, NoTask, NewTask
<1>2. TypeOK /\ BlankInv /\ [Next]_vars => BlankInv' /\ [Forward]_vars
  BY ForwardStep
<1> QED
  BY <1>1, <1>2, TypeCorrect, PTL DEF Spec
=============================================================================
