----------------------------- MODULE AccountSlots -----------------------------
(***************************************************************************)
(* What _dispatch_tasks and _finish_task of client/server.py promise about *)
(* the RunningHub accounts ("one active task per account"), without the    *)
(* queue, the rows, retries, cancellation or threads: an account is a slot *)
(* that is handed out to a numbered attempt of a task and comes back when  *)
(* that attempt ends.  How long an attempt lasts is not promised, only     *)
(* that the slot comes back once the attempt is due.  TaskScheduler        *)
(* implements this specification.                                          *)
(***************************************************************************)
EXTENDS Naturals

CONSTANTS
  Tasks,      \* the task ids
  Accounts    \* the slots

VARIABLES
  held,       \* the attempts an account is handed out to, as <<task, number>>
  due,        \* those of them that must give it back: cancelled, or at their end
  issued,     \* how many attempts each task has been given
  open        \* the application has not been closed

slots == <<held, due, issued, open>>

\* A call of the dispatcher hands out slots to a set of tasks: each gets an
\* attempt nobody had before, on a slot of its own.  While the application is
\* open the slot is an empty one.
Grant(given) ==
  /\ DOMAIN given # {}
  /\ \A s, t \in DOMAIN given : given[s] = given[t] => s = t
  /\ open => \A t \in DOMAIN given : held[given[t]] = {}
  /\ issued' = [t \in Tasks |-> issued[t] + (IF t \in DOMAIN given THEN 1 ELSE 0)]
  /\ held' = [a \in Accounts |->
                held[a] \cup {<<t, issued[t] + 1>> : t \in {s \in DOMAIN given : given[s] = a}}]
  /\ UNCHANGED <<due, open>>

\* Attempts that hold a slot become due; none is let off again.
MoreDue ==
  \A a \in Accounts : due[a] \subseteq due'[a] /\ due'[a] \subseteq held[a]

\* Attempts are cancelled, or come to their end.
Call ==
  /\ MoreDue
  /\ UNCHANGED <<held, issued, open>>

\* An attempt that is due gives its slot back, once.
Return(a, attempt) ==
  /\ attempt \in due[a]
  /\ held' = [held EXCEPT ![a] = held[a] \ {attempt}]
  /\ due' = [due EXCEPT ![a] = due[a] \ {attempt}]
  /\ UNCHANGED <<issued, open>>

\* Closing the application cancels what it can reach.
Close ==
  /\ open
  /\ open' = FALSE
  /\ MoreDue
  /\ UNCHANGED <<held, issued>>

Init ==
  /\ held = [a \in Accounts |-> {}]
  /\ due = [a \in Accounts |-> {}]
  /\ issued = [t \in Tasks |-> 0]
  /\ open = TRUE

Next ==
  \/ \E T \in SUBSET Tasks : \E given \in [T -> Accounts] : Grant(given)
  \/ \E a \in Accounts : \E attempt \in due[a] : Return(a, attempt)
  \/ Call
  \/ Close

Spec == Init /\ [][Next]_slots

\* An attempt that is due does not keep its slot for ever.
FairSpec ==
  /\ Spec
  /\ \A a \in Accounts : WF_slots(\E attempt \in due[a] : Return(a, attempt))
=============================================================================
