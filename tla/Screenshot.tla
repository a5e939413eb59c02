----------------------------- MODULE Screenshot -----------------------------
(***************************************************************************)
(* The screenshot handshake of one attempt: GET /api/screenshot in the     *)
(* request threads (client/server.py) and the thread that owns the browser *)
(* (client/runninghub_client/browser.py) talk through two threading.Events *)
(* and two fields of the runner, with cancellation, the end of the browser *)
(* and _finish_task also setting them.  Only admission and the row are     *)
(* under _tasks_lock: every other step is one access to the shared fields. *)
(*                                                                         *)
(* A picture is named by the number of the take that made it.              *)
(***************************************************************************)
EXTENDS Naturals, FiniteSets

CONSTANTS
  Handlers,     \* the request threads
  MaxRequests   \* bound: screenshot requests that are admitted

ASSUME ScreenshotAssumption == MaxRequests \in Nat

VARIABLES
  pc,          \* per request thread: how far _handle_screenshot has got
  inProgress,  \* runner._screenshot_in_progress
  requested,   \* runner.screenshot_requested
  ready,       \* runner.screenshot_ready
  data,        \* runner.screenshot_data: the number of a take, 0 for None
  error,       \* runner.screenshot_error is set
  row,         \* the task's row: "running", "cancelled" or "ended"
  worker,      \* the browser thread
  cancel,      \* how far request_cancel has got
  takes,       \* how many pictures the worker has begun to take
  admitted,    \* how many requests have been admitted
  floor,       \* history: the first take a request may be answered with
  got,         \* history: the picture a request was answered with
  tardy        \* history: the request was signalled after _finish_task had looked

shared  == <<inProgress, requested, ready, data, error>>
browser == <<worker, takes>>
request == <<pc, admitted, floor, got, tardy>>
vars == <<pc, inProgress, requested, ready, data, error, row, worker, cancel,
          takes, admitted, floor, got, tardy>>

\* The worker is between the beginning of a take and the end of its hand-over.
Handing == {"taking", "taken", "failed", "stored", "handing"}

Goes(h, next) == pc' = [pc EXCEPT ![h] = next]

-----------------------------------------------------------------------------
(* _handle_screenshot.                                                     *)

\* Under _tasks_lock: a running row with a runner that no other request uses.  A
\* picture the worker is still taking or handing over, for a request that gave
\* up, will do for this one; an older picture will not.
Admit(h) ==
  /\ pc[h] = "idle"
  /\ row = "running"
  /\ ~inProgress
  /\ admitted < MaxRequests
  /\ inProgress' = TRUE
  /\ admitted' = admitted + 1
  /\ got' = [got EXCEPT ![h] = 0]
  /\ floor' = [floor EXCEPT ![h] = IF worker \in Handing THEN takes ELSE takes + 1]
  /\ Goes(h, "admitted")
  /\ UNCHANGED <<requested, ready, data, error, row, browser, cancel, tardy>>

\* Wrong on purpose: the event of the previous request is left standing.
ClearReady_Skipped(h) ==
  /\ pc[h] = "admitted"
  /\ Goes(h, "cleared")
  /\ UNCHANGED <<shared, row, browser, cancel, admitted, floor, got, tardy>>

ClearReady(h) ==
  /\ pc[h] = "admitted"
  /\ ready' = FALSE
  /\ Goes(h, "cleared")
  /\ UNCHANGED <<inProgress, requested, data, error, row, browser, cancel,
                 admitted, floor, got, tardy>>

SetRequested(h) ==
  /\ pc[h] = "cleared"
  /\ requested' = TRUE
  /\ tardy' = [tardy EXCEPT ![h] = worker \in {"told", "gone"}]
  /\ Goes(h, "waiting")
  /\ UNCHANGED <<inProgress, ready, data, error, row, browser, cancel, admitted, floor, got>>

\* The answer has been sent; the finally clause ends the request.
Answer(h, picture) ==
  /\ got' = [got EXCEPT ![h] = picture]
  /\ inProgress' = FALSE
  /\ Goes(h, "idle")

\* Five seconds pass without an answer: 408.
TimeOut(h) ==
  /\ pc[h] = "waiting" /\ ~ready
  /\ Answer(h, 0)
  /\ UNCHANGED <<requested, ready, data, error, row, browser, cancel, admitted, floor, tardy>>

\* wait() returns; an error is answered with 500.
Wake(h) ==
  /\ pc[h] = "waiting" /\ ready
  /\ IF error
     THEN Answer(h, 0)
     ELSE Goes(h, "reading") /\ UNCHANGED <<got, inProgress>>
  /\ UNCHANGED <<requested, ready, data, error, row, browser, cancel, admitted, floor, tardy>>

\* The data is read after the error; None is answered with 500 as well.
ReadData(h) ==
  /\ pc[h] = "reading"
  /\ Answer(h, data)
  /\ UNCHANGED <<requested, ready, data, error, row, browser, cancel, admitted, floor, tardy>>

-----------------------------------------------------------------------------
(* The browser thread.                                                     *)

\* The waiting loop sees the request and begins take_screenshot().
Take ==
  /\ worker = "polling" /\ requested
  /\ takes' = takes + 1
  /\ worker' = "taking"
  /\ UNCHANGED <<request, shared, row, cancel>>

\* The picture, or None for an exception, is stored first
StoreData ==
  /\ worker = "taking"
  /\ \/ data' = takes /\ worker' = "taken"
     \/ data' = 0 /\ worker' = "failed"
  /\ UNCHANGED <<request, inProgress, requested, ready, error, row, takes, cancel>>

\* and then the error that belongs to it.
StoreError ==
  /\ worker \in {"taken", "failed"}
  /\ error' = (worker = "failed")
  /\ worker' = "stored"
  /\ UNCHANGED <<request, inProgress, requested, ready, data, row, takes, cancel>>

\* Wrong on purpose: the request is woken before its flag is taken back.
HandOver_WakesFirst ==
  /\ \/ /\ worker = "stored"
        /\ ready' = TRUE
        /\ worker' = "handing"
        /\ UNCHANGED requested
     \/ /\ worker = "handing"
        /\ requested' = FALSE
        /\ worker' = "polling"
        /\ UNCHANGED ready
  /\ UNCHANGED <<request, inProgress, data, error, row, takes, cancel>>

\* finally: requested.clear() and then ready.set().
HandOver ==
  /\ \/ /\ worker = "stored"
        /\ requested' = FALSE
        /\ worker' = "handing"
        /\ UNCHANGED ready
     \/ /\ worker = "handing"
        /\ ready' = TRUE
        /\ worker' = "polling"
        /\ UNCHANGED requested
  /\ UNCHANGED <<request, inProgress, data, error, row, takes, cancel>>

\* The run ends, by itself or because it was cancelled: stop() looks whether
\* somebody may be waiting,
StopLooks ==
  /\ worker = "polling"
  /\ IF ready THEN error' = error /\ worker' = "stopped"
              ELSE error' = TRUE  /\ worker' = "stopping"
  /\ UNCHANGED <<request, inProgress, requested, ready, data, row, takes, cancel>>

\* and wakes him.
StopWakes ==
  /\ worker = "stopping"
  /\ ready' = TRUE
  /\ worker' = "stopped"
  /\ UNCHANGED <<request, inProgress, requested, data, error, row, takes, cancel>>

\* _finish_task, under _tasks_lock: the runner leaves the row, and a request
\* that has been signalled is told, in two steps,
FinishLooks ==
  /\ worker = "stopped"
  /\ row' = "ended"
  /\ IF requested THEN error' = TRUE  /\ worker' = "told"
                  ELSE error' = error /\ worker' = "gone"
  /\ UNCHANGED <<request, inProgress, requested, ready, data, takes, cancel>>

FinishWakes ==
  /\ worker = "told"
  /\ ready' = TRUE
  /\ worker' = "gone"
  /\ UNCHANGED <<request, inProgress, requested, data, error, row, takes, cancel>>

-----------------------------------------------------------------------------
(* request_cancel, in the thread of POST /api/tasks/cancel.                *)

\* The row is cancelled under the lock, then the runner is told.
CancelRow ==
  /\ row = "running" /\ cancel = "no"
  /\ row' = "cancelled"
  /\ cancel' = "flagged"
  /\ UNCHANGED <<request, shared, browser>>

CancelLooks ==
  /\ cancel = "flagged"
  /\ IF ready THEN error' = error /\ cancel' = "done"
              ELSE error' = TRUE  /\ cancel' = "telling"
  /\ UNCHANGED <<request, inProgress, requested, ready, data, row, browser>>

CancelWakes ==
  /\ cancel = "telling"
  /\ ready' = TRUE
  /\ cancel' = "done"
  /\ UNCHANGED <<request, inProgress, requested, data, error, row, browser>>

-----------------------------------------------------------------------------
Init ==
  /\ pc = [h \in Handlers |-> "idle"]
  /\ inProgress = FALSE
  /\ requested = FALSE
  /\ ready = FALSE
  /\ data = 0
  /\ error = FALSE
  /\ row = "running"
  /\ worker = "polling"
  /\ cancel = "no"
  /\ takes = 0
  /\ admitted = 0
  /\ floor = [h \in Handlers |-> 0]
  /\ got = [h \in Handlers |-> 0]
  /\ tardy = [h \in Handlers |-> FALSE]

HandlerStep(h) ==
  \/ Admit(h) \/ ClearReady(h) \/ SetRequested(h)
  \/ TimeOut(h) \/ Wake(h) \/ ReadData(h)

WorkerStep ==
  \/ Take \/ StoreData \/ StoreError \/ HandOver
  \/ StopLooks \/ StopWakes \/ FinishLooks \/ FinishWakes

CancelStep == CancelRow \/ CancelLooks \/ CancelWakes

Next == (\E h \in Handlers : HandlerStep(h)) \/ WorkerStep \/ CancelStep

Spec == Init /\ [][Next]_vars

-----------------------------------------------------------------------------
(* What the handshake promises.                                            *)

\* Types, and the guard against concurrent requests: _screenshot_in_progress is
\* up exactly while one request is between its admission and its answer.
TypeOK ==
  /\ pc \in [Handlers -> {"idle", "admitted", "cleared", "waiting", "reading"}]
  /\ Cardinality({h \in Handlers : pc[h] # "idle"}) = IF inProgress THEN 1 ELSE 0
  /\ requested \in BOOLEAN /\ ready \in BOOLEAN /\ error \in BOOLEAN
  /\ data \in 0..takes /\ takes \in Nat
  /\ row \in {"running", "cancelled", "ended"}
  /\ worker \in {"polling", "taking", "taken", "failed", "stored", "handing",
                 "stopping", "stopped", "told", "gone"}
  /\ cancel \in {"no", "flagged", "telling", "done"}
  /\ admitted \in 0..MaxRequests
  /\ floor \in [Handlers -> Nat] /\ got \in [Handlers -> Nat]
  /\ tardy \in [Handlers -> BOOLEAN]

\* Nobody is shown an old picture: whatever timed out, was cancelled or ended
\* before, the picture in an answer is of a take that began after the request
\* came, or that was not yet handed over when it came.
FreshShot ==
  \A h \in Handlers : got[h] # 0 => got[h] >= floor[h]

\* Nobody waits his five seconds in vain: while a request waits, its flag is up
\* and the worker is still to look at it, or the worker is about to wake it with
\* a take.  The end of the attempt wakes it as well, also when the request has
\* cleared the event that stop() or a cancellation had set for it; only one that
\* is signalled after _finish_task looked is left to its timeout.
NobodyWaitsInVain ==
  \A h \in Handlers : pc[h] = "waiting" /\ ~ready /\ ~tardy[h] =>
    worker # "gone" /\ (requested \/ worker = "handing")
=============================================================================
