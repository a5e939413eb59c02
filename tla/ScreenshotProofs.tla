--------------------------- MODULE ScreenshotProofs ---------------------------
(***************************************************************************)
(* Proofs about the screenshot handshake, for every set of request threads *)
(* and any number of requests.                                             *)
(***************************************************************************)
EXTENDS Screenshot, FiniteSetTheorems, TLAPS

-----------------------------------------------------------------------------
(* Types and the guard against concurrent requests.                        *)

\* TypeOK without counting: the flag is up iff one request is on its way, and
\* then it is the only one.
TypeInv ==
  /\ pc \in [Handlers -> {"idle", "admitted", "cleared", "waiting", "reading"}]
  /\ inProgress \in BOOLEAN
  /\ inProgress => \E h \in Handlers : pc[h] # "idle"
  /\ \A h \in Handlers : pc[h] # "idle" => inProgress
  /\ \A h, k \in Handlers : pc[h] # "idle" /\ pc[k] # "idle" => h = k
  /\ requested \in BOOLEAN /\ ready \in BOOLEAN /\ error \in BOOLEAN
  /\ data \in Nat /\ takes \in Nat /\ data <= takes
  /\ row \in {"running", "cancelled", "ended"}
  /\ worker \in {"polling", "taking", "taken", "failed", "stored", "handing",
                 "stopping", "stopped", "told", "gone"}
  /\ cancel \in {"no", "flagged", "telling", "done"}
  /\ admitted \in Nat /\ admitted <= MaxRequests
  /\ floor \in [Handlers -> Nat] /\ got \in [Handlers -> Nat]
  /\ tardy \in [Handlers -> BOOLEAN]

LEMMA HandlerType == ASSUME TypeInv, NEW h \in Handlers, HandlerStep(h) PROVE TypeInv'
<1> USE ScreenshotAssumption
<1>1. CASE Admit(h)
  BY <1>1 DEF Admit, Goes, TypeInv, browser
<1>2. CASE ClearReady(h)
  BY <1>2 DEF ClearReady, Goes, TypeInv, browser
<1>3. CASE SetRequested(h)
  BY <1>3 DEF SetRequested, Goes, TypeInv, browser
<1>4. CASE TimeOut(h)
  BY <1>4 DEF TimeOut, Answer, Goes, TypeInv, browser
<1>5. CASE Wake(h)
  <2>1. CASE error
    <3>1. /\ Answer(h, 0) /\ pc[h] = "waiting"
          /\ UNCHANGED <<requested, ready, data, error, row, browser, cancel, admitted, floor, tardy>>
      BY <1>5, <2>1 DEF Wake
    <3> QED BY <3>1 DEF Answer, Goes, TypeInv, browser
  <2>2. CASE ~error
    BY <1>5, <2>2 DEF Wake, Answer, Goes, TypeInv, browser
  <2> QED BY <2>1, <2>2
<1>6. CASE ReadData(h)
  BY <1>6 DEF ReadData, Answer, Goes, TypeInv, browser
<1> QED BY <1>1, <1>2, <1>3, <1>4, <1>5, <1>6 DEF HandlerStep

LEMMA TypeStep == TypeInv /\ [Next]_vars => TypeInv'
<1> SUFFICES ASSUME TypeInv, [Next]_vars PROVE TypeInv'
  OBVIOUS
<1>1. ASSUME NEW h \in Handlers, HandlerStep(h) PROVE TypeInv'
  BY <1>1, HandlerType
<1>2. CASE Take
  BY <1>2 DEF Take, TypeInv, request, shared, browser
<1>3. CASE StoreData
  BY <1>3 DEF StoreData, TypeInv, request, shared, browser
<1>4. CASE StoreError
  BY <1>4 DEF StoreError, TypeInv, request, shared, browser
<1>5. CASE HandOver
  BY <1>5 DEF HandOver, TypeInv, request, shared, browser
<1>6. CASE StopLooks
  BY <1>6 DEF StopLooks, TypeInv, request, shared, browser
<1>7. CASE StopWakes
  BY <1>7 DEF StopWakes, TypeInv, request, shared, browser
<1>8. CASE FinishLooks
  BY <1>8 DEF FinishLooks, TypeInv, request, shared, browser
<1>9. CASE FinishWakes
  BY <1>9 DEF FinishWakes, TypeInv, request, shared, browser
<1>10. CASE CancelRow
  BY <1>10 DEF CancelRow, TypeInv, request, shared, browser
<1>11. CASE CancelLooks
  BY <1>11 DEF CancelLooks, TypeInv, request, shared, browser
<1>12. CASE CancelWakes
  BY <1>12 DEF CancelWakes, TypeInv, request, shared, browser
<1>13. CASE UNCHANGED vars
  BY <1>13 DEF vars, TypeInv
<1> QED BY <1>1, <1>2, <1>3, <1>4, <1>5, <1>6, <1>7, <1>8, <1>9, <1>10, <1>11, <1>12, <1>13
    DEF Next, WorkerStep, CancelStep

LEMMA TypeInvariant == Spec => []TypeInv
<1>1. Init => TypeInv
  <2> SUFFICES ASSUME Init PROVE TypeInv
    OBVIOUS
  <2>1. /\ pc \in [Handlers -> {"idle", "admitted", "cleared", "waiting", "reading"}]
        /\ \A h \in Handlers : pc[h] = "idle"
    BY DEF Init
  <2>2. floor \in [Handlers -> Nat] /\ got \in [Handlers -> Nat] /\ tardy \in [Handlers -> BOOLEAN]
    BY DEF Init
  <2>3. /\ inProgress = FALSE /\ requested \in BOOLEAN /\ ready \in BOOLEAN /\ error \in BOOLEAN
        /\ data = 0 /\ takes = 0 /\ admitted = 0
        /\ row = "running" /\ worker = "polling" /\ cancel = "no"
    BY DEF Init
  <2>4. admitted <= MaxRequests /\ data <= takes
    BY <2>3, ScreenshotAssumption
  <2> QED BY <2>1, <2>2, <2>3, <2>4 DEF TypeInv
<1> QED BY <1>1, TypeStep, PTL DEF Spec

\* Every variable keeps its type, and _screenshot_in_progress is up exactly
\* while one request is between its admission and its answer.
THEOREM TypeCorrect == Spec => []TypeOK
<1>1. TypeInv => TypeOK
  <2> SUFFICES ASSUME TypeInv PROVE TypeOK
    OBVIOUS
  <2> DEFINE open == {h \in Handlers : pc[h] # "idle"}
  <2>1. CASE ~inProgress
    <3>1. open = {}
      BY <2>1 DEF TypeInv
    <3>2. Cardinality(open) = 0
      BY <3>1, FS_EmptySet
    <3> QED BY <2>1, <3>2 DEF TypeInv, TypeOK
  <2>2. CASE inProgress
    <3>1. PICK h \in Handlers : open = {h}
      BY <2>2 DEF TypeInv
    <3>2. Cardinality(open) = 1
      BY <3>1, FS_Singleton
    <3> QED BY <2>2, <3>2 DEF TypeInv, TypeOK
  <2> QED BY <2>1, <2>2 DEF TypeInv
<1> QED BY <1>1, TypeInvariant, PTL

-----------------------------------------------------------------------------
(* Nobody is shown an old picture.                                         *)

\* The stored picture may be shown to the request of h.
Suits(h) == data = 0 \/ data >= floor[h]

\* FreshShot with what makes it inductive: whatever lets a request read the
\* picture has seen to it that the picture suits it.
FreshInv ==
  /\ FreshShot
  /\ \A h \in Handlers :
       /\ pc[h] = "reading" => Suits(h)
       /\ pc[h] \in {"cleared", "waiting"} /\ ready /\ ~error => Suits(h)
       /\ pc[h] # "idle" => floor[h] <= takes + 1
       /\ pc[h] # "idle" /\ worker \in Handing => floor[h] <= takes
       /\ pc[h] # "idle" /\ cancel = "telling" /\ ~error => Suits(h)
  /\ worker \in {"taken", "failed", "stored", "handing"} => data \in {0, takes}
  /\ worker \in {"stopping", "told"} => error
  /\ row = "running" => cancel = "no"

LEMMA FreshStep == TypeInv /\ FreshInv /\ [Next]_vars => FreshInv'
<1> SUFFICES ASSUME TypeInv, FreshInv, [Next]_vars PROVE FreshInv'
  OBVIOUS
<1>1. ASSUME NEW h \in Handlers, Admit(h) PROVE FreshInv'
  BY <1>1 DEF Admit, Goes, TypeInv, FreshInv, FreshShot, Suits, Handing, browser
<1>2. ASSUME NEW h \in Handlers, ClearReady(h) PROVE FreshInv'
  BY <1>2 DEF ClearReady, Goes, TypeInv, FreshInv, FreshShot, Suits, Handing, browser
<1>3. ASSUME NEW h \in Handlers, SetRequested(h) PROVE FreshInv'
  BY <1>3 DEF SetRequested, Goes, TypeInv, FreshInv, FreshShot, Suits, Handing, browser
<1>4. ASSUME NEW h \in Handlers, TimeOut(h) PROVE FreshInv'
  BY <1>4 DEF TimeOut, Answer, Goes, TypeInv, FreshInv, FreshShot, Suits, Handing, browser
<1>5. ASSUME NEW h \in Handlers, Wake(h) PROVE FreshInv'
  BY <1>5 DEF Wake, Answer, Goes, TypeInv, FreshInv, FreshShot, Suits, Handing, browser
<1>6. ASSUME NEW h \in Handlers, ReadData(h) PROVE FreshInv'
  BY <1>6 DEF ReadData, Answer, Goes, TypeInv, FreshInv, FreshShot, Suits, Handing, browser
<1>7. CASE Take
  <2>1. \A h \in Handlers : floor[h] \in Nat
    BY DEF TypeInv
  <2> QED BY <1>7, <2>1 DEF Take, TypeInv, FreshInv, FreshShot, Suits, Handing, request, shared
<1>8. CASE StoreData
  BY <1>8 DEF StoreData, TypeInv, FreshInv, FreshShot, Suits, Handing, request
<1>9. CASE StoreError
  BY <1>9 DEF StoreError, TypeInv, FreshInv, FreshShot, Suits, Handing, request
<1>10. CASE HandOver
  BY <1>10 DEF HandOver, TypeInv, FreshInv, FreshShot, Suits, Handing, request
<1>11. CASE StopLooks \/ StopWakes
  BY <1>11 DEF StopLooks, StopWakes, TypeInv, FreshInv, FreshShot, Suits, Handing, request
<1>12. CASE FinishLooks \/ FinishWakes
  BY <1>12 DEF FinishLooks, FinishWakes, TypeInv, FreshInv, FreshShot, Suits, Handing, request
<1>13. CASE CancelStep
  BY <1>13 DEF CancelStep, CancelRow, CancelLooks, CancelWakes, TypeInv, FreshInv, FreshShot,
       Suits, Handing, request, shared, browser
<1>14. CASE UNCHANGED vars
  BY <1>14 DEF vars, FreshInv, FreshShot, Suits
<1> QED BY <1>1, <1>2, <1>3, <1>4, <1>5, <1>6, <1>7, <1>8, <1>9, <1>10, <1>11, <1>12, <1>13, <1>14
    DEF Next, HandlerStep, WorkerStep

\* Whatever timed out, was cancelled or ended before, the picture in an answer
\* is of a take that suits the request.
THEOREM ShotsAreFresh == Spec => []FreshShot
<1>1. Init => FreshInv
  BY DEF Init, FreshInv, FreshShot, Handing
<1>2. FreshInv => FreshShot
  BY DEF FreshInv
<1> QED BY <1>1, <1>2, FreshStep, TypeInvariant, PTL DEF Spec

-----------------------------------------------------------------------------
(* Nobody waits in vain.                                                   *)

LEMMA WaitStep == TypeInv /\ NobodyWaitsInVain /\ [Next]_vars => NobodyWaitsInVain'
<1> SUFFICES ASSUME TypeInv, NobodyWaitsInVain, [Next]_vars PROVE NobodyWaitsInVain'
  OBVIOUS
<1> USE DEF NobodyWaitsInVain
<1>1. ASSUME NEW h \in Handlers, Admit(h) PROVE NobodyWaitsInVain'
  BY <1>1 DEF Admit, Goes, TypeInv, browser
<1>2. ASSUME NEW h \in Handlers, ClearReady(h) PROVE NobodyWaitsInVain'
  BY <1>2 DEF ClearReady, Goes, TypeInv, browser
<1>3. ASSUME NEW h \in Handlers, SetRequested(h) PROVE NobodyWaitsInVain'
  BY <1>3 DEF SetRequested, Goes, TypeInv, browser
<1>4. ASSUME NEW h \in Handlers, TimeOut(h) PROVE NobodyWaitsInVain'
  BY <1>4 DEF TimeOut, Answer, Goes, TypeInv, browser
<1>5. ASSUME NEW h \in Handlers, Wake(h) PROVE NobodyWaitsInVain'
  BY <1>5 DEF Wake, Answer, Goes, TypeInv, browser
<1>6. ASSUME NEW h \in Handlers, ReadData(h) PROVE NobodyWaitsInVain'
  BY <1>6 DEF ReadData, Answer, Goes, TypeInv, browser
<1>7. CASE Take \/ StoreData \/ StoreError
  BY <1>7 DEF Take, StoreData, StoreError, TypeInv, request, shared
<1>8. CASE HandOver
  BY <1>8 DEF HandOver, TypeInv, request
<1>9. CASE StopLooks \/ StopWakes
  BY <1>9 DEF StopLooks, StopWakes, TypeInv, request
<1>10. CASE FinishLooks \/ FinishWakes
  BY <1>10 DEF FinishLooks, FinishWakes, TypeInv, request
<1>11. CASE CancelStep
  BY <1>11 DEF CancelStep, CancelRow, CancelLooks, CancelWakes, TypeInv, request, shared, browser
<1>12. CASE UNCHANGED vars
  BY <1>12 DEF vars
<1> QED BY <1>1, <1>2, <1>3, <1>4, <1>5, <1>6, <1>7, <1>8, <1>9, <1>10, <1>11, <1>12
    DEF Next, HandlerStep, WorkerStep

\* A waiting request is seen by the worker or by the end of the attempt, or
\* about to be woken: the property is inductive by itself.
THEOREM EveryWaitIsSeen == Spec => []NobodyWaitsInVain
<1>1. Init => NobodyWaitsInVain
  BY DEF Init, NobodyWaitsInVain
<1> QED BY <1>1, WaitStep, TypeInvariant, PTL DEF Spec
=============================================================================
