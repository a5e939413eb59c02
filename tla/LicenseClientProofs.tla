-------------------------- MODULE LicenseClientProofs --------------------------
(***************************************************************************)
(* Proofs about the license client, for every set of cards and request     *)
(* threads, any number of late requests and any of the faults.             *)
(***************************************************************************)
EXTENDS LicenseClient, TLAPS

-----------------------------------------------------------------------------
(* Types, and who holds which lock.                                        *)

\* While LICENSE.lock is held nobody else changes the license in memory, and the
\* thread that holds it is where its request says.
LockInv ==
  /\ call # NoCall =>
       /\ up = "up"
       /\ call.request.state = mem
       /\ pc[call.by] = IF call.request.kind = "workflows" THEN "fetching" ELSE "asking"
       /\ call.request.kind \in {"activate", "renew"} => call.request.card \in Cards
       /\ call.request.kind \in {"gate", "workflows"} => Complete(mem)
  /\ \A q \in late : q.card \in Cards
  /\ up # "up" => catalog = "empty" /\ \A w \in Workers : pc[w] = "idle"

TypeInv == TypeOK /\ LockInv

LEMMA CallShape ==
  ASSUME TypeOK, call # NoCall
  PROVE  /\ call \in Call /\ call.by \in Workers
         /\ call.request \in Request /\ call.request.kind \in Kinds
         /\ call.request.card \in Cards \cup {None} /\ call.request.state \in State
         /\ call.reply \in {"none", "ok", "refused", "unreachable"}
  BY DEF TypeOK, Call, Request

LEMMA CallIsCall == ASSUME NEW x \in Call PROVE x # NoCall
<1>1. NoCall.by = None /\ x.by \in Workers
  BY DEF NoCall, Call
<1> QED BY <1>1, ClientAssumption

LEMMA Stateless == NoState \in State /\ ~Complete(NoState) /\ NoState.license = None
  BY DEF NoState, State, Complete

\* The cards a step excuses are cards.
LEMMA ExcusedAreCards ==
  ASSUME TypeInv
  PROVE  /\ Unseen \subseteq Cards
         /\ \A s : Replaced(s) \subseteq Cards
<1>1. Unseen \subseteq Cards
  BY DEF Unseen, TypeInv, LockInv
<1>2. mem.license \in Cards \cup {None}
  BY DEF TypeInv, TypeOK, State
<1> QED BY <1>1, <1>2 DEF Replaced

\* What Abandon makes of the late requests.
LEMMA AbandonKeeps ==
  ASSUME TypeInv, Abandon
  PROVE  late' \in SUBSET Request /\ \A q \in late' : q.card \in Cards
<1>1. CASE UNCHANGED late
  BY <1>1 DEF TypeInv, TypeOK, LockInv
<1>2. CASE call # NoCall /\ call.request.kind \in {"activate", "renew"} /\ late' = late \cup {call.request}
  <2>1. call.request \in Request
    BY <1>2, CallShape DEF TypeInv
  <2> QED BY <1>2, <2>1 DEF TypeInv, TypeOK, LockInv
<1> QED BY <1>1, <1>2 DEF Abandon

\* A request of the service is committed: types, and what becomes of a card.
LEMMA CommitShape ==
  ASSUME TypeInv, NEW q \in Request, Commit(q)
  PROVE  /\ card' \in [Cards -> {"unused", "activated", "renewed"}]
         /\ license' \in [Cards -> {"none", "active", "refused"}]
         /\ \A c \in Cards :
              \/ card'[c] = card[c] /\ license'[c] = license[c]
              \/ /\ card[c] = "unused" /\ q.card = c /\ Accepts(q)
                 /\ \/ q.kind = "activate" /\ card'[c] = "activated" /\ license'[c] = "active"
                    \/ q.kind = "renew" /\ card'[c] = "renewed" /\ license'[c] = license[c]
<1> USE DEF TypeInv, TypeOK
<1>1. CASE Accepts(q) /\ q.kind = "activate"
  BY <1>1 DEF Commit, Accepts
<1>2. CASE Accepts(q) /\ q.kind = "renew"
  BY <1>2 DEF Commit, Accepts
<1>3. CASE ~(Accepts(q) /\ q.kind = "activate") /\ ~(Accepts(q) /\ q.kind = "renew")
  BY <1>3 DEF Commit
<1> QED BY <1>1, <1>2, <1>3

LEMMA AskedCall ==
  ASSUME TypeOK, NEW w \in Workers, NEW kind \in Kinds, NEW c \in Cards \cup {None}, Ask(w, kind, c)
  PROVE  /\ call' \in Call /\ call' # NoCall
         /\ call'.by = w /\ call'.reply = "none"
         /\ call'.request.kind = kind /\ call'.request.card = c /\ call'.request.state = mem
<1>1. call' \in Call
  BY DEF Ask, Call, Request, TypeOK
<1> QED BY <1>1, CallIsCall DEF Ask

LEMMA AnsweredCall ==
  ASSUME TypeOK, call # NoCall, NEW r \in {"ok", "refused", "unreachable"},
         call' = [call EXCEPT !.reply = r]
  PROVE  /\ call' \in Call /\ call' # NoCall
         /\ call'.by = call.by /\ call'.request = call.request /\ call'.reply = r
<1>1. call \in Call
  BY CallShape
<1>2. call' \in Call /\ call'.by = call.by /\ call'.request = call.request /\ call'.reply = r
  BY <1>1 DEF Call
<1> QED BY <1>2, CallIsCall

-----------------------------------------------------------------------------
LEMMA StartUpType == ASSUME TypeInv, Recover \/ Load \/ Crash PROVE TypeInv'
<1> USE DEF TypeInv, TypeOK, LockInv
<1>0. Filed \subseteq Cards
  BY DEF Filed, State
<1>1. CASE Recover
  <2>1. /\ up' \in {"down", "recovered"} /\ disk' \in State /\ excused' \in SUBSET Cards
    BY <1>0, <1>1, Stateless DEF Recover, Copies
  <2> QED BY <1>1, <2>1 DEF Recover, service
<1>2. CASE Load
  <2>1. /\ up' \in {"down", "recovered", "up"} /\ mem' \in State /\ disk' \in State
        /\ excused' \in SUBSET Cards
    BY <1>0, <1>2, Stateless DEF Load
  <2> QED BY <1>2, <2>1 DEF Load, service
<1>3. CASE Crash
  <2>1. /\ late' \in SUBSET Request /\ \A q \in late' : q.card \in Cards
        /\ excused' \in SUBSET Cards
    BY <1>3, AbandonKeeps, ExcusedAreCards DEF Crash
  <2>2. /\ pc' \in [Workers -> {"idle", "asking", "admitted", "refreshing", "fetching", "clearing"}]
        /\ \A w \in Workers : pc'[w] = "idle"
        /\ good' \in [Workers -> BOOLEAN]
    BY <1>3 DEF Crash
  <2> QED BY <1>3, <2>1, <2>2, Stateless, ClientAssumption DEF Crash
<1> QED BY <1>1, <1>2, <1>3

LEMMA ServiceType ==
  ASSUME TypeInv,
         \/ Serve \/ Unreachable \/ CatalogAges
         \/ \E q \in late : ServeLate(q)
         \/ \E c \in Cards, state \in {"active", "refused"} : AdminSets(c, state)
  PROVE  TypeInv'
<1> USE DEF TypeInv
<1>1. CASE Serve
  <2>1. call.request \in Request
    BY <1>1, CallShape DEF Serve
  <2>2. /\ call' \in Call /\ call' # NoCall /\ call'.by = call.by /\ call'.request = call.request
    <3>1. (IF Accepts(call.request) THEN "ok" ELSE "refused") \in {"ok", "refused", "unreachable"}
      OBVIOUS
    <3> QED BY <1>1, <3>1, AnsweredCall DEF Serve
  <2>3. /\ card' \in [Cards -> {"unused", "activated", "renewed"}]
        /\ license' \in [Cards -> {"none", "active", "refused"}]
    BY <1>1, <2>1, CommitShape DEF Serve
  <2> QED BY <1>1, <2>2, <2>3 DEF Serve, client, history, TypeOK, LockInv
<1>2. CASE Unreachable
  <2>1. /\ call' \in Call /\ call' # NoCall /\ call'.by = call.by /\ call'.request = call.request
    BY <1>2, AnsweredCall DEF Unreachable
  <2>2. /\ late' \in SUBSET Request /\ \A q \in late' : q.card \in Cards
        /\ excused' \in SUBSET Cards
    BY <1>2, AbandonKeeps, ExcusedAreCards DEF Unreachable, TypeOK
  <2> QED BY <1>2, <2>1, <2>2 DEF Unreachable, client, TypeOK, LockInv
<1>3. CASE CatalogAges
  BY <1>3 DEF CatalogAges, client, service, history, TypeOK, LockInv
<1>4. ASSUME NEW q \in late, ServeLate(q) PROVE TypeInv'
  <2>1. q \in Request
    BY DEF TypeOK
  <2>2. /\ card' \in [Cards -> {"unused", "activated", "renewed"}]
        /\ license' \in [Cards -> {"none", "active", "refused"}]
    BY <1>4, <2>1, CommitShape DEF ServeLate
  <2> QED BY <1>4, <2>2 DEF ServeLate, client, history, TypeOK, LockInv
<1>5. ASSUME NEW c \in Cards, NEW state \in {"active", "refused"}, AdminSets(c, state) PROVE TypeInv'
  <2>1. /\ license' \in [Cards -> {"none", "active", "refused"}]
        /\ good' \in [Workers -> BOOLEAN]
    BY <1>5 DEF AdminSets, TypeOK
  <2> QED BY <1>5, <2>1 DEF AdminSets, client, TypeOK, LockInv
<1> QED BY <1>1, <1>2, <1>3, <1>4, <1>5

\* What the end of a request leaves of the types.
LEMMA EndsShape ==
  ASSUME TypeInv, NEW w \in Workers,
         NEW next \in {"idle", "admitted"}, Ends(w, next)
  PROVE  /\ call' = NoCall
         /\ pc' \in [Workers -> {"idle", "asking", "admitted", "refreshing", "fetching", "clearing"}]
         /\ pc'[w] = next /\ \A v \in Workers \ {w} : pc'[v] = pc[v]
         /\ good' \in [Workers -> BOOLEAN]
         /\ \A v \in Workers \ {w} : good'[v] = good[v]
         /\ good'[w] = (good[w] /\ next = "admitted")
  BY DEF Ends, TypeInv, TypeOK

LEMMA RequestType ==
  ASSUME TypeInv, NEW w \in Workers,
         \/ Store(w) \/ Fail(w) \/ Refreshed(w) \/ Fetch(w)
  PROVE  TypeInv'
<1> USE DEF TypeInv
<1>1. CASE Store(w)
  <2>1. /\ call \in Call /\ call.by = w /\ call.request.card \in Cards \cup {None}
        /\ call.request.kind = "activate" => call.request.card \in Cards
        /\ call.request.kind # "workflows" /\ up = "up" /\ pc[w] = "asking"
    BY <1>1, CallShape DEF Store, LockInv, Replied, Kinds
  <2>2. PICK next \in {"idle", "admitted"} : Ends(w, next)
    BY <1>1 DEF Store, Replied, Kinds
  <2>3. mem' \in State /\ disk' \in State
    BY <1>1, <2>1 DEF Store, Answered, Saves, State, TypeOK, Replied, Kinds
  <2>4. excused' \in SUBSET Cards
    BY <1>1, ExcusedAreCards DEF Store, TypeOK, Replied, Kinds
  <2> QED BY <1>1, <2>1, <2>2, <2>3, <2>4, EndsShape
     DEF Store, service, TypeOK, LockInv, Replied, Kinds
<1>2. CASE Fail(w)
  <2>1. /\ call \in Call /\ call.by = w
        /\ call.request.kind # "workflows" /\ up = "up" /\ pc[w] = "asking"
    BY <1>2, CallShape DEF Fail, LockInv, Replied, Kinds
  <2>2. PICK next \in {"idle", "admitted"} : Ends(w, next)
    BY <1>2 DEF Fail, Replied, Kinds
  <2>3. disk' \in State
    BY <1>2 DEF Fail, Saves, TypeOK, Replied, Kinds
  <2> QED BY <1>2, <2>1, <2>2, <2>3, EndsShape DEF Fail, service, TypeOK, LockInv, Replied, Kinds
<1>3. CASE Refreshed(w)
  <2>1. call \in Call /\ call.by = w /\ pc[w] = "fetching" /\ up = "up"
    BY <1>3, CallShape DEF Refreshed, LockInv, Replied
  <2>2. Ends(w, "idle")
    BY <1>3 DEF Refreshed, Replied
  <2>3. \A v \in Workers \ {w} : pc[v] \notin {"refreshing", "fetching"}
    BY <2>1 DEF TypeOK
  <2>4. \A v \in Workers : None # v
    BY ClientAssumption
  <2> QED BY <1>3, <2>1, <2>2, <2>3, <2>4, EndsShape
     DEF Refreshed, client, service, TypeOK, LockInv, Replied
<1>4. CASE Fetch(w)
  <2>1. \A v \in Workers \ {w} : pc[v] \notin {"refreshing", "fetching"}
    BY <1>4 DEF Fetch, TypeOK, MayFetch
  <2>2. up = "up"
    BY <1>4 DEF Fetch, LockInv, MayFetch
  <2>3. CASE Complete(mem)
    <3>1. /\ Ask(w, "workflows", None) /\ pc' = [pc EXCEPT ![w] = "fetching"]
          /\ UNCHANGED <<catalogLock, good, client, catalog, service, excused, halfReset>>
      BY <1>4, <2>3 DEF Fetch, MayFetch
    <3>2. /\ call' \in Call /\ call' # NoCall /\ call'.by = w
          /\ call'.request.kind = "workflows" /\ call'.request.state = mem
      BY <3>1, AskedCall DEF Kinds
    <3>3. TypeOK'
      BY <1>4, <3>1, <3>2 DEF Fetch, TypeOK, client, service, MayFetch
    <3>4. LockInv'
      BY <1>4, <2>2, <2>3, <3>1, <3>2
         DEF Fetch, LockInv, TypeOK, client, service, Complete, MayFetch
    <3> QED BY <3>3, <3>4
  <2>4. CASE ~Complete(mem)
    <3>1. /\ Ends(w, "idle") /\ catalogLock' = None
          /\ UNCHANGED <<client, catalog, service, excused, halfReset>>
      BY <1>4, <2>4 DEF Fetch, MayFetch
    <3>2. \A v \in Workers : None # v
      BY ClientAssumption
    <3> QED BY <2>1, <2>2, <3>1, <3>2, EndsShape DEF client, service, TypeOK, LockInv
  <2> QED BY <2>3, <2>4
<1> QED BY <1>1, <1>2, <1>3, <1>4

LEMMA OperationType ==
  ASSUME TypeInv, NEW w \in Workers, Operation(w) \/ Clear(w)
  PROVE  TypeInv'
<1> USE DEF TypeInv
<1>1. ASSUME NEW kind \in Kinds, NEW c \in Cards \cup {None},
             kind \in {"activate", "renew"} <=> c # None, Begin(w, kind, c)
      PROVE  TypeInv'
  <2>1. /\ call' \in Call /\ call' # NoCall /\ call'.by = w
        /\ call'.request.kind = kind /\ call'.request.card = c /\ call'.request.state = mem
    BY <1>1, AskedCall DEF Begin
  <2>2. /\ pc[w] = "idle" /\ up = "up" /\ kind # "workflows"
        /\ kind = "gate" => Complete(mem)
        /\ pc' = [pc EXCEPT ![w] = "asking"]
        /\ UNCHANGED <<client, catalog, catalogLock, service, excused, halfReset>>
    BY <1>1 DEF Begin
  <2>3. good' \in [Workers -> BOOLEAN]
    BY <1>1 DEF Begin, TypeOK
  <2>4. TypeOK'
    BY <2>1, <2>2, <2>3 DEF TypeOK, client, service
  <2>5. LockInv'
    BY <1>1, <2>1, <2>2 DEF LockInv, TypeOK, client, service, Complete
  <2> QED BY <2>4, <2>5
<1>2. CASE CheckIncomplete(w)
  BY <1>2 DEF CheckIncomplete, Saves, service, history, TypeOK, LockInv
<1>3. CASE LookUp(w)
  <2>1. \A v \in Workers : None # v /\ pc[v] \notin {"refreshing", "fetching"}
    BY <1>3, ClientAssumption DEF LookUp, TypeOK, MayLookUp
  <2>2. /\ pc[w] \in {"idle", "admitted"} /\ up = "up"
        /\ good' \in [Workers -> BOOLEAN]
        /\ UNCHANGED <<client, call, catalog, service, excused, halfReset>>
    BY <1>3 DEF LookUp, TypeOK, MayLookUp
  <2>3. CASE catalog = "fresh"
    <3>1. pc' = [pc EXCEPT ![w] = "idle"] /\ UNCHANGED catalogLock
      BY <1>3, <2>3 DEF LookUp, MayLookUp
    <3>2. call # NoCall => call.by # w
      BY <2>2 DEF LockInv
    <3>3. TypeOK'
      BY <2>1, <2>2, <3>1, <3>2 DEF TypeOK, client, service
    <3> QED BY <2>2, <3>1, <3>2, <3>3, CallShape DEF LockInv, client, service, TypeOK
  <2>4. CASE catalog # "fresh"
    <3>1. pc' = [pc EXCEPT ![w] = "refreshing"] /\ catalogLock' = w
      BY <1>3, <2>4 DEF LookUp, MayLookUp
    <3>2. call # NoCall => call.by # w
      BY <2>2 DEF LockInv
    <3>3. TypeOK'
      BY <2>1, <2>2, <3>1, <3>2 DEF TypeOK, client, service
    <3> QED BY <2>2, <3>1, <3>2, <3>3, CallShape DEF LockInv, client, service, TypeOK
  <2> QED BY <2>3, <2>4
<1>4. CASE Reset(w)
  <2>1. excused' \in SUBSET Cards
    BY <1>4, ExcusedAreCards DEF Reset, TypeOK
  <2> QED BY <1>4, <2>1, Stateless DEF Reset, Saves, service, TypeOK, LockInv
<1>5. CASE Clear(w)
  <2>1. call # NoCall => call.by # w
    BY <1>5 DEF Clear, LockInv, MayClear
  <2> QED BY <1>5, <2>1, CallShape DEF Clear, client, service, TypeOK, LockInv, MayClear
<1> QED BY <1>1, <1>2, <1>3, <1>4, <1>5 DEF Operation

LEMMA TypeStep == TypeInv /\ [Next]_vars => TypeInv'
<1> SUFFICES ASSUME TypeInv, [Next]_vars PROVE TypeInv'
  OBVIOUS
<1>1. CASE UNCHANGED vars
  BY <1>1 DEF vars, TypeInv, TypeOK, LockInv
<1> QED BY <1>1, StartUpType, ServiceType, RequestType, OperationType DEF Next

LEMMA TypeInvariant == Spec => []TypeInv
<1>1. Init => TypeInv
  <2> SUFFICES ASSUME Init PROVE TypeInv
    OBVIOUS
  <2>1. mem \in State /\ disk \in State /\ legacy \in State
    BY Stateless DEF Init, State
  <2>2. /\ pc \in [Workers -> {"idle", "asking", "admitted", "refreshing", "fetching", "clearing"}]
        /\ \A w \in Workers : pc[w] = "idle" /\ catalogLock # w
    BY ClientAssumption DEF Init
  <2>3. /\ card \in [Cards -> {"unused", "activated", "renewed"}]
        /\ license \in [Cards -> {"none", "active", "refused"}]
        /\ good \in [Workers -> BOOLEAN]
    BY DEF Init
  <2>4. /\ up = "down" /\ call = NoCall /\ catalog = "empty" /\ catalogLock = None
        /\ late = {} /\ excused = {} /\ halfReset \in BOOLEAN
    BY DEF Init
  <2> QED BY <2>1, <2>2, <2>3, <2>4 DEF TypeInv, TypeOK, LockInv
<1> QED BY <1>1, TypeStep, PTL DEF Spec

\* Every variable keeps its type, and the locks belong to who holds them.
THEOREM TypeCorrect == Spec => []TypeOK
<1>1. TypeInv => TypeOK
  BY DEF TypeInv
<1> QED BY <1>1, TypeInvariant, PTL

-----------------------------------------------------------------------------
(* No run passes the gate on an old answer.                                *)

\* A card that is not used has no license, and whatever license this installation
\* or an answer on its way names exists at the service: so no commit can make the
\* license of a gate active while its request is under way, only an administrator.
KnownLicenses ==
  /\ \A c \in Cards : card[c] = "unused" => license[c] = "none"
  /\ \A s \in {mem, disk, legacy} : s.license # None => license[s.license] # "none"
  /\ call # NoCall /\ call.request.kind = "activate" /\ call.reply = "ok" =>
       license[call.request.card] # "none"

\* AdmittedWasActive with what makes it inductive: a request of the gate that is
\* accepted saw an active license, and one under way will not see one unnoticed.
GateInv ==
  /\ AdmittedWasActive
  /\ call # NoCall /\ call.request.kind = "gate" =>
       /\ call.reply = "ok" => good[call.by]
       /\ call.reply = "none" => good[call.by] \/ license[mem.license] # "active"

LEMMA KnownStep == TypeInv /\ KnownLicenses /\ [Next]_vars => KnownLicenses'
<1> SUFFICES ASSUME TypeInv, KnownLicenses, [Next]_vars PROVE KnownLicenses'
  OBVIOUS
<1> USE DEF TypeInv
<1>0. /\ mem.license \in Cards \cup {None} /\ disk.license \in Cards \cup {None}
      /\ legacy.license \in Cards \cup {None}
  BY DEF TypeOK, State
<1>1. CASE Recover \/ Load
  BY <1>1, Stateless DEF Recover, Copies, Load, service, KnownLicenses
<1>2. CASE Crash
  BY <1>2, Stateless DEF Crash, KnownLicenses
<1>3. CASE Serve
  <2>1. /\ call.request \in Request /\ Commit(call.request) /\ UNCHANGED client
        /\ call'.request = call.request /\ call.request.card \in Cards \cup {None}
        /\ call'.reply = IF Accepts(call.request) THEN "ok" ELSE "refused"
    <3>1. call \in Call
      BY <1>3, CallShape DEF Serve
    <3> QED BY <1>3, <3>1 DEF Serve, Call, Request
  <2>2. CASE Accepts(call.request) /\ call.request.kind = "activate"
    <3>1. call.request.card \in Cards /\ license'[call.request.card] = "active"
      BY <1>3, <2>1, <2>2 DEF Serve, LockInv, Commit, TypeOK
    <3> QED BY <1>0, <2>1, <3>1, CommitShape DEF KnownLicenses, client
  <2>3. CASE ~(Accepts(call.request) /\ call.request.kind = "activate")
    <3>1. ~(call'.request.kind = "activate" /\ call'.reply = "ok")
      BY <2>1, <2>3
    <3> QED BY <1>0, <2>1, <3>1, CommitShape DEF KnownLicenses, client
  <2> QED BY <2>2, <2>3
<1>4. ASSUME NEW q \in late, ServeLate(q) PROVE KnownLicenses'
  <2>1. /\ q \in Request /\ Commit(q) /\ UNCHANGED <<client, call>>
        /\ call # NoCall => call.request.card \in Cards \cup {None}
    BY <1>4, CallShape DEF ServeLate, TypeOK
  <2>2. call # NoCall /\ call.request.kind = "activate" => call.request.card \in Cards
    BY DEF LockInv
  <2> QED BY <1>0, <2>1, <2>2, CommitShape DEF KnownLicenses, client
<1>5. CASE Unreachable
  <2>1. call' # NoCall /\ call'.reply = "unreachable" /\ UNCHANGED <<client, card, license>>
    BY <1>5, AnsweredCall DEF Unreachable
  <2> QED BY <2>1 DEF KnownLicenses, client
<1>6. ASSUME NEW c \in Cards, NEW state \in {"active", "refused"}, AdminSets(c, state)
      PROVE  KnownLicenses'
  <2>1. /\ license[c] # "none" /\ license' = [license EXCEPT ![c] = state]
        /\ UNCHANGED <<client, call, card>>
    BY <1>6 DEF AdminSets
  <2>2. license'[c] = state /\ \A d \in Cards \ {c} : license'[d] = license[d]
    BY <2>1 DEF TypeOK
  <2>3. call # NoCall /\ call.request.kind = "activate" => call.request.card \in Cards
    BY DEF LockInv
  <2> QED BY <1>0, <2>1, <2>2, <2>3 DEF KnownLicenses, client
<1>7. ASSUME NEW w \in Workers, Store(w) PROVE KnownLicenses'
  <2>1. /\ call # NoCall /\ call.reply = "ok" /\ call' = NoCall
        /\ UNCHANGED <<legacy, card, license>>
    BY <1>7 DEF Store, Ends, service, Replied, Kinds
  <2>2. mem'.license \in {mem.license} \cup {call.request.card}
    BY <1>7, <2>1 DEF Store, Answered, TypeOK, State, Replied, Kinds
  <2>3. mem'.license # mem.license => call.request.kind = "activate"
    BY <1>7, <2>1 DEF Store, Answered, Replied, Kinds
  <2>4. disk' \in {disk, mem'}
    BY <1>7 DEF Store, Saves, Replied, Kinds
  <2> QED BY <2>1, <2>2, <2>3, <2>4 DEF KnownLicenses
<1>8. ASSUME NEW w \in Workers, Fail(w) PROVE KnownLicenses'
  <2>1. call' = NoCall /\ disk' \in {mem, disk} /\ UNCHANGED <<mem, legacy, card, license>>
    BY <1>8 DEF Fail, Ends, Saves, service, Replied, Kinds
  <2> QED BY <2>1 DEF KnownLicenses
<1>9. ASSUME NEW w \in Workers, Refreshed(w) \/ Clear(w) \/ LookUp(w) PROVE KnownLicenses'
  <2>1. call' \in {NoCall, call} /\ UNCHANGED <<mem, disk, legacy, card, license>>
    BY <1>9 DEF Refreshed, Clear, LookUp, Ends, client, service, Replied, MayClear, MayLookUp
  <2> QED BY <2>1 DEF KnownLicenses
<1>10. ASSUME NEW w \in Workers, Fetch(w) PROVE KnownLicenses'
  <2>1. /\ call' = NoCall \/ call'.request.kind = "workflows"
        /\ UNCHANGED <<mem, disk, legacy, card, license>>
    BY <1>10, AskedCall DEF Fetch, Ends, client, service, Ask, MayFetch
  <2> QED BY <2>1 DEF KnownLicenses
<1>11. ASSUME NEW w \in Workers, NEW kind \in Kinds, NEW c \in Cards \cup {None}, Begin(w, kind, c)
       PROVE  KnownLicenses'
  <2>1. call'.reply = "none" /\ UNCHANGED <<mem, disk, legacy, card, license>>
    BY <1>11, AskedCall DEF Begin, client, service
  <2> QED BY <2>1 DEF KnownLicenses
<1>12. ASSUME NEW w \in Workers, CheckIncomplete(w) \/ Reset(w) PROVE KnownLicenses'
  <2>1. /\ mem' \in {mem, NoState} /\ disk' \in {mem, disk, NoState}
        /\ UNCHANGED <<legacy, call, card, license>>
    BY <1>12 DEF CheckIncomplete, Reset, Saves, service
  <2> QED BY <2>1, Stateless DEF KnownLicenses
<1>13. CASE CatalogAges \/ UNCHANGED vars
  BY <1>13 DEF CatalogAges, vars, client, service, KnownLicenses
<1> QED BY <1>1, <1>2, <1>3, <1>4, <1>5, <1>6, <1>7, <1>8, <1>9, <1>10, <1>11, <1>12, <1>13
    DEF Next, Operation

LEMMA GateStep == TypeInv /\ KnownLicenses /\ GateInv /\ [Next]_vars => GateInv'
<1> SUFFICES ASSUME TypeInv, KnownLicenses, GateInv, [Next]_vars PROVE GateInv'
  OBVIOUS
<1> USE DEF TypeInv
<1>0. mem.license \in Cards \cup {None} /\ (call # NoCall => call.by \in Workers)
  BY CallShape DEF TypeOK, State
<1>1. CASE Recover \/ Load \/ Crash
  <2>1. /\ call' = NoCall
        /\ UNCHANGED <<pc, good>> \/ \A w \in Workers : pc'[w] = "idle"
    BY <1>1 DEF Recover, Load, Crash, history, LockInv
  <2> QED BY <2>1 DEF GateInv, AdmittedWasActive
<1>2. CASE Serve
  <2>1. /\ call # NoCall /\ call \in Call /\ call.request \in Request /\ Commit(call.request)
        /\ call.reply = "none" /\ UNCHANGED <<mem, pc, good>>
        /\ call'.request = call.request /\ call'.by = call.by
        /\ call'.reply = IF Accepts(call.request) THEN "ok" ELSE "refused"
    <3>1. call \in Call
      BY <1>2, CallShape DEF Serve
    <3> QED BY <1>2, <3>1 DEF Serve, Call, Request, client, history
  <2>2. call.request.kind = "gate" /\ Accepts(call.request) => license[mem.license] = "active"
    BY <2>1 DEF Accepts, Authentic, LockInv
  <2> QED BY <2>1, <2>2 DEF GateInv, AdmittedWasActive
<1>3. ASSUME NEW q \in late, ServeLate(q) PROVE GateInv'
  <2>1. q \in Request /\ Commit(q) /\ UNCHANGED <<mem, pc, call, good>>
    BY <1>3 DEF ServeLate, TypeOK, client, history
  <2>2. call # NoCall /\ call.request.kind = "gate" =>
          mem.license \in Cards /\ card[mem.license] # "unused"
    BY <1>0, ClientAssumption DEF LockInv, Complete, KnownLicenses
  <2>3. call # NoCall /\ call.request.kind = "gate" => license'[mem.license] = license[mem.license]
    BY <2>1, <2>2, CommitShape
  <2> QED BY <2>1, <2>3 DEF GateInv, AdmittedWasActive
<1>4. CASE Unreachable
  <2>1. call' # NoCall /\ call'.reply = "unreachable" /\ UNCHANGED <<pc, good>>
    BY <1>4, AnsweredCall DEF Unreachable
  <2> QED BY <2>1 DEF GateInv, AdmittedWasActive
<1>5. ASSUME NEW c \in Cards, NEW state \in {"active", "refused"}, AdminSets(c, state)
      PROVE  GateInv'
  <2>1. /\ license' = [license EXCEPT ![c] = state] /\ UNCHANGED <<mem, pc, call>>
        /\ \A w \in Workers :
             good'[w] = (good[w] \/ (state = "active" /\ Gating(w) /\ mem.license = c))
    BY <1>5 DEF AdminSets, client
  <2>2. \A w \in Workers : good[w] => good'[w]
    BY <2>1
  <2>3. ASSUME call # NoCall, call.request.kind = "gate"
        PROVE  good'[call.by] \/ license'[mem.license] = license[mem.license]
                 \/ license'[mem.license] = "refused"
    <3>1. mem.license \in Cards /\ call.by \in Workers /\ Gating(call.by)
      BY <1>0, <2>3 DEF LockInv, Complete, Gating
    <3>2. CASE mem.license = c /\ state = "active"
      BY <2>1, <3>1, <3>2
    <3>3. CASE mem.license # c \/ state = "refused"
      BY <2>1, <3>1, <3>3 DEF TypeOK
    <3> QED BY <3>2, <3>3
  <2> QED BY <1>0, <2>1, <2>2, <2>3 DEF GateInv, AdmittedWasActive
<1>6. ASSUME NEW w \in Workers, Store(w) PROVE GateInv'
  <2>1. /\ call # NoCall /\ call.by = w /\ call.reply = "ok" /\ call' = NoCall
        /\ call.request.kind \in Kinds
    BY <1>6, CallShape DEF Store, Ends, Replied, Kinds
  <2>2. CASE call.request.kind = "gate"
    <3>1. PICK next \in {"idle", "admitted"} : Ends(w, next)
      BY <1>6 DEF Store, Replied, Kinds
    <3>2. good[w]
      BY <2>1, <2>2 DEF GateInv
    <3> QED BY <2>1, <3>1, <3>2, EndsShape DEF GateInv, AdmittedWasActive
  <2>3. CASE call.request.kind # "gate"
    <3>1. Ends(w, "idle")
      BY <1>6, <2>3 DEF Store, Replied, Kinds
    <3> QED BY <2>1, <3>1, EndsShape DEF GateInv, AdmittedWasActive
  <2> QED BY <2>2, <2>3
<1>7. ASSUME NEW w \in Workers, Fail(w) \/ Refreshed(w) PROVE GateInv'
  <2>1. Ends(w, "idle")
    BY <1>7 DEF Fail, Refreshed, Admits, Replied, Kinds
  <2> QED BY <2>1, EndsShape DEF GateInv, AdmittedWasActive
<1>8. ASSUME NEW w \in Workers, Fetch(w) PROVE GateInv'
  <2>1. CASE Complete(mem)
    <3>1. /\ call'.request.kind = "workflows" /\ pc' = [pc EXCEPT ![w] = "fetching"]
          /\ UNCHANGED good
      BY <1>8, <2>1, AskedCall DEF Fetch, Kinds, MayFetch
    <3> QED BY <3>1 DEF GateInv, AdmittedWasActive, TypeOK
  <2>2. CASE ~Complete(mem)
    <3>1. Ends(w, "idle")
      BY <1>8, <2>2 DEF Fetch, MayFetch
    <3> QED BY <3>1, EndsShape DEF GateInv, AdmittedWasActive
  <2> QED BY <2>1, <2>2
<1>9. ASSUME NEW w \in Workers, NEW kind \in Kinds, NEW c \in Cards \cup {None}, Begin(w, kind, c)
      PROVE  GateInv'
  <2>1. /\ call'.by = w /\ call'.reply = "none" /\ call'.request.kind = kind
        /\ pc' = [pc EXCEPT ![w] = "asking"] /\ UNCHANGED <<mem, license>>
        /\ good'[w] = (kind = "gate" /\ license[mem.license] = "active")
        /\ \A v \in Workers \ {w} : good'[v] = good[v]
    BY <1>9, AskedCall DEF Begin, client, service, TypeOK
  <2> QED BY <2>1 DEF GateInv, AdmittedWasActive, TypeOK
<1>10. ASSUME NEW w \in Workers, LookUp(w) PROVE GateInv'
  <2>1. /\ call # NoCall => call.by # w
        /\ pc'[w] # "admitted"
        /\ \A v \in Workers \ {w} : pc'[v] = pc[v] /\ good'[v] = good[v]
        /\ UNCHANGED <<call, mem, license>>
    BY <1>10 DEF LookUp, LockInv, TypeOK, client, service, MayLookUp
  <2> QED BY <1>0, <2>1 DEF GateInv, AdmittedWasActive
<1>11. ASSUME NEW w \in Workers, Reset(w) \/ CheckIncomplete(w) PROVE GateInv'
  <2>1. /\ call' = NoCall /\ UNCHANGED good
        /\ \A v \in Workers : pc'[v] = "admitted" => pc[v] = "admitted"
    BY <1>11 DEF Reset, CheckIncomplete, history, TypeOK
  <2> QED BY <2>1 DEF GateInv, AdmittedWasActive
<1>12. ASSUME NEW w \in Workers, Clear(w) PROVE GateInv'
  <2>1. /\ UNCHANGED <<call, good, mem, license>>
        /\ \A v \in Workers : pc'[v] = "admitted" => pc[v] = "admitted"
    BY <1>12 DEF Clear, client, service, TypeOK, MayClear
  <2> QED BY <2>1 DEF GateInv, AdmittedWasActive
<1>13. CASE CatalogAges \/ UNCHANGED vars
  BY <1>13 DEF CatalogAges, vars, client, service, history, GateInv, AdmittedWasActive
<1> QED BY <1>1, <1>2, <1>3, <1>4, <1>5, <1>6, <1>7, <1>8, <1>9, <1>10, <1>11, <1>12, <1>13
    DEF Next, Operation

\* Whoever is admitted, the license was active at the service since he asked.
THEOREM NobodyPassesOnOldAnswers == Spec => []AdmittedWasActive
<1>1. Init => KnownLicenses
  BY Stateless DEF Init, KnownLicenses
<1>2. Init => GateInv
  BY DEF Init, GateInv, AdmittedWasActive
<1>3. GateInv => AdmittedWasActive
  BY DEF GateInv
<1> QED BY <1>1, <1>2, <1>3, KnownStep, GateStep, TypeInvariant, PTL DEF Spec

-----------------------------------------------------------------------------
(* An activated card is not lost.                                          *)

\* ActivatedIsKept without its leniency towards a request that has not been
\* answered, and the cards of late activations, which have been excused.
KeepInv ==
  /\ \A c \in Cards : card[c] = "activated" /\ c \notin excused =>
       \/ legacy.license = c
       \/ /\ call # NoCall /\ call.request.kind = "activate" /\ call.request.card = c
          /\ call.reply = "ok"
       \/ /\ disk = [license |-> c, token |-> c]
          /\ up = "up" => mem = disk
  /\ \A q \in late : q.kind = "activate" => q.card \in excused

\* A step that changes neither the cards, the disk nor the memory.
LEMMA KeepQuietly ==
  ASSUME TypeInv, KeepInv, UNCHANGED <<up, mem, disk, legacy, card, late>>,
         excused \subseteq excused',
         \A c \in Cards :
           /\ call # NoCall /\ call.request.kind = "activate" /\ call.request.card = c
           /\ call.reply = "ok"
           => \/ c \in excused'
              \/ /\ call' # NoCall /\ call'.request.kind = "activate" /\ call'.request.card = c
                 /\ call'.reply = "ok"
  PROVE  KeepInv'
  BY DEF KeepInv

LEMMA KeepStep == TypeInv /\ KeepInv /\ [Next]_vars => KeepInv'
<1> SUFFICES ASSUME TypeInv, KeepInv, [Next]_vars PROVE KeepInv'
  OBVIOUS
<1> USE DEF TypeInv
<1>0. \A c \in Cards : c # None
  BY ClientAssumption
<1>1. CASE Recover
  <2>1. /\ up = "down" /\ up' # "up" /\ call = NoCall
        /\ UNCHANGED <<legacy, call, card, late>> /\ excused \subseteq excused'
        /\ disk' = disk \/ ~Complete(disk) \/ Filed \subseteq excused'
    BY <1>1 DEF Recover, Copies, Recoverable, service, LockInv
  <2>2. \A c \in Cards : disk = [license |-> c, token |-> c] => Complete(disk) /\ c \in Filed
    BY <1>0 DEF Complete, Filed
  <2> QED BY <2>1, <2>2 DEF KeepInv
<1>2. CASE Load
  <2>1. /\ call = NoCall /\ UNCHANGED <<legacy, call, card, late>> /\ excused \subseteq excused'
        /\ \/ UNCHANGED disk /\ (up' = "up" => mem' = disk)
           \/ Filed \subseteq excused'
    BY <1>2 DEF Load, service, LockInv
  <2>2. \A c \in Cards : disk = [license |-> c, token |-> c] => c \in Filed
    BY <1>0 DEF Filed
  <2> QED BY <2>1, <2>2 DEF KeepInv
<1>3. CASE Crash
  <2>1. /\ excused' = excused \cup Unseen /\ call' = NoCall /\ up' = "down"
        /\ UNCHANGED <<disk, legacy, card>>
        /\ late' = late \/ (call # NoCall /\ late' = late \cup {call.request})
    BY <1>3 DEF Crash, Abandon
  <2> QED BY <2>1 DEF KeepInv, Unseen
<1>4. CASE Serve
  <2>1. /\ call # NoCall /\ call.request \in Request /\ Commit(call.request)
        /\ call.reply = "none" /\ UNCHANGED <<up, mem, disk, legacy, late, excused>>
        /\ call' # NoCall /\ call'.request = call.request
        /\ Accepts(call.request) => call'.reply = "ok"
    <3>1. call \in Call
      BY <1>4, CallShape DEF Serve
    <3>2. (IF Accepts(call.request) THEN "ok" ELSE "refused") \in {"ok", "refused", "unreachable"}
      OBVIOUS
    <3>3. call' # NoCall /\ call'.request = call.request
      BY <1>4, <3>2, AnsweredCall DEF Serve
    <3> QED BY <1>4, <3>1, <3>3 DEF Serve, Call, client, history
  <2>2. ASSUME NEW c \in Cards, card'[c] = "activated", c \notin excused
        PROVE  \/ card[c] = "activated"
               \/ Accepts(call.request) /\ call.request.kind = "activate" /\ call.request.card = c
    BY <2>1, <2>2, CommitShape
  <2> QED BY <2>1, <2>2 DEF KeepInv
<1>5. ASSUME NEW q \in late, ServeLate(q) PROVE KeepInv'
  <2>1. /\ q \in Request /\ Commit(q) /\ late' \subseteq late
        /\ UNCHANGED <<up, mem, disk, legacy, call, excused>>
    BY <1>5 DEF ServeLate, TypeOK, client, history
  <2>2. \A c \in Cards : card'[c] = "activated" /\ c \notin excused => card[c] = "activated"
    BY <2>1, CommitShape DEF KeepInv
  <2> QED BY <2>1, <2>2 DEF KeepInv
<1>6. CASE Unreachable
  <2>1. /\ excused' = excused \cup Unseen /\ UNCHANGED <<up, mem, disk, legacy, card>>
        /\ late' = late \/ (call # NoCall /\ late' = late \cup {call.request})
    BY <1>6 DEF Unreachable, Abandon, client
  <2> QED BY <2>1 DEF KeepInv, Unseen
<1>7. ASSUME NEW w \in Workers, Store(w) PROVE KeepInv'
  <2>1. /\ call # NoCall /\ call.reply = "ok" /\ call' = NoCall /\ up = "up"
        /\ UNCHANGED <<up, legacy, card, late>>
        /\ call.request.kind = "activate" => call.request.card \in Cards
    BY <1>7 DEF Store, Ends, service, LockInv, Replied, Kinds
  <2>2. \/ /\ mem' = Answered(call.request) /\ disk' = mem'
           /\ excused' = excused \cup Replaced(mem')
        \/ /\ UNCHANGED disk
           /\ mem' = Answered(call.request) \/ mem' = [mem EXCEPT !.license = call.request.card]
           /\ excused' = excused \cup Replaced(mem') \cup Unseen
    BY <1>7 DEF Store, Saves, Replied, Kinds
  <2>3. ASSUME NEW c \in Cards, card[c] = "activated", c \notin excused'
        PROVE  legacy.license = c \/ (disk' = [license |-> c, token |-> c] /\ mem' = disk')
    <3>1. CASE call.request.kind = "activate" /\ call.request.card = c
      <4>1. c \in Unseen /\ Answered(call.request) = [license |-> c, token |-> c]
        BY <2>1, <3>1 DEF Unseen, Answered
      <4> QED BY <2>2, <2>3, <4>1
    <3>2. CASE disk = [license |-> c, token |-> c] /\ mem = disk
      <4>1. mem'.license = c
        BY <2>2, <2>3, <3>2, <1>0 DEF Replaced
      <4>2. CASE mem' = Answered(call.request)
        <5>1. mem' = disk
          BY <3>2, <4>1, <4>2 DEF Answered
        <5> QED BY <2>2, <3>2, <5>1
      <4>3. CASE mem' = [mem EXCEPT !.license = call.request.card] /\ UNCHANGED disk
        <5>1. call.request.card = c
          BY <3>2, <4>1, <4>3
        <5> QED BY <3>2, <4>3, <5>1
      <4> QED BY <2>2, <4>2, <4>3
    <3> QED BY <2>1, <2>2, <2>3, <3>1, <3>2 DEF KeepInv
  <2> QED BY <2>1, <2>2, <2>3 DEF KeepInv
<1>8. ASSUME NEW w \in Workers, Fail(w) \/ CheckIncomplete(w) PROVE KeepInv'
  <2>1. /\ up = "up" /\ UNCHANGED <<up, mem, legacy, card, late, excused>>
        /\ disk' \in {mem, disk}
        /\ call # NoCall => call.reply # "ok"
    BY <1>8 DEF Fail, CheckIncomplete, Saves, service, history, LockInv, Replied, Kinds
  <2> QED BY <2>1 DEF KeepInv
<1>9. ASSUME NEW w \in Workers, Reset(w) PROVE KeepInv'
  <2>1. /\ up = "up" /\ call = NoCall /\ mem' = NoState /\ disk' \in {NoState, disk}
        /\ UNCHANGED <<up, legacy, call, card, late>>
        /\ excused' = excused \cup Replaced(NoState)
    BY <1>9 DEF Reset, Saves, service
  <2>2. \A c \in Cards : mem = [license |-> c, token |-> c] => c \in Replaced(NoState)
    BY <1>0, Stateless DEF Replaced
  <2> QED BY <2>1, <2>2 DEF KeepInv
<1>10. ASSUME NEW w \in Workers, LookUp(w) \/ Clear(w) PROVE KeepInv'
  BY <1>10, KeepQuietly DEF LookUp, Clear, client, service, MayLookUp, MayClear
<1>11. ASSUME NEW w \in Workers, Fetch(w) \/ Refreshed(w) PROVE KeepInv'
  <2>1. /\ UNCHANGED <<up, mem, disk, legacy, card, late, excused>>
        /\ call = NoCall \/ call.request.kind = "workflows"
    BY <1>11 DEF Fetch, Refreshed, client, service, MayFetch, Replied
  <2> QED BY <2>1, KeepQuietly
<1>12. ASSUME NEW w \in Workers, NEW kind \in Kinds, NEW c \in Cards \cup {None}, Begin(w, kind, c)
       PROVE  KeepInv'
  <2>1. UNCHANGED <<up, mem, disk, legacy, card, late, excused>> /\ call = NoCall
    BY <1>12 DEF Begin, client, service
  <2> QED BY <2>1, KeepQuietly
<1>13. ASSUME NEW c \in Cards, NEW state \in {"active", "refused"}, AdminSets(c, state)
       PROVE  KeepInv'
  BY <1>13, KeepQuietly DEF AdminSets, client
<1>14. CASE CatalogAges \/ UNCHANGED vars
  BY <1>14, KeepQuietly DEF CatalogAges, vars, client, service, history
<1> QED BY <1>1, <1>2, <1>3, <1>4, <1>5, <1>6, <1>7, <1>8, <1>9, <1>10, <1>11, <1>12, <1>13, <1>14
    DEF Next, Operation

\* A card that was used up is not lost, but by what excuses it.
THEOREM ActivationsAreKept == Spec => []ActivatedIsKept
<1>1. Init => KeepInv
  BY DEF Init, KeepInv
<1>2. KeepInv => ActivatedIsKept
  BY DEF KeepInv, ActivatedIsKept
<1> QED BY <1>1, <1>2, KeepStep, TypeInvariant, PTL DEF Spec

-----------------------------------------------------------------------------
(* The catalog does not survive the license.                               *)

LEMMA CatalogStep == TypeInv /\ CatalogNeedsLicense /\ [Next]_vars => CatalogNeedsLicense'
<1> SUFFICES ASSUME TypeInv, CatalogNeedsLicense, [Next]_vars PROVE CatalogNeedsLicense'
  OBVIOUS
<1> USE DEF TypeInv, CatalogNeedsLicense
<1>1. CASE Recover \/ Load \/ Crash
  <2>1. catalog' = "empty"
    BY <1>1 DEF Recover, Load, Crash, LockInv
  <2> QED BY <2>1
<1>2. ASSUME \/ Serve \/ Unreachable \/ CatalogAges
             \/ \E q \in late : ServeLate(q)
             \/ \E c \in Cards, state \in {"active", "refused"} : AdminSets(c, state)
      PROVE  CatalogNeedsLicense'
  <2>1. /\ UNCHANGED <<up, mem, pc, halfReset>>
        /\ catalog' # "empty" => catalog # "empty"
    BY <1>2 DEF Serve, Unreachable, CatalogAges, ServeLate, AdminSets, client, history
  <2> QED BY <2>1
<1>3. ASSUME NEW w \in Workers, Store(w) PROVE CatalogNeedsLicense'
  <2>1. /\ call # NoCall /\ call.by = w /\ pc[w] = "asking"
        /\ call.request.kind = "activate" => call.request.card # None
    BY <1>3, ClientAssumption DEF Store, LockInv, Replied, Kinds
  <2>2. mem'.license = None => mem.license = None
    BY <1>3, <2>1 DEF Store, Answered, TypeOK, State, Replied, Kinds
  <2>3. \A v \in Workers \ {w} : pc'[v] = pc[v]
    BY <1>3 DEF Store, Ends, TypeOK, Replied, Kinds
  <2>4. UNCHANGED <<up, catalog, halfReset>>
    BY <1>3 DEF Store, Replied, Kinds
  <2> QED BY <2>1, <2>2, <2>3, <2>4
<1>4. ASSUME NEW w \in Workers, Refreshed(w) PROVE CatalogNeedsLicense'
  <2>1. /\ call # NoCall /\ call.by = w /\ pc[w] = "fetching" /\ mem.license # None
    BY <1>4 DEF Refreshed, LockInv, Complete, Replied
  <2>2. UNCHANGED mem
    BY <1>4 DEF Refreshed, client, Replied
  <2> QED BY <2>1, <2>2
<1>5. ASSUME NEW w \in Workers, Fail(w) \/ Fetch(w) \/ LookUp(w) \/ CheckIncomplete(w)
      PROVE  CatalogNeedsLicense'
  <2>1. UNCHANGED <<up, mem, catalog, halfReset>>
    BY <1>5
       DEF Fail, Fetch, LookUp, CheckIncomplete, client, history, Replied, MayFetch, MayLookUp, Kinds
  <2>2. \A v \in Workers : pc[v] = "clearing" => pc'[v] = "clearing"
    BY <1>5
       DEF Fail, Fetch, LookUp, CheckIncomplete, Ends, LockInv, TypeOK, Replied, MayFetch, MayLookUp, Kinds
  <2> QED BY <2>1, <2>2
<1>6. ASSUME NEW w \in Workers, NEW kind \in Kinds, NEW c \in Cards \cup {None}, Begin(w, kind, c)
      PROVE  CatalogNeedsLicense'
  <2>1. /\ UNCHANGED <<up, mem, catalog, halfReset>>
        /\ \A v \in Workers : pc[v] = "clearing" => pc'[v] = "clearing"
    BY <1>6 DEF Begin, client, TypeOK
  <2> QED BY <2>1
<1>7. ASSUME NEW w \in Workers, Reset(w) PROVE CatalogNeedsLicense'
  BY <1>7 DEF Reset, TypeOK
<1>8. ASSUME NEW w \in Workers, Clear(w) PROVE CatalogNeedsLicense'
  BY <1>8 DEF Clear, MayClear
<1>9. CASE UNCHANGED vars
  BY <1>9 DEF vars
<1> QED BY <1>1, <1>2, <1>3, <1>4, <1>5, <1>6, <1>7, <1>8, <1>9 DEF Next, Operation

\* No catalog without a license, but while a reset is at work or has failed.
THEOREM CatalogsNeedLicenses == Spec => []CatalogNeedsLicense
<1>1. Init => CatalogNeedsLicense
  BY DEF Init, CatalogNeedsLicense
<1> QED BY <1>1, CatalogStep, TypeInvariant, PTL DEF Spec

-----------------------------------------------------------------------------
(* Nobody waits in a circle.                                               *)

\* A thread that waits for an answer is the one whose request holds LICENSE.lock.
Waits == \A w \in Workers : pc[w] \in {"asking", "fetching"} => call # NoCall /\ call.by = w

LEMMA WaitsStep == TypeInv /\ Waits /\ [Next]_vars => Waits'
<1> SUFFICES ASSUME TypeInv, Waits, [Next]_vars PROVE Waits'
  OBVIOUS
<1> USE DEF TypeInv
<1>1. CASE Recover \/ Load \/ CatalogAges
  BY <1>1 DEF Recover, Load, CatalogAges, Waits, client
<1>2. CASE Crash
  BY <1>2 DEF Crash, Waits
<1>3. CASE Serve \/ Unreachable
  <2>1. /\ call' # NoCall /\ call'.by = call.by /\ UNCHANGED pc
    <3>1. (IF Accepts(call.request) THEN "ok" ELSE "refused") \in {"ok", "refused", "unreachable"}
      OBVIOUS
    <3> QED BY <1>3, <3>1, AnsweredCall DEF Serve, Unreachable
  <2> QED BY <2>1 DEF Waits
<1>4. ASSUME NEW q \in late, ServeLate(q) PROVE Waits'
  BY <1>4 DEF ServeLate, Waits
<1>5. ASSUME NEW c \in Cards, NEW state \in {"active", "refused"}, AdminSets(c, state) PROVE Waits'
  BY <1>5 DEF AdminSets, Waits
<1>6. ASSUME NEW w \in Workers, Store(w) \/ Fail(w) \/ Refreshed(w) PROVE Waits'
  <2>1. PICK next \in {"idle", "admitted"} : Ends(w, next)
    BY <1>6 DEF Store, Fail, Refreshed
  <2>2. call.by = w
    BY <1>6 DEF Store, Fail, Refreshed, Replied
  <2> QED BY <2>1, <2>2, EndsShape DEF Waits
<1>7. ASSUME NEW w \in Workers, Fetch(w) PROVE Waits'
  <2>1. \A v \in Workers : pc[v] \notin {"asking", "fetching"}
    BY <1>7 DEF Fetch, MayFetch, Waits
  <2>2. CASE Complete(mem)
    <3>1. Ask(w, "workflows", None) /\ pc' = [pc EXCEPT ![w] = "fetching"]
      BY <1>7, <2>2 DEF Fetch
    <3>2. call' # NoCall /\ call'.by = w
      BY <3>1, AskedCall DEF Kinds
    <3> QED BY <2>1, <3>1, <3>2 DEF Waits, TypeOK
  <2>3. CASE ~Complete(mem)
    BY <1>7, <2>1, <2>3, EndsShape DEF Fetch, Waits
  <2> QED BY <2>2, <2>3
<1>8. ASSUME NEW w \in Workers, Operation(w) PROVE Waits'
  <2>1. ASSUME NEW kind \in Kinds, NEW c \in Cards \cup {None}, Begin(w, kind, c) PROVE Waits'
    <3>1. call' # NoCall /\ call'.by = w
      BY <2>1, AskedCall DEF Begin
    <3>2. call = NoCall /\ pc' = [pc EXCEPT ![w] = "asking"]
      BY <2>1 DEF Begin
    <3> QED BY <3>1, <3>2 DEF Waits, TypeOK
  <2>2. CASE CheckIncomplete(w)
    BY <2>2 DEF CheckIncomplete, Waits
  <2>3. CASE LookUp(w)
    BY <2>3 DEF LookUp, Waits, TypeOK
  <2>4. CASE Reset(w)
    BY <2>4 DEF Reset, Waits, TypeOK
  <2> QED BY <1>8, <2>1, <2>2, <2>3, <2>4 DEF Operation
<1>9. ASSUME NEW w \in Workers, Clear(w) PROVE Waits'
  BY <1>9 DEF Clear, Waits, TypeOK
<1>10. CASE UNCHANGED vars
  BY <1>10 DEF vars, Waits
<1> QED BY <1>1, <1>2, <1>3, <1>4, <1>5, <1>6, <1>7, <1>8, <1>9, <1>10 DEF Next

\* While the service is not being waited for, some thread with work can go on: the
\* holder of LICENSE.lock has its answer or, when nobody holds it, the holder of the
\* catalog's lock may take it, and without a holder there is nothing to wait for.
LEMMA SomeoneAdvances == TypeInv /\ Waits => NobodyStuck
<1> SUFFICES ASSUME TypeInv, Waits, NEW w \in Workers, pc[w] # "idle",
                    ~(call # NoCall /\ call.reply = "none")
             PROVE  \E v \in Workers : MayAdvance(v)
  BY DEF NobodyStuck
<1> USE DEF TypeInv
<1>1. CASE call # NoCall
  <2>1. /\ call.by \in Workers /\ call.request.kind \in Kinds
        /\ call.reply \in {"ok", "refused", "unreachable"}
    <3>1. call \in Call
      BY <1>1, CallShape
    <3> QED BY <1>1, <3>1 DEF Call, Request
  <2>2. Replied(call.by, Kinds, {"ok", "refused", "unreachable"})
    BY <1>1, <2>1 DEF Replied
  <2> QED BY <2>1, <2>2 DEF MayAdvance
<1>2. CASE call = NoCall /\ \E v \in Workers : pc[v] = "refreshing"
  BY <1>2 DEF MayAdvance, MayFetch
<1>3. CASE call = NoCall /\ ~\E v \in Workers : pc[v] = "refreshing"
  <2>1. pc[w] \in {"admitted", "clearing"}
    BY <1>3 DEF TypeOK, Waits
  <2>2. catalogLock = None
    BY <1>3 DEF TypeOK, Waits
  <2>3. up = "up"
    BY DEF LockInv, TypeOK
  <2> QED BY <2>1, <2>2, <2>3 DEF MayAdvance, MayClear, MayLookUp
<1> QED BY <1>1, <1>2, <1>3

\* Whatever answers are lost and whoever crashes: no thread that holds a lock or
\* waits for one is left without a way on, but for the wait for the service itself.
THEOREM NobodyIsStuck == Spec => []NobodyStuck
<1>1. Init => Waits
  BY DEF Init, Waits
<1> QED BY <1>1, WaitsStep, SomeoneAdvances, TypeInvariant, PTL DEF Spec
=============================================================================
