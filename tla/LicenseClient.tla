---------------------------- MODULE LicenseClient ----------------------------
(***************************************************************************)
(* The workbench's side of the license (client/license_client.py and the   *)
(* license handlers, the run gate, the workflow catalog and the start-up   *)
(* recovery of client/server.py) against the license service.              *)
(*                                                                         *)
(* LicenseManager holds LICENSE.lock for a whole operation, its request to *)
(* the service included; the catalog has a lock of its own, which a        *)
(* refresh holds while it waits for LICENSE.lock.  The service handles a   *)
(* request in one step (module LicenseServer has the transactions behind   *)
(* it); a license is named by the card that activated it, and so is the    *)
(* token that came with it.                                                *)
(***************************************************************************)
EXTENDS Naturals, FiniteSets

CONSTANTS
  Cards,      \* the cards of this instance
  Workers,    \* the request threads of the workbench
  None,       \* no license, no token, no thread
  MaxLate,    \* bound: requests under way that the client has given up
  Faults      \* which of FaultKinds this instance lets happen

FaultKinds == {"net", "crash", "disk", "read", "dpapi", "admin"}

ASSUME ClientAssumption ==
  /\ None \notin Cards \cup Workers
  /\ MaxLate \in Nat
  /\ Faults \subseteq FaultKinds

VARIABLES
  up,           \* "down", "recovered" (legacy license looked for), "up"
  mem,          \* LICENSE.state: the license and the token of this installation
  disk,         \* license_state.json; a missing or torn file reads as NoState
  legacy,       \* the license state in the previous data root
  pc,           \* what each request thread is doing
  call,         \* the request LICENSE.lock is held for
  catalog,      \* WORKFLOWS: "empty", "fresh" (under 60 s old) or "old"
  catalogLock,  \* the thread that holds _workflow_catalog_lock
  card,         \* the service's cards
  license,      \* the service's licenses, by the card that activated them
  late,         \* requests the client has given up and the service may still get
  excused,      \* history: cards whose license a fault, a reset or a new card took away
  good,         \* history: threads whose gate saw an instant with an active license
  halfReset     \* history: a reset failed to save, so the catalog was not cleared

client  == <<up, mem, disk, legacy>>
service == <<card, license, late>>
history == <<excused, good, halfReset>>
vars == <<up, mem, disk, legacy, pc, call, catalog, catalogLock, card, license,
          late, excused, good, halfReset>>

State   == [license: Cards \cup {None}, token: Cards \cup {None}]
NoState == [license |-> None, token |-> None]
NoCall  == [by |-> None]

Kinds == {"activate", "renew", "check", "gate", "workflows"}
Request == [kind: Kinds, card: Cards \cup {None}, state: State]
Call == [by: Workers, request: Request, reply: {"none", "ok", "refused", "unreachable"}]

\* license_id and refresh_token_protected are both there.
Complete(s) == s.license # None /\ s.token # None

-----------------------------------------------------------------------------
(* The service: POST /api/v1/license/...                                   *)

Authentic(s) ==
  /\ Complete(s)
  /\ s.license = s.token
  /\ license[s.license] = "active"

Accepts(q) ==
  CASE q.kind = "activate" -> card[q.card] = "unused"
    [] q.kind = "renew"    -> Authentic(q.state) /\ card[q.card] = "unused"
    [] OTHER               -> Authentic(q.state)

\* An accepted activation makes a license, a renewal uses the card up.
Commit(q) ==
  CASE Accepts(q) /\ q.kind = "activate" ->
         /\ card' = [card EXCEPT ![q.card] = "activated"]
         /\ license' = [license EXCEPT ![q.card] = "active"]
    [] Accepts(q) /\ q.kind = "renew" ->
         /\ card' = [card EXCEPT ![q.card] = "renewed"]
         /\ UNCHANGED license
    [] OTHER -> UNCHANGED <<card, license>>

Serve ==
  /\ call # NoCall
  /\ call.reply = "none"
  /\ Commit(call.request)
  /\ call' = [call EXCEPT !.reply = IF Accepts(call.request) THEN "ok" ELSE "refused"]
  /\ UNCHANGED <<client, pc, catalog, catalogLock, late, history>>

ServeLate(q) ==
  /\ Commit(q)
  /\ late' = late \ {q}
  /\ UNCHANGED <<client, pc, call, catalog, catalogLock, history>>

\* The thread is at its gate, between the request and the answer.
Gating(w) == call # NoCall /\ call.by = w /\ call.request.kind = "gate"

\* An administrator disables the license of a card and enables it again.
AdminSets(c, state) ==
  /\ "admin" \in Faults
  /\ license[c] \notin {"none", state}
  /\ license' = [license EXCEPT ![c] = state]
  /\ good' = [w \in Workers |->
                good[w] \/ (state = "active" /\ Gating(w) /\ mem.license = c)]
  /\ UNCHANGED <<client, pc, call, catalog, catalogLock, card, late, excused, halfReset>>

\* What the requests under way become when the client gives up: the one that
\* was not served yet is lost or comes late.  Only those that change something
\* at the service are remembered.
Abandon ==
  \/ UNCHANGED late
  \/ /\ call # NoCall
     /\ call.reply = "none"
     /\ call.request.kind \in {"activate", "renew"}
     /\ Cardinality(late) < MaxLate
     /\ late' = late \cup {call.request}

\* The card of an activation whose answer this client will not see.
Unseen == IF call # NoCall /\ call.request.kind = "activate" THEN {call.request.card} ELSE {}

\* The connection fails or times out, before the request has reached the
\* service, while it is still on its way, or after the service has committed.
Unreachable ==
  /\ "net" \in Faults
  /\ call # NoCall
  /\ call.reply # "unreachable"
  /\ call' = [call EXCEPT !.reply = "unreachable"]
  /\ Abandon
  /\ excused' = excused \cup Unseen
  /\ UNCHANGED <<client, pc, catalog, catalogLock, card, license, good, halfReset>>

-----------------------------------------------------------------------------
(* Start-up and crash.                                                     *)

\* Wrong on purpose: whatever license the old root has is copied.
Recoverable_Always == Complete(legacy)

\* _migrate_legacy_install_data copies the old license state where the new root
\* has none, whether or not that root has been migrated before.
Recoverable == Complete(legacy) /\ ~Complete(disk)

\* shutil.copy2 may stop half-way: an error is swallowed and the start goes on,
\* the death of the process leaves a torn file to the next start.
Copies ==
  \/ disk' = legacy /\ up' = "recovered"
  \/ "disk" \in Faults /\ disk' = NoState /\ up' = "recovered"
  \/ "crash" \in Faults /\ disk' = NoState /\ up' = "down"

\* The license in the file, which a start that cannot read it takes away.
Filed == {disk.license} \ {None}

\* A state that cannot be read for a moment counts as one without a license:
\* the new root's is copied over, the old root's is not recovered this time.
Recover ==
  /\ up = "down"
  /\ \/ Recoverable /\ Copies /\ UNCHANGED excused
     \/ "read" \in Faults /\ Complete(legacy) /\ Copies /\ excused' = excused \cup Filed
     \/ /\ ~Recoverable \/ "read" \in Faults
        /\ up' = "recovered"
        /\ UNCHANGED <<disk, excused>>
  /\ UNCHANGED <<mem, legacy, pc, call, catalog, catalogLock, service, good, halfReset>>

\* LicenseManager.__init__; what it adds to a state it has read is not the
\* license.  For one that it cannot read it starts an empty one and saves it
\* over the file.  An error of the save ends the program.
Load ==
  /\ up = "recovered"
  /\ \/ up' = "up" /\ mem' = disk /\ UNCHANGED <<disk, excused>>
     \/ /\ "read" \in Faults
        /\ up' = "up" /\ mem' = NoState /\ disk' = NoState
        /\ excused' = excused \cup Filed
     \/ "disk" \in Faults /\ up' = "down" /\ UNCHANGED <<mem, disk, excused>>
  /\ UNCHANGED <<legacy, pc, call, catalog, catalogLock, service, good, halfReset>>

Crash ==
  /\ "crash" \in Faults
  /\ up # "down"
  /\ up' = "down"
  /\ mem' = NoState
  /\ pc' = [w \in Workers |-> "idle"]
  /\ call' = NoCall
  /\ Abandon
  /\ catalog' = "empty"
  /\ catalogLock' = None
  /\ excused' = excused \cup Unseen
  /\ good' = [w \in Workers |-> FALSE]
  /\ halfReset' = FALSE
  /\ UNCHANGED <<disk, legacy, card, license>>

-----------------------------------------------------------------------------
(* LicenseManager: operations that ask the service.                        *)

Ask(w, kind, c) ==
  call' = [by |-> w, reply |-> "none",
           request |-> [kind |-> kind, card |-> c, state |-> mem]]

\* activate needs no license, renew wants a complete one and check_now and
\* status want one to look at; the rest is answered without a request.
Begin(w, kind, c) ==
  /\ up = "up" /\ pc[w] = "idle" /\ call = NoCall
  /\ \/ kind = "activate"
     \/ kind = "renew" /\ Complete(mem)
     \/ kind \in {"check", "gate"} /\ c = None /\ Complete(mem)
  /\ Ask(w, kind, c)
  /\ pc' = [pc EXCEPT ![w] = "asking"]
  /\ good' = [good EXCEPT ![w] = kind = "gate" /\ license[mem.license] = "active"]
  /\ UNCHANGED <<client, catalog, catalogLock, service, excused, halfReset>>

\* _save_state: a temporary file and os.replace, so the old file or the new one.
Saves(s) == disk' = s

\* _auth_payload refuses a license without its token; check_now and status save
\* the error, and with it what an activation left in memory.
CheckIncomplete(w) ==
  /\ up = "up" /\ pc[w] = "idle" /\ call = NoCall
  /\ mem.license # None /\ mem.token = None
  /\ Saves(mem)
  /\ UNCHANGED <<up, mem, legacy, pc, call, catalog, catalogLock, service, history>>

\* The request of thread w, of one of these kinds, has been answered like that.
Replied(w, kinds, replies) ==
  /\ call # NoCall /\ call.by = w
  /\ call.request.kind \in kinds /\ call.reply \in replies

Ends(w, next) ==
  /\ call' = NoCall
  /\ pc' = [pc EXCEPT ![w] = next]
  /\ good' = [good EXCEPT ![w] = good[w] /\ next = "admitted"]

\* The cards whose license leaves memory when s takes its place.
Replaced(s) == {mem.license} \ {None, s.license}

\* The state _store_response makes of the answer to q: only an activation
\* brings a license and a token, the others confirm the license they name.
Answered(q) ==
  IF q.kind = "activate" THEN [license |-> q.card, token |-> q.card] ELSE mem

\* activate, renew, check_now and status with an accepted request.  The license
\* is stored before its token is encrypted, and saved after both; an error of
\* either leaves memory changed, the file as it was, and fails the operation.
Store(w) ==
  /\ Replied(w, Kinds \ {"workflows"}, {"ok"})
  /\ LET q == call.request IN
     \/ /\ mem' = Answered(q)
        /\ Saves(Answered(q))
        /\ Ends(w, IF q.kind = "gate" THEN "admitted" ELSE "idle")
        /\ excused' = excused \cup Replaced(Answered(q))
     \/ /\ "disk" \in Faults
        /\ mem' = Answered(q)
        /\ UNCHANGED disk
        /\ Ends(w, "idle")
        /\ excused' = excused \cup Replaced(Answered(q)) \cup Unseen
     \/ /\ "dpapi" \in Faults /\ q.kind = "activate"
        /\ mem' = [mem EXCEPT !.license = q.card]
        /\ UNCHANGED disk
        /\ Ends(w, "idle")
        /\ excused' = excused \cup Replaced(mem') \cup Unseen
  /\ UNCHANGED <<up, legacy, catalog, catalogLock, service, halfReset>>

\* Wrong on purpose: a service that does not answer is as good as a yes.
Admits_Offline(reply) == reply # "refused"

\* status reports "active" for an accepted check only; no offline grace.
Admits(reply) == reply = "ok"

\* A refusal and a dead connection: activate and renew raise, check_now and
\* status keep the error in the state and save it.
Fail(w) ==
  /\ Replied(w, Kinds \ {"workflows"}, {"refused", "unreachable"})
  /\ \/ call.request.kind \in {"check", "gate"} /\ Saves(mem)
     \/ call.request.kind \in {"check", "gate"} /\ "disk" \in Faults /\ UNCHANGED disk
     \/ call.request.kind \in {"activate", "renew"} /\ UNCHANGED disk
  /\ Ends(w, IF call.request.kind = "gate" /\ Admits(call.reply) THEN "admitted" ELSE "idle")
  /\ UNCHANGED <<up, mem, legacy, catalog, catalogLock, service, excused, halfReset>>

-----------------------------------------------------------------------------
(* The workflow catalog.                                                   *)

\* _refresh_workflow_catalog, called by the run handlers after their gate and by
\* the dispatcher and the page without one: a catalog under 60 s old will do.
MayLookUp(w) == up = "up" /\ pc[w] \in {"idle", "admitted"} /\ catalogLock = None

LookUp(w) ==
  /\ MayLookUp(w)
  /\ IF catalog = "fresh"
     THEN /\ pc' = [pc EXCEPT ![w] = "idle"]
          /\ UNCHANGED catalogLock
     ELSE /\ pc' = [pc EXCEPT ![w] = "refreshing"]
          /\ catalogLock' = w
  /\ good' = [good EXCEPT ![w] = FALSE]
  /\ UNCHANGED <<client, call, catalog, service, excused, halfReset>>

\* A refresh takes LICENSE.lock while it holds the catalog's.
MayFetch(w) == pc[w] = "refreshing" /\ call = NoCall

\* Wrong on purpose: the lock stays taken when there is nothing to ask with.
Fetch_KeepsLock(w) ==
  /\ MayFetch(w)
  /\ IF Complete(mem)
     THEN /\ Ask(w, "workflows", None)
          /\ pc' = [pc EXCEPT ![w] = "fetching"]
          /\ UNCHANGED good
     ELSE /\ Ends(w, "idle")
  /\ UNCHANGED <<client, catalog, catalogLock, service, excused, halfReset>>

\* fetch_workflows, once LICENSE.lock is free.
Fetch(w) ==
  /\ MayFetch(w)
  /\ IF Complete(mem)
     THEN /\ Ask(w, "workflows", None)
          /\ pc' = [pc EXCEPT ![w] = "fetching"]
          /\ UNCHANGED <<catalogLock, good>>
     ELSE /\ Ends(w, "idle")
          /\ catalogLock' = None
  /\ UNCHANGED <<client, catalog, service, excused, halfReset>>

\* A catalog replaces the old one; otherwise the old one stays, and is used
\* further when the service could not be reached.
Refreshed(w) ==
  /\ Replied(w, {"workflows"}, {"ok", "refused", "unreachable"})
  /\ catalog' = IF call.reply = "ok" THEN "fresh" ELSE catalog
  /\ catalogLock' = None
  /\ Ends(w, "idle")
  /\ UNCHANGED <<client, service, excused, halfReset>>

\* Sixty seconds pass.
CatalogAges ==
  /\ catalog = "fresh"
  /\ catalog' = "old"
  /\ UNCHANGED <<client, pc, call, catalogLock, service, history>>

\* Wrong on purpose: the reset empties the catalog first and then the state.
Reset_CatalogFirst(w) ==
  /\ up = "up" /\ pc[w] \in {"idle", "clearing"} /\ call = NoCall
  /\ IF pc[w] = "idle"
     THEN /\ catalogLock = None
          /\ catalog' = "empty"
          /\ pc' = [pc EXCEPT ![w] = "clearing"]
          /\ UNCHANGED <<mem, disk, excused>>
     ELSE /\ mem' = NoState
          /\ Saves(NoState)
          /\ pc' = [pc EXCEPT ![w] = "idle"]
          /\ excused' = excused \cup Replaced(NoState)
          /\ UNCHANGED catalog
  /\ UNCHANGED <<up, legacy, call, catalogLock, service, good, halfReset>>

\* POST /api/license/reset: first LICENSE.reset(), which forgets the license
\* before it saves; an error of the save leaves the catalog as it is.
Reset(w) ==
  /\ up = "up" /\ pc[w] = "idle" /\ call = NoCall
  /\ mem' = NoState
  /\ \/ Saves(NoState) /\ pc' = [pc EXCEPT ![w] = "clearing"] /\ UNCHANGED halfReset
     \/ "disk" \in Faults /\ halfReset' = TRUE /\ UNCHANGED <<disk, pc>>
  /\ excused' = excused \cup Replaced(NoState)
  /\ UNCHANGED <<up, legacy, call, catalog, catalogLock, service, good>>

\* and then _clear_workflow_catalog().
MayClear(w) == pc[w] = "clearing" /\ catalogLock = None

Clear(w) ==
  /\ MayClear(w)
  /\ catalog' = "empty"
  /\ halfReset' = FALSE
  /\ pc' = [pc EXCEPT ![w] = "idle"]
  /\ UNCHANGED <<client, call, catalogLock, service, excused, good>>

-----------------------------------------------------------------------------
\* A new installation, beside an old data root with a license or without.
Init ==
  /\ up = "down"
  /\ mem = NoState
  /\ disk = NoState
  /\ legacy \in {NoState} \cup [license: Cards, token: Cards]
  /\ legacy.license = legacy.token
  /\ pc = [w \in Workers |-> "idle"]
  /\ call = NoCall
  /\ catalog = "empty"
  /\ catalogLock = None
  /\ card = [c \in Cards |-> IF legacy.license = c THEN "activated" ELSE "unused"]
  /\ license = [c \in Cards |-> IF legacy.license = c THEN "active" ELSE "none"]
  /\ late = {}
  /\ excused = {}
  /\ good = [w \in Workers |-> FALSE]
  /\ halfReset = FALSE

Operation(w) ==
  \/ \E kind \in Kinds, c \in Cards \cup {None} :
       /\ kind \in {"activate", "renew"} <=> c # None
       /\ Begin(w, kind, c)
  \/ CheckIncomplete(w)
  \/ LookUp(w)
  \/ Reset(w)

Next ==
  \/ Recover
  \/ Load
  \/ Crash
  \/ Serve
  \/ \E q \in late : ServeLate(q)
  \/ Unreachable
  \/ \E c \in Cards, state \in {"active", "refused"} : AdminSets(c, state)
  \/ CatalogAges
  \/ \E w \in Workers : Operation(w)
  \/ \E w \in Workers : Store(w)
  \/ \E w \in Workers : Fail(w)
  \/ \E w \in Workers : Fetch(w)
  \/ \E w \in Workers : Refreshed(w)
  \/ \E w \in Workers : Clear(w)

Spec == Init /\ [][Next]_vars

-----------------------------------------------------------------------------
(* What the client promises.                                               *)

\* Types, and who holds which lock: a request is one of the thread that asked
\* for it, and the catalog lock belongs to a thread that is refreshing.
TypeOK ==
  /\ up \in {"down", "recovered", "up"}
  /\ mem \in State /\ disk \in State /\ legacy \in State
  /\ pc \in [Workers -> {"idle", "asking", "admitted", "refreshing", "fetching", "clearing"}]
  /\ call \in Call \cup {NoCall}
  /\ call # NoCall => pc[call.by] \in {"asking", "fetching"}
  /\ catalog \in {"empty", "fresh", "old"}
  /\ catalogLock \in Workers \cup {None}
  /\ \A w \in Workers : catalogLock = w <=> pc[w] \in {"refreshing", "fetching"}
  /\ card \in [Cards -> {"unused", "activated", "renewed"}]
  /\ license \in [Cards -> {"none", "active", "refused"}]
  /\ late \in SUBSET Request
  /\ excused \in SUBSET Cards
  /\ good \in [Workers -> BOOLEAN]
  /\ halfReset \in BOOLEAN

\* A card that was used up to activate a license is not lost: its license is
\* on disk with the token it came with, and in memory while the program runs,
\* or in the old data root the next start recovers it from.  Only what excused
\* lists can take it away: an answer that was lost, an error while it was
\* stored, a reset, a newer card, a start that could not read the file; never a
\* crash, any other start, a check or a refusal.
ActivatedIsKept ==
  \A c \in Cards : card[c] = "activated" /\ c \notin excused =>
    \/ legacy.license = c
    \/ call # NoCall /\ call.request.kind = "activate" /\ call.request.card = c
    \/ /\ disk = [license |-> c, token |-> c]
       /\ up = "up" => mem = disk

\* No run passes the gate on an old answer: whoever is admitted, the license
\* was active at the service at some instant since its request came in.
AdmittedWasActive ==
  \A w \in Workers : pc[w] = "admitted" => good[w]

\* The catalog does not survive the license: one without the other exists only
\* while the reset that forgot the license is about to clear the catalog, or
\* after one that failed to save and so left it, even when a refresh was under way at that time.
CatalogNeedsLicense ==
  ~halfReset /\ up = "up" /\ catalog # "empty" /\ mem.license = None =>
    \E w \in Workers : pc[w] = "clearing"

\* A thread that holds a lock or waits for one can go on: the guard of Store, Fail
\* or Refreshed, of Fetch, of Clear, or of the LookUp after the gate, none of which
\* asks for more than its guard.
MayAdvance(w) ==
  \/ Replied(w, Kinds, {"ok", "refused", "unreachable"})
  \/ MayFetch(w) \/ MayClear(w)
  \/ pc[w] = "admitted" /\ MayLookUp(w)

\* Nobody waits in a circle: a refresh takes LICENSE.lock while it holds the
\* catalog's lock, a reset takes one after the other, and every way out of
\* either lets it go; so while a request is open, the service is being waited
\* for or some thread can go on.
NobodyStuck ==
  (\E w \in Workers : pc[w] # "idle") =>
    \/ call # NoCall /\ call.reply = "none"
    \/ \E w \in Workers : MayAdvance(w)
=============================================================================
