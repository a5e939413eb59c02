---------------------------- MODULE LicenseServer ----------------------------
(***************************************************************************)
(* The license service (server/app/services.py, routers/public.py,         *)
(* routers/admin.py): activation cards, licenses, bound devices, refresh   *)
(* tokens and rebind codes in MySQL, changed by requests that run          *)
(* concurrently in threads, each in one database transaction.              *)
(*                                                                         *)
(* build_engine sets no isolation level, so InnoDB's REPEATABLE READ       *)
(* holds: the first plain SELECT of a transaction fixes a snapshot for all *)
(* later ones, SELECT ... FOR UPDATE waits for the row's lock and reads    *)
(* what is committed, and the UPDATEs of the final commit go to the        *)
(* current rows.  SQLAlchemy writes the columns whose value the handler    *)
(* changed and no others.  Hence a transaction keeps the rows as it loaded *)
(* them and the rows as it wants them ("loaded" and "work"), and its       *)
(* commit applies the difference to the database ("Flushed").              *)
(***************************************************************************)
EXTENDS Integers, FiniteSets

CONSTANTS
  Cards,       \* activation cards
  Codes,       \* rebind codes
  Licenses,    \* license ids new_id() may give out
  Machines,    \* machine_hash values
  Clients,     \* server threads that serve the license API
  Admins,      \* server threads that serve the admin API
  NoLicense,   \* license_id IS NULL
  Days,        \* duration_days of a card, 0 for a permanent one
  Limit,       \* device_limit of a card
  CodeLife,    \* life of a rebind code (24 hours)
  Requests,    \* which of RequestKinds this instance lets happen
  MaxClock,    \* bound: how far time runs
  MaxExpiry    \* bound: how far administrators extend a license

RequestKinds ==
  {"activate", "rebind", "check", "renew", "generate", "disable card",
   "enable card", "void card", "disable", "enable", "set_permanent", "extend",
   "rebind-code", "unbind"}

ASSUME LicenseAssumption ==
  /\ NoLicense \notin Licenses
  /\ Clients \cap Admins = {}
  /\ Cards \cap Codes = {}
  /\ Days \in [Cards -> Nat]
  /\ Limit \in [Cards -> Nat \ {0}]
  /\ CodeLife \in Nat \ {0}
  /\ Requests \subseteq RequestKinds
  /\ MaxClock \in Nat
  /\ MaxExpiry \in Nat
  /\ IsFiniteSet(Codes) /\ IsFiniteSet(Machines)

VARIABLES
  db,      \* the committed rows of the five tables
  tx,      \* the transaction each server thread is in
  clock,   \* utcnow()
  uses,    \* history: how often a card or code has been consumed by a commit
  reissued,   \* history: the cards an "enable" made unused after they had been bought
  mostOpen,   \* history: the most unused rebind codes a license has had at one time
  overruled   \* history: the licenses whose date was last set by an administrator

history == <<uses, reissued, mostOpen, overruled>>
vars    == <<db, tx, clock, history>>

Threads == Clients \cup Admins
Devices == Licenses \X Machines  \* a device row, unique by its index
Keys    == Cards \cup Codes
Never   == -1                    \* expires_at IS NULL

CardStatuses    == {"absent", "unused", "used", "disabled", "void"}
LicenseStatuses == {"absent", "active", "disabled", "expired"}
DeviceStatuses  == {"absent", "active", "revoked"}
TokenStatuses   == {"absent", "valid", "revoked"}

CardRow    == [status: CardStatuses, license: Licenses \cup {NoLicense}]
LicenseRow == [status: LicenseStatuses, expires: Nat \cup {Never},
               permanent: BOOLEAN, limit: Nat]
CodeRow    == [exists: BOOLEAN, license: Licenses \cup {NoLicense},
               used: BOOLEAN, until: Nat]
Tables ==
  [card: [Cards -> CardRow], license: [Licenses -> LicenseRow],
   device: [Devices -> DeviceStatuses], token: [Devices -> TokenStatuses],
   code: [Codes -> CodeRow]]

Rows == ({"card"} \X Cards) \cup ({"license"} \X Licenses) \cup ({"code"} \X Codes)
          \cup ({"device"} \X Devices) \cup ({"token"} \X Devices)

Idle == [pc |-> "idle"]
Transaction ==
  [pc: {"authenticated", "ready"}, kind: RequestKinds, machine: Machines \cup {"admin"},
   license: Licenses \cup {NoLicense}, consumes: SUBSET Keys, locks: SUBSET Rows,
   loaded: Tables, work: Tables]

-----------------------------------------------------------------------------
(* Rows, columns and locks.                                                *)

\* A wrong variant: every column of a changed row is written, changed or not.
Columns_All(old, new, stored) == IF new = old THEN stored ELSE new

\* The columns an UPDATE writes: those the handler has changed.
Columns(old, new, stored) ==
  [f \in DOMAIN stored |-> IF new[f] # old[f] THEN new[f] ELSE stored[f]]

\* The tables after the statements of a commit.
Flushed(old, new, stored) ==
  [card    |-> [c \in Cards |-> Columns(old.card[c], new.card[c], stored.card[c])],
   license |-> [l \in Licenses |-> Columns(old.license[l], new.license[l], stored.license[l])],
   device  |-> Columns(old.device, new.device, stored.device),
   token   |-> Columns(old.token, new.token, stored.token),
   code    |-> [r \in Codes |-> Columns(old.code[r], new.code[r], stored.code[r])]]

\* The rows a transaction's commit writes.
Written(old, new) ==
  {<<"card", c>> : c \in {x \in Cards : new.card[x] # old.card[x]}}
    \cup {<<"license", l>> : l \in {x \in Licenses : new.license[x] # old.license[x]}}
    \cup {<<"code", r>> : r \in {x \in Codes : new.code[x] # old.code[x]}}
    \cup {<<"device", d>> : d \in {x \in Devices : new.device[x] # old.device[x]}}
    \cup {<<"token", d>> : d \in {x \in Devices : new.token[x] # old.token[x]}}

\* Tables with no rows, as at installation.
NoTables ==
  [card    |-> [c \in Cards |-> [status |-> "absent", license |-> NoLicense]],
   license |-> [l \in Licenses |-> [status |-> "absent", expires |-> Never,
                                    permanent |-> FALSE, limit |-> 0]],
   device  |-> [d \in Devices |-> "absent"],
   token   |-> [d \in Devices |-> "absent"],
   code    |-> [r \in Codes |-> [exists |-> FALSE, license |-> NoLicense,
                                 used |-> FALSE, until |-> 0]]]

\* The tables reduced to some rows, the others blank.
Only(view, rows) ==
  [card    |-> [c \in Cards |-> IF <<"card", c>> \in rows THEN view.card[c] ELSE NoTables.card[c]],
   license |-> [l \in Licenses |-> IF <<"license", l>> \in rows THEN view.license[l]
                                   ELSE NoTables.license[l]],
   device  |-> [d \in Devices |-> IF <<"device", d>> \in rows THEN view.device[d] ELSE "absent"],
   token   |-> [d \in Devices |-> IF <<"token", d>> \in rows THEN view.token[d] ELSE "absent"],
   code    |-> [r \in Codes |-> IF <<"code", r>> \in rows THEN view.code[r] ELSE NoTables.code[r]]]

\* The rows other transactions hold.
LockedByOthers(t) ==
  UNION {tx[u].locks : u \in {x \in Threads \ {t} : tx[x].pc # "idle"}}

CanLock(t, rows) == rows \cap LockedByOthers(t) = {}

\* Wrong variants: the SELECT lacks its FOR UPDATE.
CardLock_Missing(c)  == {}
CodeLock_Missing(r)  == {}
TokenLock_Missing(d) == {}

\* The rows locked by the SELECT ... FOR UPDATE of a card, a code, a token.
CardLock(c)  == {<<"card", c>>}
CodeLock(r)  == {<<"code", r>>}
TokenLock(d) == {<<"token", d>>}

-----------------------------------------------------------------------------
(* What the handlers compute.                                              *)

Unexpired(row) == row.expires = Never \/ row.expires > clock

\* _ensure_usable_license lets a request pass.
Usable(row) == row.status # "disabled" /\ Unexpired(row)

\* A license that is in force gets its status back, another one is expired.
Restored(row) ==
  [row EXCEPT !.status = IF Unexpired(row) THEN "active" ELSE "expired"]

\* The license after a renewal with a card of so many days.
Renewed(row, days) ==
  IF days = 0
  THEN [row EXCEPT !.expires = Never, !.permanent = TRUE, !.status = "active"]
  ELSE [row EXCEPT !.expires = (IF row.expires > clock THEN row.expires ELSE clock) + days,
                   !.status = "active"]

\* The tables with every device and token of a license revoked.
Revoked(view, l) ==
  [view EXCEPT
    !.device = [d \in Devices |-> IF d[1] = l /\ view.device[d] # "absent"
                                  THEN "revoked" ELSE view.device[d]],
    !.token  = [d \in Devices |-> IF d[1] = l /\ view.token[d] # "absent"
                                  THEN "revoked" ELSE view.token[d]]]

ActiveDevices(view, l) == {m \in Machines : view.device[<<l, m>>] = "active"}

\* The rebind codes of a license that wait to be used.
OpenCodes(view, l) ==
  {r \in Codes : view.code[r].exists /\ ~view.code[r].used /\ view.code[r].license = l}

\* _bind_device finds room for one more device.
HasRoom(view, l) ==
  Cardinality(ActiveDevices(view, l)) < view.license[l].limit

\* The tables with a new device and its refresh token.
Bound(view, d) ==
  [view EXCEPT !.device[d] = "active", !.token[d] = "valid"]

\* A wrong variant: used_at stays empty.
Spent_Forgets(view, r) == view

\* A rebind code used up.
Spent(view, r) == [view EXCEPT !.code[r].used = TRUE]

\* A card consumed by a license.
Consumed(view, c, l) ==
  [view EXCEPT !.card[c] = [status |-> "used", license |-> l]]

-----------------------------------------------------------------------------
(* Requests.  One that is refused changes nothing: the session is closed    *)
(* and rolled back.                                                        *)

\* Thread t goes on in a transaction, with the rows it has locked and read; it
\* keeps those that it will write, and before that the license it decides by.
Goes(t, pc, kind, m, l, keys, locks, loaded, work) ==
  LET rows == IF pc = "authenticated" THEN {<<"license", l>>} ELSE Written(loaded, work) IN
  tx' = [tx EXCEPT ![t] =
          [pc |-> pc, kind |-> kind, machine |-> m, license |-> l,
           consumes |-> keys, locks |-> locks,
           loaded |-> Only(loaded, rows), work |-> Only(work, rows)]]

Starts(t, kind) == tx[t].pc = "idle" /\ kind \in Requests

\* License ids no row and no running transaction has.
FreshLicenses ==
  {l \in Licenses : /\ db.license[l].status = "absent"
                    /\ \A t \in Threads : tx[t].pc # "idle" => tx[t].license # l}

\* POST /activate with a card: it is locked, and must be unused.
ActivateCard(t, c, m) ==
  /\ Starts(t, "activate")
  /\ CanLock(t, CardLock(c))
  /\ db.card[c].status = "unused"
  /\ \E l \in FreshLicenses :
       LET row  == [status |-> "active", limit |-> Limit[c], permanent |-> Days[c] = 0,
                    expires |-> IF Days[c] = 0 THEN Never ELSE clock + Days[c]]
           view == [db EXCEPT !.license[l] = row]
       IN  /\ HasRoom(view, l)
           /\ Goes(t, "ready", "activate", m, l, {c}, CardLock(c), db,
                   Consumed(Bound(view, <<l, m>>), c, l))
  /\ UNCHANGED <<db, clock, history>>

\* POST /activate with a rebind code: the code is locked, the license, its
\* devices and tokens are read from the snapshot.  The index of the devices
\* refuses a machine the license has had before.
ActivateCode(t, r, m) ==
  LET l    == db.code[r].license
      view == Revoked(db, l)
  IN  /\ Starts(t, "rebind")
      /\ CanLock(t, CodeLock(r))
      /\ db.code[r].exists /\ ~db.code[r].used /\ db.code[r].until > clock
      /\ Usable(db.license[l])
      /\ HasRoom(view, l)
      /\ db.device[<<l, m>>] = "absent"
      /\ Goes(t, "ready", "rebind", m, l, {r}, CodeLock(r), db, Spent(Bound(view, <<l, m>>), r))
      /\ UNCHANGED <<db, clock, history>>

\* authenticate_device: the token is locked, device and license are read.
Authenticate(t, d, kind, pc) ==
  /\ Starts(t, kind)
  /\ CanLock(t, TokenLock(d))
  /\ db.token[d] = "valid"
  /\ db.device[d] = "active"
  /\ Usable(db.license[d[1]])
  /\ Goes(t, pc, kind, d[2], d[1], {}, TokenLock(d), db, db)
  /\ UNCHANGED <<db, clock, history>>

\* POST /check and POST /workflows.
Check(t, d) == Authenticate(t, d, "check", "ready")

\* POST /renew, first half.
Renew(t, d) == Authenticate(t, d, "renew", "authenticated")

\* POST /renew, second half: the card is locked and read, the license is the
\* one of the snapshot.
RenewCard(t, c) ==
  /\ tx[t].pc = "authenticated"
  /\ CanLock(t, CardLock(c))
  /\ db.card[c].status = "unused"
  /\ LET l      == tx[t].license
         loaded == [tx[t].loaded EXCEPT !.card[c] = db.card[c]]
     IN  Goes(t, "ready", "renew", tx[t].machine, l, {c}, tx[t].locks \cup CardLock(c), loaded,
              [Consumed(loaded, c, l) EXCEPT !.license[l] = Renewed(loaded.license[l], Days[c])])
  /\ UNCHANGED <<db, clock, history>>

-----------------------------------------------------------------------------
(* The administrators' requests.  get_current_admin has fixed the snapshot. *)

Administers(t, kind, l, locks, work) ==
  /\ Starts(t, kind)
  /\ Goes(t, "ready", kind, "admin", l, {}, locks, db, work)
  /\ UNCHANGED <<db, clock, history>>

\* POST /cards/generate.
Generate(t, batch) ==
  /\ batch # {}
  /\ \A c \in batch : db.card[c].status = "absent"
  /\ Administers(t, "generate", NoLicense, {},
       [db EXCEPT !.card = [c \in Cards |->
          IF c \in batch THEN [status |-> "unused", license |-> NoLicense] ELSE db.card[c]]])

\* The status of a disabled card.
DisabledStatus == "disabled"

\* PATCH /cards/<id> "disable": the license the card is bound to goes with it.
DisableCard(t, c) ==
  LET l == db.card[c].license
      view == [db EXCEPT !.card[c].status = DisabledStatus]
  IN  /\ db.card[c].status \in {"unused", "used"}
      /\ Administers(t, "disable card", l, {},
           IF l = NoLicense THEN view ELSE [view EXCEPT !.license[l].status = "disabled"])

\* PATCH /cards/<id> "enable": back to used or unused, and the license with it.
EnableCard(t, c) ==
  LET l == db.card[c].license
      view == [db EXCEPT !.card[c].status = IF l = NoLicense THEN "unused" ELSE "used"]
  IN  /\ db.card[c].status = "disabled"
      /\ Administers(t, "enable card", l, {},
           IF l = NoLicense THEN view ELSE [view EXCEPT !.license[l] = Restored(db.license[l])])

\* PATCH /cards/<id> "void".
VoidCard(t, c) ==
  /\ db.card[c].status \in {"unused", "disabled"}
  /\ Administers(t, "void card", NoLicense, {}, [db EXCEPT !.card[c].status = "void"])

\* POST /licenses/<id>/action: the license is locked and read.
LicenseAction(t, l, kind, row) ==
  /\ db.license[l].status # "absent"
  /\ CanLock(t, {<<"license", l>>})
  /\ Administers(t, kind, l, {<<"license", l>>}, [db EXCEPT !.license[l] = row])

DisableLicense(t, l) == LicenseAction(t, l, "disable", [db.license[l] EXCEPT !.status = "disabled"])
EnableLicense(t, l)  == LicenseAction(t, l, "enable", Restored(db.license[l]))
SetPermanent(t, l)   ==
  LicenseAction(t, l, "set_permanent",
    [db.license[l] EXCEPT !.status = "active", !.permanent = TRUE, !.expires = Never])
Extend(t, l, days)   ==
  LET base == IF db.license[l].expires > clock THEN db.license[l].expires ELSE clock IN
  /\ base + days <= MaxExpiry
  /\ LicenseAction(t, l, "extend",
       [db.license[l] EXCEPT !.status = "active", !.expires = base + days])

\* POST /licenses/<id>/rebind-code.
CreateCode(t, r, l) ==
  /\ db.license[l].status # "absent"
  /\ ~db.code[r].exists
  /\ Administers(t, "rebind-code", l, {},
       [db EXCEPT !.code[r] = [exists |-> TRUE, license |-> l, used |-> FALSE,
                               until |-> clock + CodeLife]])

\* The tables with one device and its tokens revoked.
Unbound(view, d) == [view EXCEPT !.device[d] = "revoked", !.token[d] = "revoked"]

\* POST /devices/<id>/unbind.
Unbind(t, d) ==
  /\ db.device[d] # "absent"
  /\ Administers(t, "unbind", d[1], {}, Unbound(db, d))

-----------------------------------------------------------------------------
(* The end of a transaction.                                               *)

\* An INSERT hits a row that another transaction has inserted since.
Collides(t) ==
  \/ \E d \in Devices : /\ tx[t].loaded.device[d] = "absent" /\ db.device[d] # "absent"
                        /\ tx[t].work.device[d] # "absent"
  \/ \E c \in Cards : /\ tx[t].loaded.card[c].status = "absent" /\ db.card[c].status # "absent"
                      /\ tx[t].work.card[c].status # "absent"
  \/ \E r \in Codes : /\ ~tx[t].loaded.code[r].exists /\ db.code[r].exists
                      /\ tx[t].work.code[r].exists

\* db.commit(): the changed columns of the changed rows, once nobody else
\* holds them.
Commit(t) ==
  /\ tx[t].pc = "ready"
  /\ CanLock(t, Written(tx[t].loaded, tx[t].work))
  /\ ~Collides(t)
  /\ db' = Flushed(tx[t].loaded, tx[t].work, db)
  /\ tx' = [tx EXCEPT ![t] = Idle]
  /\ uses' = [k \in Keys |-> uses[k] + (IF k \in tx[t].consumes THEN 1 ELSE 0)]
  /\ reissued' = reissued \cup
       {c \in Cards : /\ db.card[c].license # NoLicense
                      /\ db.card[c].status # "unused" /\ db'.card[c].status = "unused"}
  /\ mostOpen' = [l \in Licenses |->
       LET open == Cardinality(OpenCodes(db', l))
       IN  IF open > mostOpen[l] THEN open ELSE mostOpen[l]]
  /\ overruled' =
       {l \in Licenses : IF db'.license[l].expires # db.license[l].expires
                         THEN t \in Admins ELSE l \in overruled}
  /\ UNCHANGED clock

\* A refused card, an IntegrityError, a deadlock victim, a lock wait timeout or
\* a lost connection: the session is closed and everything is rolled back.
Abort(t) ==
  /\ tx[t].pc # "idle"
  /\ tx' = [tx EXCEPT ![t] = Idle]
  /\ UNCHANGED <<db, clock, history>>

Tick ==
  /\ clock < MaxClock
  /\ clock' = clock + 1
  /\ UNCHANGED <<db, tx, history>>

-----------------------------------------------------------------------------
Init ==
  /\ db = NoTables
  /\ tx = [t \in Threads |-> Idle]
  /\ clock = 0
  /\ uses = [k \in Keys |-> 0]
  /\ reissued = {}
  /\ mostOpen = [l \in Licenses |-> 0]
  /\ overruled = {}

ClientStep(t) ==
  \/ \E m \in Machines : \/ \E c \in Cards : ActivateCard(t, c, m)
                         \/ \E r \in Codes : ActivateCode(t, r, m)
  \/ \E d \in Devices : Check(t, d) \/ Renew(t, d)
  \/ \E c \in Cards : RenewCard(t, c)

AdminStep(t) ==
  \/ \E batch \in SUBSET Cards : Generate(t, batch)
  \/ \E c \in Cards : DisableCard(t, c) \/ EnableCard(t, c) \/ VoidCard(t, c)
  \/ \E l \in Licenses : \/ DisableLicense(t, l) \/ EnableLicense(t, l)
                         \/ SetPermanent(t, l) \/ Extend(t, l, 1)
                         \/ \E r \in Codes : CreateCode(t, r, l)
  \/ \E d \in Devices : Unbind(t, d)

Next ==
  \/ \E t \in Clients : ClientStep(t)
  \/ \E t \in Admins : AdminStep(t)
  \/ \E t \in Threads : Commit(t) \/ Abort(t)
  \/ Tick

Spec == Init /\ [][Next]_vars

-----------------------------------------------------------------------------
(* Properties.                                                             *)

\* Every row keeps the statuses its model class declares, in every transaction.
TypeOK ==
  /\ db \in Tables
  /\ tx \in [Threads -> {Idle} \cup Transaction]
  /\ clock \in 0..MaxClock
  /\ uses \in [Keys -> Nat]
  /\ reissued \subseteq Cards
  /\ mostOpen \in [Licenses -> Nat]
  /\ overruled \subseteq Licenses

\* A card buys one thing: no two commits, of activations or renewals, consume
\* it ("one card, one use"), because it is read under its row lock.  The one way
\* round it is an administrator's "enable" that had read the card before it was
\* bought, in two overlapping requests, and makes it unused again.
CardUsedOnce == \A c \in Cards \ reissued : uses[c] <= 1

\* A rebind code binds one device.
CodeUsedOnce == \A r \in Codes : uses[r] <= 1

\* A license never has more active devices than its card allows: _bind_device
\* counts them.  The count is of a snapshot and the row of the license is not
\* locked; what holds two bindings apart is the row of their rebind code.  So a
\* license that has had several unused codes at a time may have as many devices.
DeviceLimit ==
  \A l \in Licenses : db.license[l].status # "absent"
    => \/ Cardinality(ActiveDevices(db, l)) <= db.license[l].limit
       \/ Cardinality(ActiveDevices(db, l)) <= mostOpen[l]

\* While a check or renewal is being served, its device stays bound and its
\* token valid: the lock on the token makes revocations wait for the answer.
ServedIsBound ==
  \A t \in Clients : tx[t].pc # "idle" /\ tx[t].kind \in {"check", "renew"}
    => LET d == <<tx[t].license, tx[t].machine>>
       IN  db.device[d] = "active" /\ db.token[d] = "valid"

\* No client request takes a license out of "disabled", even one that read it
\* before an administrator disabled it.  The exception is a renewal that read the
\* status "expired": with a date in the future (an older renewal committed after
\* an administrator had restored the license) that status does not refuse it, and
\* "active" is then a change.
DisableSticks ==
  [][\A t \in Clients, l \in Licenses :
       (tx'[t] # tx[t] /\ db.license[l].status = "disabled" /\ db'.license[l].status # "disabled")
         => tx[t].loaded.license[l].status = "expired"]_vars

\* A renewal never shortens a license: a permanent one stays permanent, and the
\* date in the database grows by the card's days at least, although the renewal
\* writes an absolute date it has computed from what it read.  What it read is
\* out of date only if an administrator has set the date since, or if two devices
\* of the license are active, after two rebind codes; and a license that it has
\* read as permanent gets a date, since it counts from now then.
RenewAddsDays ==
  [][\A t \in Clients, c \in Cards :
       (tx[t].pc = "ready" /\ tx[t].kind = "renew" /\ uses'[c] # uses[c] /\ tx'[t] # tx[t])
         => LET l    == tx[t].license
                read == tx[t].loaded.license[l].expires
                old  == db.license[l].expires
                new  == db'.license[l].expires
            IN  \/ new = Never
                \/ old # Never /\ new >= old + Days[c]
                \/ read = Never
                \/ read # old /\ (l \in overruled \/ mostOpen[l] > 1)]_vars
=============================================================================
