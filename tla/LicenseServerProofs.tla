------------------------- MODULE LicenseServerProofs -------------------------
(***************************************************************************)
(* Proofs about the license service, for any number of cards, licenses,    *)
(* machines and server threads.                                            *)
(*                                                                         *)
(* The invariant (ServiceInv) says what every open transaction is up to:   *)
(* which rows it will write, from which values it read, and which of them  *)
(* it holds under a lock.  A request makes its transaction so              *)
(* (RequestsBegin, BeginsKeeps); a commit then does to each row one of a   *)
(* few things (Commits, CommitRows), none of which takes a locked row from *)
(* another transaction (CommitKeeps).  On it rest the count of devices     *)
(* (LimitInv: every rebinding in flight holds a code of its own, and adds  *)
(* one device to those it leaves alone) and the dates of renewals          *)
(* (SeenInv: the date read is that of the row unless it was overtaken).    *)
(***************************************************************************)
EXTENDS LicenseServer, FiniteSetTheorems, TLAPS

USE LicenseAssumption

-----------------------------------------------------------------------------
(* Tables, and what a commit does to them.                                 *)

LEMMA CardColumns ==
  ASSUME NEW old \in CardRow, NEW new \in CardRow, NEW stored \in CardRow
  PROVE  LET row == Columns(old, new, stored) IN
         /\ row \in CardRow
         /\ row.status = IF new.status # old.status THEN new.status ELSE stored.status
         /\ row.license = IF new.license # old.license THEN new.license ELSE stored.license
<1>1. DOMAIN stored = {"status", "license"}
  BY DEF CardRow
<1> QED
  BY <1>1 DEF Columns, CardRow

LEMMA LicenseColumns ==
  ASSUME NEW old \in LicenseRow, NEW new \in LicenseRow, NEW stored \in LicenseRow
  PROVE  LET row == Columns(old, new, stored) IN
         /\ row \in LicenseRow
         /\ row.status = IF new.status # old.status THEN new.status ELSE stored.status
         /\ row.limit = IF new.limit # old.limit THEN new.limit ELSE stored.limit
         /\ row.expires = IF new.expires # old.expires THEN new.expires ELSE stored.expires
<1>1. DOMAIN stored = {"status", "expires", "permanent", "limit"}
  BY DEF LicenseRow
<1> QED
  BY <1>1 DEF Columns, LicenseRow

LEMMA CodeColumns ==
  ASSUME NEW old \in CodeRow, NEW new \in CodeRow, NEW stored \in CodeRow
  PROVE  LET row == Columns(old, new, stored) IN
         /\ row \in CodeRow
         /\ row.exists = IF new.exists # old.exists THEN new.exists ELSE stored.exists
         /\ row.license = IF new.license # old.license THEN new.license ELSE stored.license
         /\ row.used = IF new.used # old.used THEN new.used ELSE stored.used
<1>1. DOMAIN stored = {"exists", "license", "used", "until"}
  BY DEF CodeRow
<1> QED
  BY <1>1 DEF Columns, CodeRow

\* The rows of the tables after a commit, one by one.
LEMMA FlushedRows ==
  ASSUME NEW old \in Tables, NEW new \in Tables, NEW stored \in Tables
  PROVE  LET after == Flushed(old, new, stored) IN
         /\ after \in Tables
         /\ \A c \in Cards : after.card[c] = Columns(old.card[c], new.card[c], stored.card[c])
         /\ \A l \in Licenses : after.license[l]
                                  = Columns(old.license[l], new.license[l], stored.license[l])
         /\ \A x \in Codes : after.code[x] = Columns(old.code[x], new.code[x], stored.code[x])
         /\ \A d \in Devices :
              /\ after.device[d] = IF new.device[d] # old.device[d] THEN new.device[d]
                                                                   ELSE stored.device[d]
              /\ after.token[d] = IF new.token[d] # old.token[d] THEN new.token[d]
                                                                ELSE stored.token[d]
<1> DEFINE after == Flushed(old, new, stored)
<1>1. after.card \in [Cards -> CardRow]
      /\ \A c \in Cards : after.card[c] = Columns(old.card[c], new.card[c], stored.card[c])
  BY CardColumns DEF Flushed, Tables
<1>2. after.license \in [Licenses -> LicenseRow]
      /\ \A l \in Licenses : after.license[l]
                               = Columns(old.license[l], new.license[l], stored.license[l])
  BY LicenseColumns DEF Flushed, Tables
<1>3. after.code \in [Codes -> CodeRow]
      /\ \A x \in Codes : after.code[x] = Columns(old.code[x], new.code[x], stored.code[x])
  BY CodeColumns DEF Flushed, Tables
<1>4. /\ after.device \in [Devices -> DeviceStatuses]
      /\ \A d \in Devices : after.device[d] = IF new.device[d] # old.device[d]
                                              THEN new.device[d] ELSE stored.device[d]
  BY DEF Flushed, Tables, Columns
<1>5. /\ after.token \in [Devices -> TokenStatuses]
      /\ \A d \in Devices : after.token[d] = IF new.token[d] # old.token[d]
                                             THEN new.token[d] ELSE stored.token[d]
  BY DEF Flushed, Tables, Columns
<1>6. after \in Tables
  BY <1>1, <1>2, <1>3, <1>4, <1>5 DEF Flushed, Tables
<1> QED
  BY <1>1, <1>2, <1>3, <1>4, <1>5, <1>6

\* The date of a license after a commit.
LEMMA FlushedDate ==
  ASSUME NEW old \in Tables, NEW new \in Tables, NEW stored \in Tables, NEW l \in Licenses
  PROVE  Flushed(old, new, stored).license[l].expires
           = IF new.license[l].expires # old.license[l].expires
             THEN new.license[l].expires ELSE stored.license[l].expires
<1>1. /\ old.license[l] \in LicenseRow /\ new.license[l] \in LicenseRow
      /\ stored.license[l] \in LicenseRow
  BY DEF Tables
<1>2. Flushed(old, new, stored).license[l]
        = Columns(old.license[l], new.license[l], stored.license[l])
  BY FlushedRows
<1> QED
  BY <1>1, <1>2, LicenseColumns

LEMMA WrittenRows ==
  ASSUME NEW old, NEW new
  PROVE  /\ \A c \in Cards : <<"card", c>> \in Written(old, new) <=> new.card[c] # old.card[c]
         /\ \A l \in Licenses : <<"license", l>> \in Written(old, new)
                                  <=> new.license[l] # old.license[l]
         /\ \A x \in Codes : <<"code", x>> \in Written(old, new) <=> new.code[x] # old.code[x]
         /\ \A d \in Devices : <<"device", d>> \in Written(old, new)
                                 <=> new.device[d] # old.device[d]
         /\ \A d \in Devices : <<"token", d>> \in Written(old, new)
                                 <=> new.token[d] # old.token[d]
BY DEF Written

LEMMA NoTablesType == NoTables \in Tables
BY DEF NoTables, Tables, CardRow, LicenseRow, CodeRow, DeviceStatuses, TokenStatuses,
       CardStatuses, LicenseStatuses, Never

IsOnly(only, view, rows) ==
  /\ only \in Tables
  /\ \A c \in Cards : only.card[c] = IF <<"card", c>> \in rows THEN view.card[c]
                                                                ELSE NoTables.card[c]
  /\ \A l \in Licenses : only.license[l] = IF <<"license", l>> \in rows
                                           THEN view.license[l] ELSE NoTables.license[l]
  /\ \A x \in Codes : only.code[x] = IF <<"code", x>> \in rows THEN view.code[x]
                                                                ELSE NoTables.code[x]
  /\ \A d \in Devices : only.device[d] = IF <<"device", d>> \in rows THEN view.device[d]
                                                                      ELSE "absent"
  /\ \A d \in Devices : only.token[d] = IF <<"token", d>> \in rows THEN view.token[d]
                                                                    ELSE "absent"

LEMMA OnlyRows ==
  ASSUME NEW view \in Tables, NEW rows
  PROVE  IsOnly(Only(view, rows), view, rows)
<1> DEFINE only == Only(view, rows)
<1>0. /\ NoTables.card \in [Cards -> CardRow]
      /\ NoTables.license \in [Licenses -> LicenseRow]
      /\ NoTables.code \in [Codes -> CodeRow]
  BY NoTablesType DEF Tables
<1>1. /\ only.card \in [Cards -> CardRow]
      /\ \A c \in Cards : only.card[c] = IF <<"card", c>> \in rows THEN view.card[c]
                                                                    ELSE NoTables.card[c]
  BY <1>0 DEF Only, Tables
<1>2. /\ only.license \in [Licenses -> LicenseRow]
      /\ \A l \in Licenses : only.license[l] = IF <<"license", l>> \in rows
                                               THEN view.license[l] ELSE NoTables.license[l]
  BY <1>0 DEF Only, Tables
<1>3. /\ only.code \in [Codes -> CodeRow]
      /\ \A x \in Codes : only.code[x] = IF <<"code", x>> \in rows THEN view.code[x]
                                                                    ELSE NoTables.code[x]
  BY <1>0 DEF Only, Tables
<1>4. /\ only.device \in [Devices -> DeviceStatuses] /\ only.token \in [Devices -> TokenStatuses]
      /\ \A d \in Devices :
           /\ only.device[d] = IF <<"device", d>> \in rows THEN view.device[d] ELSE "absent"
           /\ only.token[d] = IF <<"token", d>> \in rows THEN view.token[d] ELSE "absent"
  BY DEF Only, Tables, DeviceStatuses, TokenStatuses
<1>5. only \in Tables
  BY <1>1, <1>2, <1>3, <1>4 DEF Only, Tables
<1> QED
  BY <1>1, <1>2, <1>3, <1>4, <1>5 DEF IsOnly

-----------------------------------------------------------------------------
(* A transaction: what its record says of the rows it read and will write. *)

TxType == tx \in [Threads -> {Idle} \cup Transaction]

Open(t) == tx[t].pc # "idle"

LEMMA OpenType ==
  ASSUME TxType, NEW t \in Threads, Open(t)
  PROVE  /\ tx[t] \in Transaction
         /\ tx[t].loaded \in Tables /\ tx[t].work \in Tables
         /\ tx[t].license \in Licenses \cup {NoLicense}
         /\ tx[t].consumes \subseteq Keys /\ tx[t].locks \subseteq Rows
         /\ tx[t].pc \in {"authenticated", "ready"} /\ tx[t].kind \in RequestKinds
         /\ tx[t].machine \in Machines \cup {"admin"}
BY DEF TxType, Open, Idle, Transaction

\* r keeps the rows in which work differs from loaded.
Keeps(r, loaded, work) ==
  /\ \A c \in Cards :
       \/ r.loaded.card[c] = loaded.card[c] /\ r.work.card[c] = work.card[c]
       \/ work.card[c] = loaded.card[c] /\ r.work.card[c] = r.loaded.card[c]
  /\ \A l \in Licenses :
       \/ r.loaded.license[l] = loaded.license[l] /\ r.work.license[l] = work.license[l]
       \/ work.license[l] = loaded.license[l] /\ r.work.license[l] = r.loaded.license[l]
  /\ \A x \in Codes :
       \/ r.loaded.code[x] = loaded.code[x] /\ r.work.code[x] = work.code[x]
       \/ work.code[x] = loaded.code[x] /\ r.work.code[x] = r.loaded.code[x]
  /\ \A d \in Devices :
       \/ r.loaded.device[d] = loaded.device[d] /\ r.work.device[d] = work.device[d]
       \/ work.device[d] = loaded.device[d] /\ r.work.device[d] = r.loaded.device[d]
  /\ \A d \in Devices :
       \/ r.loaded.token[d] = loaded.token[d] /\ r.work.token[d] = work.token[d]
       \/ work.token[d] = loaded.token[d] /\ r.work.token[d] = r.loaded.token[d]

\* The new record of thread t; the others keep theirs.
Goes1(t, pc, kind, m, l, keys, locks) ==
  /\ tx' \in [Threads -> {Idle} \cup Transaction]
  /\ \A u \in Threads \ {t} : tx'[u] = tx[u]
  /\ tx'[t] \in Transaction
  /\ tx'[t].pc = pc /\ tx'[t].kind = kind /\ tx'[t].machine = m /\ tx'[t].license = l
  /\ tx'[t].consumes = keys /\ tx'[t].locks = locks

LEMMA GoesType ==
  ASSUME TxType, NEW t \in Threads, NEW pc \in {"authenticated", "ready"},
         NEW kind \in RequestKinds, NEW m \in Machines \cup {"admin"},
         NEW l \in Licenses \cup {NoLicense}, NEW keys \in SUBSET Keys,
         NEW locks \in SUBSET Rows, NEW loaded \in Tables, NEW work \in Tables,
         Goes(t, pc, kind, m, l, keys, locks, loaded, work)
  PROVE  /\ Goes1(t, pc, kind, m, l, keys, locks)
         /\ pc = "ready" => Keeps(tx'[t], loaded, work)
         /\ pc = "authenticated" => /\ tx'[t].loaded = Only(loaded, {<<"license", l>>})
                                    /\ tx'[t].work = Only(work, {<<"license", l>>})
<1> DEFINE rows == IF pc = "authenticated" THEN {<<"license", l>>} ELSE Written(loaded, work)
           r == [pc |-> pc, kind |-> kind, machine |-> m, license |-> l,
                 consumes |-> keys, locks |-> locks,
                 loaded |-> Only(loaded, rows), work |-> Only(work, rows)]
<1>1. tx' = [tx EXCEPT ![t] = r]
  BY DEF Goes
<1>2. Only(loaded, rows) \in Tables /\ Only(work, rows) \in Tables
  BY OnlyRows DEF IsOnly
<1>3. r \in Transaction
  BY <1>2 DEF Transaction
<1>4. /\ tx' \in [Threads -> {Idle} \cup Transaction]
      /\ tx'[t] = r /\ \A u \in Threads \ {t} : tx'[u] = tx[u]
  <2> HIDE DEF r
  <2> QED
    BY <1>1, <1>3 DEF TxType
<1>5. Goes1(t, pc, kind, m, l, keys, locks)
  BY <1>3, <1>4 DEF Goes1
<1>6. ASSUME pc = "ready" PROVE Keeps(tx'[t], loaded, work)
  <2> DEFINE W == Written(loaded, work)
  <2>1. tx'[t].loaded = Only(loaded, W) /\ tx'[t].work = Only(work, W)
    BY <1>4, <1>6
  <2>2. /\ \A c \in Cards : <<"card", c>> \in W <=> work.card[c] # loaded.card[c]
        /\ \A k \in Licenses : <<"license", k>> \in W <=> work.license[k] # loaded.license[k]
        /\ \A x \in Codes : <<"code", x>> \in W <=> work.code[x] # loaded.code[x]
        /\ \A d \in Devices : <<"device", d>> \in W <=> work.device[d] # loaded.device[d]
        /\ \A d \in Devices : <<"token", d>> \in W <=> work.token[d] # loaded.token[d]
    BY WrittenRows
  <2> HIDE DEF W, r, rows
  <2>8. IsOnly(tx'[t].loaded, loaded, W) /\ IsOnly(tx'[t].work, work, W)
    BY <2>1, OnlyRows
  <2>3. \A c \in Cards :
          \/ tx'[t].loaded.card[c] = loaded.card[c] /\ tx'[t].work.card[c] = work.card[c]
          \/ work.card[c] = loaded.card[c] /\ tx'[t].work.card[c] = tx'[t].loaded.card[c]
    BY <2>2, <2>8 DEF IsOnly
  <2>4. \A k \in Licenses :
          \/ tx'[t].loaded.license[k] = loaded.license[k] /\ tx'[t].work.license[k] = work.license[k]
          \/ work.license[k] = loaded.license[k] /\ tx'[t].work.license[k] = tx'[t].loaded.license[k]
    BY ZenonT(30), <2>2, <2>8 DEF IsOnly
  <2>5. \A x \in Codes :
          \/ tx'[t].loaded.code[x] = loaded.code[x] /\ tx'[t].work.code[x] = work.code[x]
          \/ work.code[x] = loaded.code[x] /\ tx'[t].work.code[x] = tx'[t].loaded.code[x]
    BY ZenonT(30), <2>2, <2>8 DEF IsOnly
  <2>6. \A d \in Devices :
          \/ tx'[t].loaded.device[d] = loaded.device[d] /\ tx'[t].work.device[d] = work.device[d]
          \/ work.device[d] = loaded.device[d] /\ tx'[t].work.device[d] = tx'[t].loaded.device[d]
    BY ZenonT(30), <2>2, <2>8 DEF IsOnly
  <2>7. \A d \in Devices :
          \/ tx'[t].loaded.token[d] = loaded.token[d] /\ tx'[t].work.token[d] = work.token[d]
          \/ work.token[d] = loaded.token[d] /\ tx'[t].work.token[d] = tx'[t].loaded.token[d]
    BY ZenonT(30), <2>2, <2>8 DEF IsOnly
  <2> QED
    BY <2>3, <2>4, <2>5, <2>6, <2>7 DEF Keeps
<1> QED
  BY <1>4, <1>5, <1>6

-----------------------------------------------------------------------------
(* What the handlers make of the tables.                                   *)

Same(view, new, tables) ==
  /\ "card" \in tables => new.card = view.card
  /\ "license" \in tables => new.license = view.license
  /\ "devices" \in tables => new.device = view.device /\ new.token = view.token
  /\ "code" \in tables => new.code = view.code

LEMMA BoundRows ==
  ASSUME NEW view \in Tables, NEW d
  PROVE  /\ Bound(view, d) \in Tables
         /\ Same(view, Bound(view, d), {"card", "license", "code"})
         /\ \A e \in Devices :
              /\ Bound(view, d).device[e] = IF e = d THEN "active" ELSE view.device[e]
              /\ Bound(view, d).token[e] = IF e = d THEN "valid" ELSE view.token[e]
<1> DEFINE device == [view.device EXCEPT ![d] = "active"]
           token == [view.token EXCEPT ![d] = "valid"]
           new == [view EXCEPT !.device = device, !.token = token]
<1>1. device \in [Devices -> DeviceStatuses] /\ token \in [Devices -> TokenStatuses]
  BY DEF Tables, DeviceStatuses, TokenStatuses
<1>2. \A e \in Devices :
        /\ device[e] = IF e = d THEN "active" ELSE view.device[e]
        /\ token[e] = IF e = d THEN "valid" ELSE view.token[e]
  BY DEF Tables
<1>3. Bound(view, d) = new
  BY DEF Bound, Tables
<1> HIDE DEF device, token
<1>4. /\ new \in Tables /\ new.device = device /\ new.token = token
      /\ new.card = view.card /\ new.license = view.license /\ new.code = view.code
  BY <1>1 DEF Tables
<1> HIDE DEF new
<1> QED
  BY <1>2, <1>3, <1>4 DEF Same

LEMMA RevokedRows ==
  ASSUME NEW view \in Tables, NEW l
  PROVE  /\ Revoked(view, l) \in Tables
         /\ Same(view, Revoked(view, l), {"card", "license", "code"})
         /\ \A e \in Devices :
              /\ Revoked(view, l).device[e] = IF e[1] = l /\ view.device[e] # "absent"
                                              THEN "revoked" ELSE view.device[e]
              /\ Revoked(view, l).token[e] = IF e[1] = l /\ view.token[e] # "absent"
                                             THEN "revoked" ELSE view.token[e]
<1> DEFINE device == [d \in Devices |-> IF d[1] = l /\ view.device[d] # "absent"
                                        THEN "revoked" ELSE view.device[d]]
           token == [d \in Devices |-> IF d[1] = l /\ view.token[d] # "absent"
                                       THEN "revoked" ELSE view.token[d]]
           new == [view EXCEPT !.device = device, !.token = token]
<1>1. device \in [Devices -> DeviceStatuses] /\ token \in [Devices -> TokenStatuses]
  BY DEF Tables, DeviceStatuses, TokenStatuses
<1>2. \A e \in Devices :
        /\ device[e] = IF e[1] = l /\ view.device[e] # "absent" THEN "revoked" ELSE view.device[e]
        /\ token[e] = IF e[1] = l /\ view.token[e] # "absent" THEN "revoked" ELSE view.token[e]
  OBVIOUS
<1> HIDE DEF device, token
<1>3. /\ new \in Tables /\ new.device = device /\ new.token = token
      /\ new.card = view.card /\ new.license = view.license /\ new.code = view.code
  BY <1>1 DEF Tables
<1>4. Revoked(view, l) = new
  BY DEF Revoked, device, token
<1> HIDE DEF new
<1> QED
  BY <1>2, <1>3, <1>4 DEF Same

LEMMA ConsumedRows ==
  ASSUME NEW view \in Tables, NEW c \in Cards, NEW l \in Licenses
  PROVE  /\ Consumed(view, c, l) \in Tables
         /\ Same(view, Consumed(view, c, l), {"license", "devices", "code"})
         /\ \A x \in Cards : Consumed(view, c, l).card[x]
              = IF x = c THEN [status |-> "used", license |-> l] ELSE view.card[x]
<1> DEFINE row == [status |-> "used", license |-> l]
           new == [view EXCEPT !.card[c] = row]
<1>1. row \in CardRow
  BY DEF CardRow, CardStatuses
<1> HIDE DEF row
<1>2. /\ new \in Tables /\ \A x \in Cards : new.card[x] = IF x = c THEN row ELSE view.card[x]
      /\ new.license = view.license /\ new.device = view.device /\ new.token = view.token
      /\ new.code = view.code
  BY <1>1 DEF Tables
<1>3. Consumed(view, c, l) = new
  BY DEF Consumed, row
<1> HIDE DEF new
<1> QED
  BY <1>2, <1>3 DEF Same, row

LEMMA SpentRows ==
  ASSUME NEW view \in Tables, NEW x \in Codes
  PROVE  /\ Spent(view, x) \in Tables
         /\ Same(view, Spent(view, x), {"card", "license", "devices"})
         /\ \A y \in Codes : Spent(view, x).code[y]
              = IF y = x THEN [view.code[x] EXCEPT !.used = TRUE] ELSE view.code[y]
<1> DEFINE row == [view.code[x] EXCEPT !.used = TRUE]
           new == [view EXCEPT !.code[x] = row]
<1>0. view.code[x] \in CodeRow
  BY DEF Tables
<1>1. row \in CodeRow
  BY <1>0 DEF CodeRow
<1>2. Spent(view, x) = new
  BY DEF Spent, Tables
<1> HIDE DEF row
<1>3. /\ new \in Tables /\ \A y \in Codes : new.code[y] = IF y = x THEN row ELSE view.code[y]
      /\ new.license = view.license /\ new.device = view.device /\ new.token = view.token
      /\ new.card = view.card
  BY <1>1 DEF Tables
<1> HIDE DEF new
<1> QED
  BY <1>2, <1>3 DEF Same, row

LEMMA LicenseWritten ==
  ASSUME NEW view \in Tables, NEW l \in Licenses, NEW row \in LicenseRow
  PROVE  LET new == [view EXCEPT !.license[l] = row] IN
         /\ new \in Tables
         /\ Same(view, new, {"card", "devices", "code"})
         /\ \A k \in Licenses : new.license[k] = IF k = l THEN row ELSE view.license[k]
BY DEF Tables, Same

LEMMA CardWritten ==
  ASSUME NEW view \in Tables, NEW c \in Cards, NEW row \in CardRow
  PROVE  LET new == [view EXCEPT !.card[c] = row] IN
         /\ new \in Tables
         /\ Same(view, new, {"license", "devices", "code"})
         /\ \A x \in Cards : new.card[x] = IF x = c THEN row ELSE view.card[x]
BY DEF Tables, Same

LEMMA CodeWritten ==
  ASSUME NEW view \in Tables, NEW x \in Codes, NEW row \in CodeRow
  PROVE  LET new == [view EXCEPT !.code[x] = row] IN
         /\ new \in Tables
         /\ Same(view, new, {"card", "license", "devices"})
         /\ \A y \in Codes : new.code[y] = IF y = x THEN row ELSE view.code[y]
BY DEF Tables, Same

LEMMA UnboundRows ==
  ASSUME NEW view \in Tables, NEW d \in Devices
  PROVE  /\ Unbound(view, d) \in Tables
         /\ Same(view, Unbound(view, d), {"card", "license", "code"})
         /\ \A e \in Devices :
              /\ Unbound(view, d).device[e] = IF e = d THEN "revoked" ELSE view.device[e]
              /\ Unbound(view, d).token[e] = IF e = d THEN "revoked" ELSE view.token[e]
<1> DEFINE device == [view.device EXCEPT ![d] = "revoked"]
           token == [view.token EXCEPT ![d] = "revoked"]
           new == [view EXCEPT !.device = device, !.token = token]
<1>1. device \in [Devices -> DeviceStatuses] /\ token \in [Devices -> TokenStatuses]
  BY DEF Tables, DeviceStatuses, TokenStatuses
<1>2. \A e \in Devices :
        /\ device[e] = IF e = d THEN "revoked" ELSE view.device[e]
        /\ token[e] = IF e = d THEN "revoked" ELSE view.token[e]
  BY DEF Tables
<1>3. Unbound(view, d) = new
  BY DEF Unbound, Tables
<1> HIDE DEF device, token
<1>4. /\ new \in Tables /\ new.device = device /\ new.token = token
      /\ new.card = view.card /\ new.license = view.license /\ new.code = view.code
  BY <1>1 DEF Tables
<1> HIDE DEF new
<1> QED
  BY <1>2, <1>3, <1>4 DEF Same

\* A new version of a license, with this status, for as many devices.
Edited(new, row, status) ==
  new \in LicenseRow /\ new.status = status /\ new.limit = row.limit

LEMMA LicenseRows ==
  ASSUME NEW row \in LicenseRow, clock \in Nat
  PROVE  /\ \/ Edited(Restored(row), row, "active")
            \/ Edited(Restored(row), row, "expired")
         /\ Restored(row).expires = row.expires
         /\ LET new == [row EXCEPT !.status = "disabled"] IN
            Edited(new, row, "disabled") /\ new.expires = row.expires
         /\ LET new == [row EXCEPT !.status = "active", !.permanent = TRUE, !.expires = Never] IN
            Edited(new, row, "active") /\ new.expires = Never
         /\ \A e \in Nat : Edited([row EXCEPT !.status = "active", !.expires = e], row, "active")
<1>1. /\ \/ Edited(Restored(row), row, "active") \/ Edited(Restored(row), row, "expired")
      /\ Restored(row).expires = row.expires
  BY DEF Restored, Edited, LicenseRow, LicenseStatuses
<1>2. LET new == [row EXCEPT !.status = "disabled"] IN
      Edited(new, row, "disabled") /\ new.expires = row.expires
  BY DEF Edited, LicenseRow, LicenseStatuses
<1>3. LET new == [row EXCEPT !.status = "active", !.permanent = TRUE, !.expires = Never] IN
      Edited(new, row, "active") /\ new.expires = Never
  BY DEF Edited, LicenseRow, LicenseStatuses, Never
<1>4. ASSUME NEW e \in Nat
      PROVE  Edited([row EXCEPT !.status = "active", !.expires = e], row, "active")
  BY DEF Edited, LicenseRow, LicenseStatuses
<1> QED
  BY <1>1, <1>2, <1>3, <1>4

\* A renewal makes a license permanent, or adds the card's days to its date.
LEMMA RenewedRow ==
  ASSUME NEW row \in LicenseRow, clock \in Nat, NEW days \in Nat
  PROVE  LET new == Renewed(row, days) IN
         /\ Edited(new, row, "active")
         /\ \/ days = 0 /\ new.expires = Never
            \/ new.expires # row.expires /\ new.expires >= row.expires + days
<1>1. CASE days = 0
  BY <1>1 DEF Renewed, Edited, LicenseRow, LicenseStatuses, Never
<1>2. CASE days # 0
  <2> DEFINE until == (IF row.expires > clock THEN row.expires ELSE clock) + days
  <2>1. until \in Nat /\ until # row.expires /\ until >= row.expires + days
    BY <1>2 DEF LicenseRow, Never
  <2>2. Renewed(row, days) = [row EXCEPT !.expires = until, !.status = "active"]
    BY <1>2 DEF Renewed
  <2> HIDE DEF until
  <2> QED
    BY <2>1, <2>2 DEF Edited, LicenseRow, LicenseStatuses
<1> QED
  BY <1>1, <1>2

-----------------------------------------------------------------------------
(* What is true of the rows, and of every open transaction.                *)

Match(device, token) ==
  \/ device = "absent" /\ token = "absent"
  \/ device = "active" /\ token = "valid"
  \/ device = "revoked" /\ token = "revoked"

\* Rows refer to licenses there are, which allow a device; a device and its
\* token are revoked together.
RowsInv ==
  /\ \A l \in Licenses : db.license[l].limit = 0 <=> db.license[l].status = "absent"
  /\ \A c \in Cards :
       /\ db.card[c].status = "absent" => db.card[c].license = NoLicense
       /\ db.card[c].license # NoLicense => db.license[db.card[c].license].status # "absent"
  /\ \A d \in Devices :
       /\ Match(db.device[d], db.token[d])
       /\ db.token[d] # "absent" => db.license[d[1]].status # "absent"
  /\ \A x \in Codes :
       IF db.code[x].exists
       THEN db.code[x].license \in Licenses /\ db.license[db.code[x].license].status # "absent"
       ELSE db.code[x].license = NoLicense /\ ~db.code[x].used

\* A card the transaction writes is bought by a client, who holds its row, or
\* edited by an administrator, who gives it to nobody.
CardOk(t, r) == \A c \in Cards :
  \/ r.work.card[c] = r.loaded.card[c] /\ c \notin r.consumes
  \/ /\ t \in Clients /\ c \in r.consumes /\ <<"card", c>> \in r.locks
     /\ r.loaded.card[c] = db.card[c] /\ db.card[c].status = "unused"
     /\ r.work.card[c] = [status |-> "used", license |-> r.license] /\ r.license \in Licenses
  \/ /\ t \in Admins /\ c \notin r.consumes
     /\ r.work.card[c].license = r.loaded.card[c].license
     /\ r.work.card[c].status # "absent"
     /\ r.work.card[c].status = "unused"
          => r.loaded.card[c].license = NoLicense /\ r.loaded.card[c].status # "unused"

\* The license it inserts.
Creates(r) ==
  /\ r.license \in Licenses /\ db.license[r.license].status = "absent"
  /\ r.loaded.license[r.license].status = "absent"
  /\ r.work.license[r.license].status = "active"

\* The license whose status it changes is its own.
LicenseOk(t, r) == \A l \in Licenses :
  \/ r.work.license[l].status = r.loaded.license[l].status
  \/ /\ l = r.license /\ r.work.license[l].status # "absent"
     /\ \/ Creates(r)
        \/ /\ db.license[l].status # "absent"
           /\ t \in Clients => r.loaded.license[l].status = "expired"

\* It leaves the limits alone, but for the one of the license it inserts.
LimitOk(r) == \A l \in Licenses :
  IF r.loaded.license[l].status = "absent" /\ r.work.license[l].status # "absent"
  THEN r.work.license[l].limit # r.loaded.license[l].limit /\ r.work.license[l].limit # 0
  ELSE r.work.license[l].limit = r.loaded.license[l].limit

\* A date is set by a renewal of the license, by its activation or by an
\* administrator.
DatesOk(t, r) == \A l \in Licenses :
  \/ r.work.license[l].expires = r.loaded.license[l].expires
  \/ l = r.license /\ Creates(r)
  \/ l = r.license /\ t \in Clients /\ r.kind = "renew"
  \/ t \in Admins

\* A renewal is worth the days of the card.
PaidOk(r) == r.pc = "ready" /\ r.kind = "renew" =>
  \A c \in Cards \cap r.consumes :
    LET old == r.loaded.license[r.license].expires
        new == r.work.license[r.license].expires
    IN  \/ new = old /\ Days[c] = 0
        \/ new # old /\ (new = Never \/ new >= old + Days[c])

KnownOk(r) ==
  r.license = NoLicense \/ db.license[r.license].status # "absent" \/ Creates(r)

\* It binds a new device to its license, or revokes one with its token.
DeviceOk(r) == \A d \in Devices :
  \/ r.work.device[d] = r.loaded.device[d] /\ r.work.token[d] = r.loaded.token[d]
  \/ /\ r.loaded.device[d] = "absent" /\ r.loaded.token[d] = "absent"
     /\ r.work.device[d] = "active" /\ r.work.token[d] = "valid" /\ d[1] = r.license
  \/ /\ r.loaded.device[d] = "active" /\ r.loaded.token[d] = "valid"
     /\ r.work.device[d] = "revoked" /\ r.work.token[d] = "revoked" /\ db.token[d] # "absent"

\* It spends a code whose row it holds, or inserts one.
CodeOk(r) == \A x \in Codes :
  \/ r.work.code[x] = r.loaded.code[x] /\ x \notin r.consumes
  \/ /\ x \in r.consumes /\ <<"code", x>> \in r.locks
     /\ r.loaded.code[x].license = r.license
     /\ r.loaded.code[x] = db.code[x] /\ db.code[x].exists /\ ~db.code[x].used
     /\ r.work.code[x] = [db.code[x] EXCEPT !.used = TRUE]
  \/ /\ x \notin r.consumes /\ r.license \in Licenses
     /\ ~r.loaded.code[x].exists /\ ~r.loaded.code[x].used /\ r.loaded.code[x].license = NoLicense
     /\ r.work.code[x].exists /\ ~r.work.code[x].used /\ r.work.code[x].license = r.license

\* A renewal between its two halves.
HalfOk(t, r) == r.pc = "authenticated" =>
  /\ t \in Clients /\ r.kind = "renew" /\ r.consumes = {} /\ r.work = r.loaded
  /\ r.license \in Licenses /\ db.license[r.license].status # "absent"
  /\ r.loaded.license[r.license].status \in {"active", "expired"}

\* The device a request is served for.
ServedOk(t, r) == t \in Clients /\ r.kind \in {"check", "renew"} =>
  /\ r.license \in Licenses /\ r.machine \in Machines
  /\ <<"token", <<r.license, r.machine>>>> \in r.locks
  /\ db.device[<<r.license, r.machine>>] = "active"
  /\ db.token[<<r.license, r.machine>>] = "valid"

TxOk(t, r) ==
  /\ CardOk(t, r) /\ LicenseOk(t, r) /\ LimitOk(r) /\ DatesOk(t, r) /\ PaidOk(r)
  /\ KnownOk(r) /\ DeviceOk(r) /\ CodeOk(r) /\ HalfOk(t, r) /\ ServedOk(t, r)

\* Nobody shares a locked row or the license another one inserts.
Apart == \A t, u \in Threads :
  t # u /\ Open(t) /\ Open(u) =>
    /\ tx[t].locks \cap tx[u].locks = {}
    /\ Creates(tx[t]) => tx[u].license # tx[t].license

HistoryType ==
  /\ uses \in [Keys -> Nat] /\ reissued \subseteq Cards
  /\ mostOpen \in [Licenses -> Nat] /\ overruled \subseteq Licenses

TypeInv == db \in Tables /\ TxType /\ clock \in 0..MaxClock /\ HistoryType

ServiceInv ==
  /\ TypeInv /\ RowsInv /\ Apart
  /\ \A t \in Threads : Open(t) => TxOk(t, tx[t])

\* The transaction makes a device active.
Binds(r, d) == r.loaded.device[d] # "active" /\ r.work.device[d] = "active"

\* It revokes every device its license has.
Clears(r) == \A d \in Devices :
  d[1] = r.license /\ db.device[d] = "active"
    => r.loaded.device[d] = "active" /\ r.work.device[d] = "revoked"

\* It binds one device: the first of a new license, or one for a rebind code.
BindOk(r) == \A d \in Devices : Binds(r, d) =>
  /\ \A e \in Devices : Binds(r, e) => e = d
  /\ Creates(r) \/ \E x \in Codes : x \in r.consumes

\* When it begins, a request with a rebind code revokes what is active.
ClearOk(r) == \A x \in Codes : x \in r.consumes => Clears(r)

\* A renewal sees the license as it is, or as its first half saw it.
SeenNow(t, r) == t \in Clients /\ r.kind = "renew" =>
  LET old == r.loaded.license[r.license].expires IN
  \/ old = db.license[r.license].expires
  \/ /\ Open(t) /\ tx[t].kind = "renew" /\ tx[t].pc = "authenticated"
     /\ tx[t].license = r.license /\ old = tx[t].loaded.license[r.license].expires
  \/ r.pc = "ready" /\ r.work.license[r.license].expires = old

\* A request begins or goes on: thread t has a new record, nothing else changes.
Begins(t) ==
  /\ UNCHANGED <<db, clock, history>>
  /\ tx' \in [Threads -> {Idle} \cup Transaction]
  /\ \A u \in Threads \ {t} : tx'[u] = tx[u]
  /\ tx'[t] \in Transaction
  /\ TxOk(t, tx'[t]) /\ BindOk(tx'[t]) /\ ClearOk(tx'[t]) /\ SeenNow(t, tx'[t])
  /\ \A u \in Threads \ {t} : Open(u) => tx'[t].locks \cap tx[u].locks = {}
  /\ \/ tx'[t].license = NoLicense \/ db.license[tx'[t].license].status # "absent"
     \/ tx'[t].license \in FreshLicenses
  /\ \A c \in Cards : \/ tx'[t].work.card[c] = tx'[t].loaded.card[c]
                      \/ tx'[t].loaded.card[c] = db.card[c]

-----------------------------------------------------------------------------
(* The tables a request leaves alone.                                      *)

LEMMA SameCards ==
  ASSUME NEW r, NEW t, NEW L, NEW K, Keeps(r, L, K), K.card = L.card, r.consumes \cap Cards = {}
  PROVE  CardOk(t, r)
BY DEF Keeps, CardOk

LEMMA SameLicenses ==
  ASSUME NEW r, NEW t, NEW L, NEW K, Keeps(r, L, K), K.license = L.license
  PROVE  LicenseOk(t, r) /\ LimitOk(r) /\ DatesOk(t, r)
BY DEF Keeps, LicenseOk, LimitOk, DatesOk

LEMMA SameDevices ==
  ASSUME NEW r, NEW L, NEW K, Keeps(r, L, K), K.device = L.device, K.token = L.token
  PROVE  DeviceOk(r) /\ BindOk(r)
BY DEF Keeps, DeviceOk, BindOk, Binds

LEMMA SameCodes ==
  ASSUME NEW r, NEW L, NEW K, Keeps(r, L, K), K.code = L.code, r.consumes \cap Codes = {}
  PROVE  CodeOk(r)
BY DEF Keeps, CodeOk

LEMMA CanLockApart ==
  ASSUME NEW t \in Threads, NEW rows, CanLock(t, rows), NEW u \in Threads \ {t}, Open(u)
  PROVE  rows \cap tx[u].locks = {}
BY DEF CanLock, LockedByOthers, Open

-----------------------------------------------------------------------------
(* The clients' requests.                                                  *)

LEMMA Basics ==
  ASSUME ServiceInv
  PROVE  db \in Tables /\ TxType /\ RowsInv /\ clock \in Nat
<1>1. clock \in 0..MaxClock
  BY DEF ServiceInv, TypeInv
<1> QED
  BY <1>1 DEF ServiceInv, TypeInv

LEMMA ReadNow ==
  ASSUME NEW t \in Clients, NEW r, CardOk(t, r)
  PROVE  \A c \in Cards : r.work.card[c] = r.loaded.card[c] \/ r.loaded.card[c] = db.card[c]
BY DEF CardOk

LEMMA ActivateCardBegins ==
  ASSUME ServiceInv, NEW t \in Clients, NEW c \in Cards, NEW m \in Machines, ActivateCard(t, c, m)
  PROVE  Begins(t)
<1>0. /\ t \in Threads /\ db \in Tables /\ TxType /\ RowsInv /\ clock \in Nat
      /\ "activate" \in RequestKinds
  BY Basics DEF Threads, RequestKinds
<1>1. PICK l \in FreshLicenses :
       LET row  == [status |-> "active", limit |-> Limit[c], permanent |-> Days[c] = 0,
                    expires |-> IF Days[c] = 0 THEN Never ELSE clock + Days[c]]
           view == [db EXCEPT !.license[l] = row]
       IN  /\ HasRoom(view, l)
           /\ Goes(t, "ready", "activate", m, l, {c}, CardLock(c), db,
                   Consumed(Bound(view, <<l, m>>), c, l))
  BY DEF ActivateCard
<1> DEFINE row  == [status |-> "active", limit |-> Limit[c], permanent |-> Days[c] = 0,
                    expires |-> IF Days[c] = 0 THEN Never ELSE clock + Days[c]]
           view == [db EXCEPT !.license[l] = row]
           bound == Bound(view, <<l, m>>)
           work == Consumed(bound, c, l)
           r == tx'[t]
<1>2. /\ CanLock(t, CardLock(c)) /\ db.card[c].status = "unused"
      /\ Goes(t, "ready", "activate", m, l, {c}, CardLock(c), db, work)
      /\ UNCHANGED <<db, clock, history>>
  BY <1>1 DEF ActivateCard
<1>3. l \in Licenses /\ db.license[l].status = "absent"
  BY DEF FreshLicenses
<1>4. row \in LicenseRow /\ row.status = "active" /\ row.limit # 0
  BY <1>0 DEF LicenseRow, LicenseStatuses, Never
<1> HIDE DEF row
<1>5. /\ view \in Tables /\ Same(db, view, {"card", "devices", "code"})
      /\ \A k \in Licenses : view.license[k] = IF k = l THEN row ELSE db.license[k]
  BY <1>0, <1>3, <1>4, LicenseWritten
<1> HIDE DEF view
<1>6. /\ bound \in Tables /\ Same(view, bound, {"card", "license", "code"})
      /\ \A e \in Devices : /\ bound.device[e] = IF e = <<l, m>> THEN "active" ELSE view.device[e]
                            /\ bound.token[e] = IF e = <<l, m>> THEN "valid" ELSE view.token[e]
  BY <1>5, BoundRows
<1> HIDE DEF bound
<1>7. /\ work \in Tables /\ Same(bound, work, {"license", "devices", "code"})
      /\ \A x \in Cards : work.card[x] = IF x = c THEN [status |-> "used", license |-> l]
                                                   ELSE bound.card[x]
  BY <1>3, <1>6, ConsumedRows
<1> HIDE DEF work
<1>8. /\ \A x \in Cards : work.card[x] = IF x = c THEN [status |-> "used", license |-> l]
                                                   ELSE db.card[x]
      /\ \A k \in Licenses : work.license[k] = IF k = l THEN row ELSE db.license[k]
      /\ \A e \in Devices : /\ work.device[e] = IF e = <<l, m>> THEN "active" ELSE db.device[e]
                            /\ work.token[e] = IF e = <<l, m>> THEN "valid" ELSE db.token[e]
      /\ work.code = db.code
  BY <1>5, <1>6, <1>7 DEF Same
<1>9. /\ Goes1(t, "ready", "activate", m, l, {c}, CardLock(c)) /\ Keeps(r, db, work)
  <2>1. {c} \in SUBSET Keys /\ CardLock(c) \in SUBSET Rows
    BY DEF Keys, CardLock, Rows
  <2>2. l \in Licenses \cup {NoLicense} /\ m \in Machines \cup {"admin"}
    BY <1>3
  <2> QED
    BY <1>0, <1>2, <1>7, <2>1, <2>2, GoesType
<1>10. r.license = l /\ r.consumes = {c} /\ r.locks = CardLock(c) /\ r.pc = "ready" /\ r.kind = "activate"
  BY <1>9 DEF Goes1
<1>11. CardOk(t, r)
  BY <1>2, <1>3, <1>8, <1>9, <1>10 DEF CardOk, Keeps, CardLock
<1>12. Creates(r)
  BY <1>3, <1>4, <1>8, <1>9, <1>10 DEF Creates, Keeps
<1>13. LicenseOk(t, r) /\ LimitOk(r) /\ DatesOk(t, r)
  <2>1. db.license[l].limit = 0
    BY <1>0, <1>3 DEF RowsInv
  <2>2. LicenseOk(t, r)
    BY <1>4, <1>8, <1>9, <1>10, <1>12 DEF LicenseOk, Keeps
  <2>3. LimitOk(r)
    BY <1>3, <1>4, <1>8, <1>9, <2>1 DEF LimitOk, Keeps
  <2>4. DatesOk(t, r)
    BY <1>8, <1>9, <1>10, <1>12 DEF DatesOk, Keeps
  <2> QED
    BY <2>2, <2>3, <2>4
<1>14. db.device[<<l, m>>] = "absent" /\ db.token[<<l, m>>] = "absent"
  <2>1. <<l, m>> \in Devices /\ <<l, m>>[1] = l
    BY <1>3 DEF Devices
  <2> QED
    BY <1>0, <1>3, <2>1 DEF RowsInv, Match
<1>15. DeviceOk(r) /\ BindOk(r)
  <2>1. DeviceOk(r)
    BY <1>8, <1>9, <1>10, <1>14 DEF DeviceOk, Keeps
  <2>2. \A e \in Devices : Binds(r, e) => e = <<l, m>>
    BY <1>8, <1>9 DEF Binds, Keeps
  <2> QED
    BY <1>12, <2>1, <2>2 DEF BindOk
<1>16. CodeOk(r) /\ ClearOk(r)
  BY <1>8, <1>9, <1>10, SameCodes DEF ClearOk
<1>17. TxOk(t, r) /\ SeenNow(t, r)
  BY <1>10, <1>11, <1>12, <1>13, <1>15, <1>16 DEF TxOk, KnownOk, HalfOk, ServedOk, PaidOk, SeenNow
<1>18. \A u \in Threads \ {t} : Open(u) => r.locks \cap tx[u].locks = {}
  BY <1>0, <1>2, <1>10, CanLockApart
<1> QED
  BY <1>2, <1>9, <1>10, <1>11, <1>15, <1>16, <1>17, <1>18, ReadNow DEF Begins, Goes1

LEMMA ActivateCodeBegins ==
  ASSUME ServiceInv, NEW t \in Clients, NEW x \in Codes, NEW m \in Machines, ActivateCode(t, x, m)
  PROVE  Begins(t)
<1> DEFINE l == db.code[x].license
           view == Revoked(db, l)
           bound == Bound(view, <<l, m>>)
           work == Spent(bound, x)
           r == tx'[t]
<1>0. t \in Threads /\ db \in Tables /\ TxType /\ RowsInv /\ "rebind" \in RequestKinds
  BY Basics DEF Threads, RequestKinds
<1>1. /\ CanLock(t, CodeLock(x)) /\ db.code[x].exists /\ ~db.code[x].used
      /\ db.device[<<l, m>>] = "absent"
      /\ Goes(t, "ready", "rebind", m, l, {x}, CodeLock(x), db, work)
      /\ UNCHANGED <<db, clock, history>>
  BY DEF ActivateCode
<1>2. l \in Licenses /\ db.license[l].status # "absent" /\ db.code[x] \in CodeRow
  BY <1>0, <1>1 DEF RowsInv, Tables
<1> HIDE DEF l
<1>3. /\ view \in Tables /\ Same(db, view, {"card", "license", "code"})
      /\ \A e \in Devices :
           /\ view.device[e] = IF e[1] = l /\ db.device[e] # "absent" THEN "revoked" ELSE db.device[e]
           /\ view.token[e] = IF e[1] = l /\ db.token[e] # "absent" THEN "revoked" ELSE db.token[e]
  BY <1>0, RevokedRows
<1> HIDE DEF view
<1>4. /\ bound \in Tables /\ Same(view, bound, {"card", "license", "code"})
      /\ \A e \in Devices : /\ bound.device[e] = IF e = <<l, m>> THEN "active" ELSE view.device[e]
                            /\ bound.token[e] = IF e = <<l, m>> THEN "valid" ELSE view.token[e]
  BY <1>3, BoundRows
<1> HIDE DEF bound
<1>5. /\ work \in Tables /\ Same(bound, work, {"card", "license", "devices"})
      /\ \A y \in Codes : work.code[y] = IF y = x THEN [bound.code[x] EXCEPT !.used = TRUE]
                                                   ELSE bound.code[y]
  BY <1>4, SpentRows
<1> HIDE DEF work
<1>6. /\ work.card = db.card /\ work.license = db.license
      /\ \A y \in Codes : work.code[y] = IF y = x THEN [db.code[x] EXCEPT !.used = TRUE]
                                                   ELSE db.code[y]
      /\ work.device = bound.device /\ work.token = bound.token
  <2>1. bound.card = db.card /\ bound.license = db.license /\ bound.code = db.code
    BY <1>3, <1>4 DEF Same
  <2>2. work.card = bound.card /\ work.license = bound.license
        /\ work.device = bound.device /\ work.token = bound.token
    BY <1>5 DEF Same
  <2> QED
    BY <1>5, <2>1, <2>2
<1>7. /\ Goes1(t, "ready", "rebind", m, l, {x}, CodeLock(x)) /\ Keeps(r, db, work)
  <2>1. {x} \in SUBSET Keys /\ CodeLock(x) \in SUBSET Rows
    BY DEF Keys, CodeLock, Rows
  <2>2. l \in Licenses \cup {NoLicense} /\ m \in Machines \cup {"admin"}
    BY <1>2
  <2> QED
    BY <1>0, <1>1, <1>5, <2>1, <2>2, GoesType
<1>8. r.license = l /\ r.consumes = {x} /\ r.locks = CodeLock(x) /\ r.pc = "ready" /\ r.kind = "rebind"
  BY <1>7 DEF Goes1
<1>9. CardOk(t, r) /\ LicenseOk(t, r) /\ LimitOk(r) /\ DatesOk(t, r)
  BY <1>6, <1>7, <1>8, SameCards, SameLicenses
<1>10. DeviceOk(r)
  <2>1. <<l, m>> \in Devices /\ <<l, m>>[1] = l
    BY <1>2 DEF Devices
  <2>2. \A e \in Devices : Match(db.device[e], db.token[e])
    BY <1>0 DEF RowsInv
  <2> SUFFICES ASSUME NEW e \in Devices
               PROVE  \/ r.work.device[e] = r.loaded.device[e] /\ r.work.token[e] = r.loaded.token[e]
                      \/ /\ r.loaded.device[e] = "absent" /\ r.loaded.token[e] = "absent"
                         /\ r.work.device[e] = "active" /\ r.work.token[e] = "valid" /\ e[1] = r.license
                      \/ /\ r.loaded.device[e] = "active" /\ r.loaded.token[e] = "valid"
                         /\ r.work.device[e] = "revoked" /\ r.work.token[e] = "revoked"
                         /\ db.token[e] # "absent"
    BY DEF DeviceOk
  <2>3. /\ \/ r.loaded.device[e] = db.device[e] /\ r.work.device[e] = work.device[e]
           \/ work.device[e] = db.device[e] /\ r.work.device[e] = r.loaded.device[e]
        /\ \/ r.loaded.token[e] = db.token[e] /\ r.work.token[e] = work.token[e]
           \/ work.token[e] = db.token[e] /\ r.work.token[e] = r.loaded.token[e]
    BY <1>7 DEF Keeps
  <2>4. CASE e = <<l, m>>
    <3>1. work.device[e] = "active" /\ work.token[e] = "valid"
          /\ db.device[e] = "absent" /\ db.token[e] = "absent"
      BY <1>1, <1>4, <1>6, <2>1, <2>2, <2>4 DEF Match
    <3> QED
      BY <1>8, <2>1, <2>3, <2>4, <3>1
  <2>5. CASE e # <<l, m>>
    <3>1. /\ work.device[e] = IF e[1] = l /\ db.device[e] # "absent" THEN "revoked" ELSE db.device[e]
          /\ work.token[e] = IF e[1] = l /\ db.token[e] # "absent" THEN "revoked" ELSE db.token[e]
      BY <1>3, <1>4, <1>6, <2>5
    <3> QED
      BY <2>2, <2>3, <3>1 DEF Match
  <2> QED
    BY <2>4, <2>5
<1>11. CodeOk(r)
  <2>1. [db.code[x] EXCEPT !.used = TRUE].used /\ ~db.code[x].used
    BY <1>1, <1>2 DEF CodeRow
  <2>2. work.code[x] = [db.code[x] EXCEPT !.used = TRUE] /\ work.code[x] # db.code[x]
    BY <1>6, <2>1
  <2>3. \A y \in Codes :
          \/ r.loaded.code[y] = db.code[y] /\ r.work.code[y] = work.code[y]
          \/ work.code[y] = db.code[y] /\ r.work.code[y] = r.loaded.code[y]
    BY <1>7 DEF Keeps
  <2>4. \A y \in Codes : y # x => y \notin r.consumes /\ r.work.code[y] = r.loaded.code[y]
    BY <1>6, <1>8, <2>3
  <2>5. r.loaded.code[x] = db.code[x] /\ r.work.code[x] = [db.code[x] EXCEPT !.used = TRUE]
    BY <2>2, <2>3
  <2>6. x \in r.consumes /\ <<"code", x>> \in r.locks
    BY <1>8 DEF CodeLock
  <2> QED
    BY <1>1, <1>8, <2>4, <2>5, <2>6 DEF CodeOk, l
<1>12. TxOk(t, r) /\ SeenNow(t, r)
  BY <1>2, <1>8, <1>9, <1>10, <1>11 DEF TxOk, KnownOk, HalfOk, ServedOk, PaidOk, SeenNow
<1>14. BindOk(r) /\ ClearOk(r)
  <2>1. \A e \in Devices : Binds(r, e) => e = <<l, m>>
    BY <1>3, <1>4, <1>6, <1>7 DEF Binds, Keeps
  <2>2. Clears(r)
    <3> SUFFICES ASSUME NEW e \in Devices, e[1] = l, db.device[e] = "active"
                 PROVE  r.loaded.device[e] = "active" /\ r.work.device[e] = "revoked"
      BY <1>8 DEF Clears
    <3>1. work.device[e] = "revoked"
      BY <1>1, <1>3, <1>4, <1>6
    <3> QED
      BY <1>7, <3>1 DEF Keeps
  <2> QED
    BY <1>8, <2>1, <2>2 DEF BindOk, ClearOk
<1>13. \A u \in Threads \ {t} : Open(u) => r.locks \cap tx[u].locks = {}
  BY <1>0, <1>1, <1>8, CanLockApart
<1> QED
  BY <1>1, <1>2, <1>7, <1>8, <1>9, <1>12, <1>13, <1>14, ReadNow DEF Begins, Goes1

LEMMA AuthenticateBegins ==
  ASSUME ServiceInv, NEW t \in Clients, NEW d \in Devices,
         Authenticate(t, d, "check", "ready") \/ Authenticate(t, d, "renew", "authenticated")
  PROVE  Begins(t)
<1> DEFINE l == d[1]
           r == tx'[t]
<1>0. t \in Threads /\ db \in Tables /\ TxType /\ RowsInv
  BY Basics DEF Threads
<1>1. PICK kind \in {"check", "renew"}, pc \in {"ready", "authenticated"} :
        Authenticate(t, d, kind, pc) /\ (pc = "authenticated" => kind = "renew")
  OBVIOUS
<1>2. /\ CanLock(t, TokenLock(d)) /\ db.token[d] = "valid" /\ db.device[d] = "active"
      /\ Usable(db.license[l])
      /\ Goes(t, pc, kind, d[2], l, {}, TokenLock(d), db, db)
      /\ UNCHANGED <<db, clock, history>>
  BY <1>1 DEF Authenticate
<1>3. d = <<l, d[2]>> /\ l \in Licenses /\ d[2] \in Machines
  BY DEF Devices
<1> HIDE DEF l
<1>4. db.license[l].status \in {"active", "expired"}
  <2>1. db.license[l].status # "absent"
    BY <1>0, <1>2, <1>3 DEF RowsInv, l
  <2>2. db.license[l].status \in LicenseStatuses
    BY <1>0, <1>3 DEF Tables, LicenseRow
  <2> QED
    BY <1>2, <2>1, <2>2 DEF Usable, LicenseStatuses
<1>5. /\ Goes1(t, pc, kind, d[2], l, {}, TokenLock(d))
      /\ pc = "ready" => Keeps(r, db, db)
      /\ pc = "authenticated" => /\ r.loaded = Only(db, {<<"license", l>>})
                                 /\ r.work = Only(db, {<<"license", l>>})
  <2>1. TokenLock(d) \in SUBSET Rows
    BY DEF TokenLock, Rows
  <2>3. kind \in RequestKinds /\ {} \in SUBSET Keys
    BY DEF RequestKinds
  <2>2. l \in Licenses \cup {NoLicense} /\ d[2] \in Machines \cup {"admin"}
    BY <1>3
  <2> QED
    <3> DEFINE m == d[2]
               keys == {}
               locks == TokenLock(d)
    <3>1. /\ Goes(t, pc, kind, m, l, keys, locks, db, db) /\ keys \in SUBSET Keys
          /\ m \in Machines \cup {"admin"} /\ locks \in SUBSET Rows
      BY <1>2, <2>1, <2>2, <2>3
    <3> HIDE DEF m, keys, locks
    <3>2. /\ Goes1(t, pc, kind, m, l, keys, locks)
          /\ pc = "ready" => Keeps(r, db, db)
          /\ pc = "authenticated" => /\ r.loaded = Only(db, {<<"license", l>>})
                                     /\ r.work = Only(db, {<<"license", l>>})
      BY SMTT(60), <1>0, <2>2, <2>3, <3>1, GoesType
    <3> QED
      BY <3>2 DEF m, keys, locks
<1>6. /\ r.license = l /\ r.consumes = {} /\ r.locks = TokenLock(d) /\ r.pc = pc
      /\ r.kind = kind /\ r.machine = d[2]
  BY <1>5 DEF Goes1
<1>7. /\ CardOk(t, r) /\ LicenseOk(t, r) /\ LimitOk(r) /\ DatesOk(t, r)
      /\ DeviceOk(r) /\ BindOk(r) /\ CodeOk(r) /\ PaidOk(r)
  <2>0. PaidOk(r)
    BY <1>6 DEF PaidOk
  <2>1. CASE pc = "ready"
    BY <1>5, <1>6, <2>0, <2>1, SameCards, SameLicenses, SameDevices, SameCodes
  <2>2. CASE pc = "authenticated"
    <3>1. r.work = r.loaded
      BY <1>5, <2>2
    <3>2. CardOk(t, r) /\ LicenseOk(t, r) /\ LimitOk(r) /\ DatesOk(t, r)
      BY <1>6, <3>1 DEF CardOk, LicenseOk, LimitOk, DatesOk
    <3>3. BindOk(r)
      BY <3>1 DEF BindOk, Binds
    <3>4. DeviceOk(r) /\ CodeOk(r)
      BY <1>6, <3>1 DEF DeviceOk, CodeOk
    <3> QED
      BY <2>0, <3>2, <3>3, <3>4
  <2> QED
    BY <1>1, <2>1, <2>2
<1>8. HalfOk(t, r) /\ SeenNow(t, r)
  <2>3. pc = "ready" => SeenNow(t, r)
    BY <1>3, <1>5, <1>6 DEF SeenNow, Keeps
  <2> SUFFICES ASSUME pc = "authenticated" PROVE HalfOk(t, r) /\ SeenNow(t, r)
    BY <1>1, <1>6, <2>3 DEF HalfOk
  <2>0. IsOnly(r.loaded, db, {<<"license", l>>})
    BY <1>0, <1>5, OnlyRows
  <2>1. r.loaded.license[l] = db.license[l]
    BY <1>3, <2>0 DEF IsOnly
  <2> QED
    BY <1>1, <1>3, <1>4, <1>5, <1>6, <2>1 DEF HalfOk, SeenNow
<1>9. ServedOk(t, r)
  BY <1>2, <1>3, <1>6 DEF ServedOk, TokenLock
<1>10. TxOk(t, r)
  BY <1>4, <1>6, <1>7, <1>8, <1>9 DEF TxOk, KnownOk
<1>11. \A u \in Threads \ {t} : Open(u) => r.locks \cap tx[u].locks = {}
  BY <1>0, <1>2, <1>6, CanLockApart
<1> QED
  BY <1>2, <1>4, <1>5, <1>6, <1>7, <1>8, <1>10, <1>11, ReadNow DEF Begins, Goes1, ClearOk

LEMMA RenewCardBegins ==
  ASSUME ServiceInv, NEW t \in Clients, NEW c \in Cards, RenewCard(t, c)
  PROVE  Begins(t)
<1> DEFINE l == tx[t].license
           snapshot == tx[t].loaded
           loaded == [snapshot EXCEPT !.card[c] = db.card[c]]
           bought == Consumed(loaded, c, l)
           row == Renewed(loaded.license[l], Days[c])
           work == [bought EXCEPT !.license[l] = row]
           r == tx'[t]
<1>0. t \in Threads /\ db \in Tables /\ TxType /\ RowsInv /\ clock \in Nat /\ Days[c] \in Nat
      /\ "renew" \in RequestKinds /\ ServiceInv
  BY Basics DEF Threads, RequestKinds
<1>1. /\ tx[t].pc = "authenticated" /\ CanLock(t, CardLock(c)) /\ db.card[c].status = "unused"
      /\ Goes(t, "ready", "renew", tx[t].machine, l, {c}, tx[t].locks \cup CardLock(c), loaded, work)
      /\ UNCHANGED <<db, clock, history>>
  BY DEF RenewCard
<1>2. Open(t) /\ HalfOk(t, tx[t]) /\ ServedOk(t, tx[t])
  BY <1>0, <1>1 DEF ServiceInv, Open, TxOk
<1>3. /\ tx[t].loaded \in Tables /\ tx[t].locks \subseteq Rows
      /\ l \in Licenses /\ db.license[l].status # "absent" /\ tx[t].machine \in Machines
      /\ tx[t].loaded.license[l].status \in {"active", "expired"}
  BY <1>0, <1>1, <1>2, OpenType DEF HalfOk, ServedOk
<1>4. db.card[c] \in CardRow
  BY <1>0 DEF Tables
<1>21. snapshot \in Tables /\ snapshot.license[l].status \in {"active", "expired"}
  BY <1>3
<1> HIDE DEF l, snapshot
<1>5. /\ loaded \in Tables /\ Same(snapshot, loaded, {"license", "devices", "code"})
      /\ \A x \in Cards : loaded.card[x] = IF x = c THEN db.card[c] ELSE snapshot.card[x]
  BY <1>4, <1>21, CardWritten
<1> HIDE DEF loaded
<1>6. /\ bought \in Tables /\ Same(loaded, bought, {"license", "devices", "code"})
      /\ \A x \in Cards : bought.card[x] = IF x = c THEN [status |-> "used", license |-> l]
                                                     ELSE loaded.card[x]
  BY <1>3, <1>5, ConsumedRows
<1>7. /\ row \in LicenseRow /\ row.status = "active" /\ row.limit = loaded.license[l].limit
      /\ LET old == loaded.license[l].expires IN
         \/ Days[c] = 0 /\ row.expires = Never
         \/ row.expires # old /\ row.expires >= old + Days[c]
  <2>1. loaded.license[l] \in LicenseRow
    BY <1>3, <1>5 DEF Tables
  <2> QED
    BY <1>0, <2>1, RenewedRow DEF Edited
<1> HIDE DEF bought, row
<1>8. /\ work \in Tables /\ Same(bought, work, {"card", "devices", "code"})
      /\ \A k \in Licenses : work.license[k] = IF k = l THEN row ELSE bought.license[k]
  BY SMTT(30), <1>3, <1>6, <1>7, LicenseWritten
<1> HIDE DEF work
<1>9. /\ \A x \in Cards : work.card[x] = IF x = c THEN [status |-> "used", license |-> l]
                                                   ELSE loaded.card[x]
      /\ \A k \in Licenses : work.license[k] = IF k = l THEN row ELSE loaded.license[k]
      /\ work.device = loaded.device /\ work.token = loaded.token /\ work.code = loaded.code
      /\ loaded.card[c] = db.card[c] /\ loaded.license[l].status \in {"active", "expired"}
  BY <1>5, <1>6, <1>8, <1>21 DEF Same
<1>10. /\ Goes1(t, "ready", "renew", tx[t].machine, l, {c}, tx[t].locks \cup CardLock(c))
       /\ Keeps(r, loaded, work)
  <2>1. {c} \in SUBSET Keys /\ (tx[t].locks \cup CardLock(c)) \in SUBSET Rows
    BY <1>3 DEF Keys, CardLock, Rows
  <2>2. l \in Licenses \cup {NoLicense} /\ tx[t].machine \in Machines \cup {"admin"}
    BY <1>3
  <2> QED
    BY <1>0, <1>1, <1>5, <1>8, <2>1, <2>2, GoesType
<1>11. /\ r.license = l /\ r.consumes = {c} /\ r.locks = tx[t].locks \cup CardLock(c)
       /\ r.pc = "ready" /\ r.kind = "renew" /\ r.machine = tx[t].machine
  BY <1>10 DEF Goes1
<1>12. CardOk(t, r)
  BY <1>1, <1>3, <1>9, <1>10, <1>11 DEF CardOk, Keeps, CardLock
<1>13. LicenseOk(t, r) /\ LimitOk(r) /\ DatesOk(t, r)
  <2>1. LicenseOk(t, r)
    BY <1>3, <1>7, <1>9, <1>10, <1>11 DEF LicenseOk, Keeps
  <2>2. LimitOk(r)
    BY <1>3, <1>7, <1>9, <1>10 DEF LimitOk, Keeps
  <2>3. DatesOk(t, r)
    BY <1>9, <1>10, <1>11 DEF DatesOk, Keeps
  <2> QED
    BY <2>1, <2>2, <2>3
<1>18. PaidOk(r) /\ SeenNow(t, r)
  <2> DEFINE old == r.loaded.license[l].expires
             new == r.work.license[l].expires
  <2>1. \/ old = loaded.license[l].expires /\ new = row.expires
        \/ new = old /\ row.expires = loaded.license[l].expires
    BY <1>3, <1>9, <1>10 DEF Keeps
  <2>2. PaidOk(r)
    BY <1>7, <1>11, <2>1 DEF PaidOk
  <2>3. loaded.license[l].expires = tx[t].loaded.license[l].expires /\ tx[t].license = l
        /\ tx[t].kind = "renew"
    BY <1>1, <1>2, <1>5 DEF Same, snapshot, l, HalfOk
  <2>4. SeenNow(t, r)
    BY <1>1, <1>2, <1>11, <2>1, <2>3 DEF SeenNow
  <2> QED
    BY <2>2, <2>4
<1>14. DeviceOk(r) /\ BindOk(r) /\ CodeOk(r) /\ ClearOk(r)
  BY <1>9, <1>10, <1>11, SameDevices, SameCodes DEF ClearOk
<1>15. ServedOk(t, r)
  BY <1>1, <1>2, <1>11 DEF ServedOk, HalfOk, l
<1>16. TxOk(t, r)
  BY <1>3, <1>11, <1>12, <1>13, <1>14, <1>15, <1>18 DEF TxOk, KnownOk, HalfOk
<1>17. \A u \in Threads \ {t} : Open(u) => r.locks \cap tx[u].locks = {}
  BY <1>0, <1>1, <1>2, <1>11, CanLockApart DEF ServiceInv, Apart
<1> QED
  BY <1>1, <1>3, <1>10, <1>11, <1>12, <1>14, <1>16, <1>17, <1>18, ReadNow DEF Begins, Goes1

-----------------------------------------------------------------------------
(* The administrators' requests.                                           *)

\* What an administrator's handler makes of the rows it read.
AdminWork(l, work) ==
  /\ \A c \in Cards :
       \/ work.card[c] = db.card[c]
       \/ /\ work.card[c].license = db.card[c].license /\ work.card[c].status # "absent"
          /\ work.card[c].status = "unused"
               => db.card[c].license = NoLicense /\ db.card[c].status # "unused"
  /\ \A k \in Licenses :
       /\ work.license[k].limit = db.license[k].limit
       /\ \/ work.license[k].status = db.license[k].status
          \/ k = l /\ work.license[k].status # "absent"
  /\ \A d \in Devices :
       \/ work.device[d] = db.device[d] /\ work.token[d] = db.token[d]
       \/ /\ db.device[d] = "active" /\ db.token[d] = "valid"
          /\ work.device[d] = "revoked" /\ work.token[d] = "revoked"
  /\ \A x \in Codes :
       \/ work.code[x] = db.code[x]
       \/ /\ ~db.code[x].exists /\ l \in Licenses
          /\ work.code[x].exists /\ ~work.code[x].used /\ work.code[x].license = l

LEMMA AdministersBegins ==
  ASSUME ServiceInv, NEW t \in Admins, NEW kind \in RequestKinds,
         NEW l \in Licenses \cup {NoLicense}, NEW locks \in SUBSET Rows, NEW work \in Tables,
         Administers(t, kind, l, locks, work), AdminWork(l, work),
         l = NoLicense \/ db.license[l].status # "absent",
         \A u \in Threads \ {t} : Open(u) => locks \cap tx[u].locks = {}
  PROVE  Begins(t)
<1> DEFINE r == tx'[t]
<1>0. t \in Threads /\ t \notin Clients /\ db \in Tables /\ TxType /\ RowsInv
  BY Basics DEF Threads
<1>1. Goes(t, "ready", kind, "admin", l, {}, locks, db, work) /\ UNCHANGED <<db, clock, history>>
  BY DEF Administers
<1>2. Goes1(t, "ready", kind, "admin", l, {}, locks) /\ Keeps(r, db, work)
  <2> DEFINE keys == {}
             m == "admin"
  <2>1. /\ Goes(t, "ready", kind, m, l, keys, locks, db, work) /\ keys \in SUBSET Keys
        /\ m \in Machines \cup {"admin"}
    BY <1>1
  <2> HIDE DEF keys, m
  <2>2. Goes1(t, "ready", kind, m, l, keys, locks) /\ Keeps(r, db, work)
    BY <1>0, <2>1, GoesType
  <2> QED
    BY <2>2 DEF keys, m
<1>3. r.license = l /\ r.consumes = {} /\ r.locks = locks /\ r.pc = "ready"
  BY <1>2 DEF Goes1
<1>4. CardOk(t, r) /\ \A c \in Cards : r.work.card[c] = r.loaded.card[c] \/ r.loaded.card[c] = db.card[c]
  BY SMTT(30), <1>2, <1>3 DEF CardOk, Keeps, AdminWork
<1>5. LicenseOk(t, r) /\ LimitOk(r) /\ DatesOk(t, r)
  <2>1. \A k \in Licenses : k = l => db.license[k].status # "absent"
    OBVIOUS
  <2>2. LicenseOk(t, r)
    BY <1>0, <1>2, <1>3, <2>1 DEF LicenseOk, Keeps, AdminWork
  <2>3. LimitOk(r)
    <3> SUFFICES ASSUME NEW k \in Licenses
                 PROVE  /\ r.work.license[k].limit = r.loaded.license[k].limit
                        /\ r.loaded.license[k].status = "absent"
                             => r.work.license[k].status = "absent"
      BY DEF LimitOk
    <3>1. /\ work.license[k].limit = db.license[k].limit
          /\ db.license[k].status = "absent" => work.license[k].status = "absent"
      BY <2>1 DEF AdminWork
    <3> QED
      BY <1>2, <3>1 DEF Keeps
  <2>4. DatesOk(t, r)
    BY DEF DatesOk
  <2> QED
    BY <2>2, <2>3, <2>4
<1>6. DeviceOk(r) /\ BindOk(r)
  BY <1>2 DEF DeviceOk, BindOk, Binds, Keeps, AdminWork
<1>7. CodeOk(r)
  <2>1. \A x \in Codes : ~db.code[x].exists => ~db.code[x].used /\ db.code[x].license = NoLicense
    BY <1>0 DEF RowsInv
  <2> QED
    BY <1>2, <1>3, <2>1 DEF CodeOk, Keeps, AdminWork
<1>8. KnownOk(r) /\ HalfOk(t, r) /\ ServedOk(t, r) /\ PaidOk(r) /\ SeenNow(t, r)
  BY <1>0, <1>3 DEF KnownOk, HalfOk, ServedOk, PaidOk, SeenNow
<1> QED
  BY <1>1, <1>2, <1>3, <1>4, <1>5, <1>6, <1>7, <1>8 DEF Begins, Goes1, TxOk, ClearOk

\* Administrators who lock no row, or only the license they change.
LEMMA NoLocks ==
  \A t, u \in Threads : {} \cap tx[u].locks = {}
OBVIOUS

\* The work of a handler that touches one table only.
LEMMA CardWork ==
  ASSUME NEW l, NEW work, Same(db, work, {"license", "devices", "code"}),
         \A c \in Cards :
           \/ work.card[c] = db.card[c]
           \/ /\ work.card[c].license = db.card[c].license /\ work.card[c].status # "absent"
              /\ work.card[c].status = "unused"
                   => db.card[c].license = NoLicense /\ db.card[c].status # "unused"
  PROVE  AdminWork(l, work)
BY DEF Same, AdminWork

LEMMA LicenseWork ==
  ASSUME NEW l, NEW work, Same(db, work, {"card", "devices", "code"}),
         \A k \in Licenses :
           /\ work.license[k].limit = db.license[k].limit
           /\ \/ work.license[k].status = db.license[k].status
              \/ k = l /\ work.license[k].status # "absent"
  PROVE  AdminWork(l, work)
BY DEF Same, AdminWork

LEMMA GenerateBegins ==
  ASSUME ServiceInv, NEW t \in Admins, NEW batch \in SUBSET Cards, Generate(t, batch)
  PROVE  Begins(t)
<1> DEFINE row == [status |-> "unused", license |-> NoLicense]
           card == [c \in Cards |-> IF c \in batch THEN row ELSE db.card[c]]
           work == [db EXCEPT !.card = card]
<1>0. db \in Tables /\ RowsInv /\ "generate" \in RequestKinds
  BY Basics DEF RequestKinds
<1>1. /\ \A c \in batch : db.card[c].status = "absent"
      /\ Administers(t, "generate", NoLicense, {}, work)
  BY DEF Generate
<1>2. row \in CardRow /\ row.status = "unused" /\ row.license = NoLicense
  BY DEF CardRow, CardStatuses
<1> HIDE DEF row
<1>3. card \in [Cards -> CardRow] /\ \A c \in Cards : card[c] = IF c \in batch THEN row ELSE db.card[c]
  BY <1>0, <1>2 DEF Tables
<1> HIDE DEF card
<1>4. work \in Tables /\ work.card = card /\ Same(db, work, {"license", "devices", "code"})
  BY <1>0, <1>3 DEF Tables, Same
<1>5. \A c \in batch : db.card[c].license = NoLicense
  BY <1>0, <1>1 DEF RowsInv
<1>6. AdminWork(NoLicense, work)
  <2>1. \A c \in Cards :
          \/ work.card[c] = db.card[c]
          \/ /\ work.card[c].license = db.card[c].license /\ work.card[c].status # "absent"
             /\ work.card[c].status = "unused"
                  => db.card[c].license = NoLicense /\ db.card[c].status # "unused"
    BY <1>1, <1>2, <1>3, <1>4, <1>5
  <2> HIDE DEF work
  <2> QED
    BY <1>4, <2>1, CardWork
<1> HIDE DEF work
<1> QED
  BY <1>0, <1>1, <1>4, <1>6, AdministersBegins

LEMMA DisableCardBegins ==
  ASSUME ServiceInv, NEW t \in Admins, NEW c \in Cards, DisableCard(t, c)
  PROVE  Begins(t)
<1> DEFINE l == db.card[c].license
           row == [db.card[c] EXCEPT !.status = DisabledStatus]
           view == [db EXCEPT !.card[c] = row]
           off == [view.license[l] EXCEPT !.status = "disabled"]
           both == [view EXCEPT !.license[l] = off]
           work == IF l = NoLicense THEN view ELSE both
<1>0. /\ db \in Tables /\ RowsInv /\ clock \in Nat /\ "disable card" \in RequestKinds
      /\ db.card[c] \in CardRow
  BY Basics DEF RequestKinds, Tables
<1>1. Administers(t, "disable card", l, {}, work)
  BY <1>0 DEF DisableCard, Tables
<1>2. l \in Licenses \cup {NoLicense} /\ (l # NoLicense => db.license[l].status # "absent")
  BY <1>0 DEF RowsInv, CardRow
<1>3. row \in CardRow /\ row.license = db.card[c].license /\ row.status = "disabled"
  BY <1>0 DEF CardRow, CardStatuses, DisabledStatus
<1>8. row \in CardRow /\ db \in Tables
  BY <1>0, <1>3
<1> HIDE DEF row, l
<1>4. /\ view \in Tables /\ Same(db, view, {"license", "devices", "code"})
      /\ \A x \in Cards : view.card[x] = IF x = c THEN row ELSE db.card[x]
  BY <1>8, CardWritten
<1> HIDE DEF view
<1>5. ASSUME l # NoLicense
      PROVE  /\ both \in Tables /\ Same(view, both, {"card", "devices", "code"})
             /\ \A k \in Licenses : both.license[k] = IF k = l THEN off ELSE view.license[k]
             /\ off.status = "disabled" /\ off.limit = view.license[l].limit
             /\ off.expires = view.license[l].expires
  <2>1. l \in Licenses /\ view.license[l] \in LicenseRow
    BY <1>2, <1>4, <1>5 DEF Tables
  <2>2. /\ off \in LicenseRow /\ off.status = "disabled" /\ off.limit = view.license[l].limit
        /\ off.expires = view.license[l].expires
    BY <1>0, <2>1, LicenseRows DEF Edited
  <2> HIDE DEF off
  <2> QED
    BY <1>4, <2>1, <2>2, LicenseWritten
<1> HIDE DEF off, both
<1>6. /\ work \in Tables
      /\ \A x \in Cards : work.card[x] = IF x = c THEN row ELSE db.card[x]
      /\ \A k \in Licenses : \/ work.license[k] = db.license[k]
                             \/ /\ k = l /\ work.license[k].status = "disabled"
                                /\ work.license[k].limit = db.license[k].limit
                                /\ work.license[k].expires = db.license[k].expires
      /\ work.device = db.device /\ work.token = db.token /\ work.code = db.code
  <2>1. CASE l = NoLicense
    BY <1>4, <2>1 DEF Same
  <2>2. CASE l # NoLicense
    BY <1>4, <1>5, <2>2 DEF Same
  <2> QED
    BY <2>1, <2>2
<1> HIDE DEF work
<1>7. AdminWork(l, work)
  BY <1>3, <1>6 DEF AdminWork
<1> QED
  BY <1>0, <1>1, <1>2, <1>6, <1>7, AdministersBegins

LEMMA EnableCardBegins ==
  ASSUME ServiceInv, NEW t \in Admins, NEW c \in Cards, EnableCard(t, c)
  PROVE  Begins(t)
<1> DEFINE l == db.card[c].license
           row == [db.card[c] EXCEPT !.status = IF l = NoLicense THEN "unused" ELSE "used"]
           view == [db EXCEPT !.card[c] = row]
           on == Restored(db.license[l])
           both == [view EXCEPT !.license[l] = on]
           work == IF l = NoLicense THEN view ELSE both
<1>0. /\ db \in Tables /\ RowsInv /\ clock \in Nat /\ "enable card" \in RequestKinds
      /\ db.card[c] \in CardRow
  BY Basics DEF RequestKinds, Tables
<1>1. Administers(t, "enable card", l, {}, work) /\ db.card[c].status = "disabled"
  BY <1>0 DEF EnableCard, Tables
<1>2. l \in Licenses \cup {NoLicense} /\ (l # NoLicense => db.license[l].status # "absent")
  BY <1>0 DEF RowsInv, CardRow
<1>3. /\ row \in CardRow /\ row.license = db.card[c].license
      /\ row.status = (IF l = NoLicense THEN "unused" ELSE "used")
  BY <1>0 DEF CardRow, CardStatuses
<1>8. row.license = l /\ db.card[c].license = l
  BY <1>3
<1>9. row \in CardRow /\ db \in Tables
  BY <1>0, <1>3
<1> HIDE DEF row, l
<1>4. /\ view \in Tables /\ Same(db, view, {"license", "devices", "code"})
      /\ \A x \in Cards : view.card[x] = IF x = c THEN row ELSE db.card[x]
  BY <1>9, CardWritten
<1> HIDE DEF view
<1>5. ASSUME l # NoLicense
      PROVE  /\ both \in Tables /\ Same(view, both, {"card", "devices", "code"})
             /\ \A k \in Licenses : both.license[k] = IF k = l THEN on ELSE view.license[k]
             /\ on.status \in {"active", "expired"} /\ on.limit = db.license[l].limit
             /\ on.expires = db.license[l].expires
  <2>1. l \in Licenses /\ db.license[l] \in LicenseRow
    BY <1>0, <1>2, <1>5 DEF Tables
  <2>2. /\ on \in LicenseRow /\ on.status \in {"active", "expired"}
        /\ on.limit = db.license[l].limit /\ on.expires = db.license[l].expires
    BY <1>0, <2>1, LicenseRows DEF Edited
  <2> HIDE DEF on
  <2> QED
    BY <1>4, <2>1, <2>2, LicenseWritten
<1> HIDE DEF on, both
<1>6. /\ work \in Tables
      /\ \A x \in Cards : work.card[x] = IF x = c THEN row ELSE db.card[x]
      /\ \A k \in Licenses : \/ work.license[k] = db.license[k]
                             \/ /\ k = l /\ work.license[k].status \in {"active", "expired"}
                                /\ work.license[k].limit = db.license[k].limit
                                /\ work.license[k].expires = db.license[k].expires
      /\ work.device = db.device /\ work.token = db.token /\ work.code = db.code
  <2>1. CASE l = NoLicense
    BY <1>4, <2>1 DEF Same
  <2>2. CASE l # NoLicense
    BY <1>4, <1>5, <2>2 DEF Same
  <2> QED
    BY <2>1, <2>2
<1> HIDE DEF work
<1>7. AdminWork(l, work)
  BY <1>1, <1>3, <1>6, <1>8 DEF AdminWork
<1> QED
  BY <1>0, <1>1, <1>2, <1>6, <1>7, AdministersBegins

LEMMA VoidCardBegins ==
  ASSUME ServiceInv, NEW t \in Admins, NEW c \in Cards, VoidCard(t, c)
  PROVE  Begins(t)
<1> DEFINE row == [db.card[c] EXCEPT !.status = "void"]
           work == [db EXCEPT !.card[c] = row]
<1>0. db \in Tables /\ RowsInv /\ "void card" \in RequestKinds /\ db.card[c] \in CardRow
  BY Basics DEF RequestKinds, Tables
<1>1. Administers(t, "void card", NoLicense, {}, work)
  BY <1>0 DEF VoidCard, Tables
<1>2. row \in CardRow /\ row.license = db.card[c].license /\ row.status = "void"
  BY <1>0 DEF CardRow, CardStatuses
<1>5. row \in CardRow /\ db \in Tables
  BY <1>0, <1>2
<1> HIDE DEF row
<1>3. /\ work \in Tables /\ Same(db, work, {"license", "devices", "code"})
      /\ \A x \in Cards : work.card[x] = IF x = c THEN row ELSE db.card[x]
  BY <1>5, CardWritten
<1> HIDE DEF work
<1>4. AdminWork(NoLicense, work)
  BY <1>2, <1>3, CardWork
<1> QED
  BY <1>0, <1>1, <1>3, <1>4, AdministersBegins

LEMMA LicenseActionBegins ==
  ASSUME ServiceInv, NEW t \in Admins, NEW l \in Licenses, NEW kind \in RequestKinds,
         NEW row \in LicenseRow, row.status # "absent", row.limit = db.license[l].limit,
         LicenseAction(t, l, kind, row)
  PROVE  Begins(t)
<1> DEFINE work == [db EXCEPT !.license[l] = row]
           locks == {<<"license", l>>}
<1>0. t \in Threads /\ db \in Tables /\ RowsInv
  BY Basics DEF Threads
<1>1. /\ Administers(t, kind, l, locks, work) /\ CanLock(t, locks)
      /\ db.license[l].status # "absent" /\ kind \in Requests
  BY DEF LicenseAction, Administers, Starts
<1>2. /\ work \in Tables /\ Same(db, work, {"card", "devices", "code"})
      /\ \A k \in Licenses : work.license[k] = IF k = l THEN row ELSE db.license[k]
  BY <1>0, LicenseWritten
<1>3. locks \in SUBSET Rows
  BY DEF Rows
<1> HIDE DEF work, locks
<1>4. AdminWork(l, work)
  BY <1>1, <1>2, LicenseWork
<1>5. \A u \in Threads \ {t} : Open(u) => locks \cap tx[u].locks = {}
  BY <1>0, <1>1, CanLockApart
<1> QED
  BY <1>0, <1>1, <1>2, <1>3, <1>4, <1>5, AdministersBegins

LEMMA LicenseActionsBegin ==
  ASSUME ServiceInv, NEW t \in Admins, NEW l \in Licenses,
         \/ DisableLicense(t, l) \/ EnableLicense(t, l) \/ SetPermanent(t, l)
         \/ Extend(t, l, 1)
  PROVE  Begins(t)
<1> DEFINE row == db.license[l]
<1>0. /\ row \in LicenseRow /\ clock \in Nat
      /\ {"disable", "enable", "set_permanent", "extend"} \subseteq RequestKinds
  BY Basics DEF RequestKinds, Tables
<1>1. ASSUME DisableLicense(t, l) PROVE Begins(t)
  BY <1>0, <1>1, LicenseRows, LicenseActionBegins DEF DisableLicense, Edited
<1>2. ASSUME EnableLicense(t, l) PROVE Begins(t)
  BY <1>0, <1>2, LicenseRows, LicenseActionBegins DEF EnableLicense, Edited
<1>3. ASSUME SetPermanent(t, l) PROVE Begins(t)
  BY <1>0, <1>3, LicenseRows, LicenseActionBegins DEF SetPermanent, Edited
<1>4. ASSUME Extend(t, l, 1) PROVE Begins(t)
  <2> DEFINE base == IF row.expires > clock THEN row.expires ELSE clock
             until == base + 1
             new == [row EXCEPT !.status = "active", !.expires = until]
  <2>1. until \in Nat
    BY <1>0 DEF LicenseRow, Never
  <2>2. LicenseAction(t, l, "extend", new)
    BY <1>4 DEF Extend
  <2> HIDE DEF until
  <2>3. new \in LicenseRow /\ new.status = "active" /\ new.limit = row.limit
    BY ZenonT(30), <1>0, <2>1, LicenseRows DEF Edited
  <2> HIDE DEF new
  <2> QED
    BY <1>0, <2>2, <2>3, LicenseActionBegins
<1> QED
  BY <1>1, <1>2, <1>3, <1>4

LEMMA CreateCodeBegins ==
  ASSUME ServiceInv, NEW t \in Admins, NEW x \in Codes, NEW l \in Licenses, CreateCode(t, x, l)
  PROVE  Begins(t)
<1> DEFINE row == [exists |-> TRUE, license |-> l, used |-> FALSE, until |-> clock + CodeLife]
           work == [db EXCEPT !.code[x] = row]
<1>0. db \in Tables /\ RowsInv /\ clock \in Nat /\ "rebind-code" \in RequestKinds
  BY Basics DEF RequestKinds
<1>1. /\ Administers(t, "rebind-code", l, {}, work)
      /\ db.license[l].status # "absent" /\ ~db.code[x].exists
  BY DEF CreateCode
<1>2. row \in CodeRow /\ row.exists /\ ~row.used /\ row.license = l
  BY <1>0 DEF CodeRow
<1> HIDE DEF row
<1>3. /\ work \in Tables /\ Same(db, work, {"card", "license", "devices"})
      /\ \A y \in Codes : work.code[y] = IF y = x THEN row ELSE db.code[y]
  BY <1>0, <1>2, CodeWritten
<1> HIDE DEF work
<1>4. AdminWork(l, work)
  BY <1>1, <1>2, <1>3 DEF AdminWork, Same
<1> QED
  BY <1>0, <1>1, <1>3, <1>4, AdministersBegins

LEMMA UnbindBegins ==
  ASSUME ServiceInv, NEW t \in Admins, NEW d \in Devices, Unbind(t, d)
  PROVE  Begins(t)
<1> DEFINE l == d[1]
           work == Unbound(db, d)
<1>0. db \in Tables /\ RowsInv /\ "unbind" \in RequestKinds /\ l \in Licenses
  BY Basics DEF RequestKinds, Devices
<1>1. Administers(t, "unbind", l, {}, work) /\ db.device[d] # "absent"
  BY DEF Unbind
<1>2. /\ work \in Tables /\ Same(db, work, {"card", "license", "code"})
      /\ \A e \in Devices :
           /\ work.device[e] = IF e = d THEN "revoked" ELSE db.device[e]
           /\ work.token[e] = IF e = d THEN "revoked" ELSE db.token[e]
  BY <1>0, UnboundRows
<1> HIDE DEF work
<1>3. db.license[l].status # "absent" /\ \A e \in Devices : Match(db.device[e], db.token[e])
  BY <1>0, <1>1 DEF RowsInv, Match
<1>4. AdminWork(l, work)
  BY <1>1, <1>2, <1>3 DEF AdminWork, Same, Match
<1> HIDE DEF l
<1> QED
  BY <1>0, <1>1, <1>2, <1>3, <1>4, AdministersBegins

\* A step of a request that is being handled opens a transaction or goes on in it.
LEMMA RequestsBegin ==
  ASSUME ServiceInv, NEW t \in Threads,
         \/ t \in Clients /\ ClientStep(t)
         \/ t \in Admins /\ AdminStep(t)
  PROVE  Begins(t)
<1>1. CASE t \in Clients /\ ClientStep(t)
  <2>1. ASSUME NEW d \in Devices, Check(t, d) \/ Renew(t, d) PROVE Begins(t)
    BY <1>1, <2>1, AuthenticateBegins DEF Check, Renew
  <2> QED
    BY <1>1, <2>1, ActivateCardBegins, ActivateCodeBegins, RenewCardBegins DEF ClientStep
<1>2. CASE t \in Admins /\ AdminStep(t)
  BY <1>2, GenerateBegins, DisableCardBegins, EnableCardBegins, VoidCardBegins,
     LicenseActionsBegin, CreateCodeBegins, UnbindBegins DEF AdminStep
<1> QED
  BY <1>1, <1>2

-----------------------------------------------------------------------------
(* The invariant through a request, a commit, an abort and a tick.         *)

LEMMA BeginsKeeps ==
  ASSUME ServiceInv, NEW t \in Threads, Begins(t)
  PROVE  ServiceInv'
<1>0. /\ db' = db /\ clock' = clock /\ HistoryType' = HistoryType /\ TxOk(t, tx'[t])
      /\ tx' \in [Threads -> {Idle} \cup Transaction]
      /\ \A u \in Threads \ {t} : tx'[u] = tx[u]
      /\ \A u \in Threads \ {t} : Open(u) => tx'[t].locks \cap tx[u].locks = {}
      /\ \/ tx'[t].license = NoLicense \/ db.license[tx'[t].license].status # "absent"
         \/ tx'[t].license \in FreshLicenses
  BY DEF Begins, history, HistoryType
<1>1. TypeInv' /\ RowsInv'
  <2>1. TypeInv'
    BY <1>0 DEF ServiceInv, TypeInv, TxType
  <2>2. RowsInv'
    BY <1>0 DEF ServiceInv, RowsInv
  <2> QED
    BY <2>1, <2>2
<1>2. \A u \in Threads : Open(u)' => TxOk(u, tx'[u])
  BY <1>0 DEF ServiceInv, Open
<1>3. ASSUME NEW u \in Threads, TxOk(u, tx'[u]) PROVE TxOk(u, tx[u])'
  <2>1. CardOk(u, tx[u])' /\ LicenseOk(u, tx[u])' /\ KnownOk(tx[u])'
    BY <1>0, <1>3 DEF TxOk, CardOk, LicenseOk, KnownOk, Creates
  <2>2. LimitOk(tx[u])' /\ DatesOk(u, tx[u])' /\ PaidOk(tx[u])'
    BY <1>0, <1>3 DEF TxOk, LimitOk, DatesOk, PaidOk, Creates
  <2>4. DeviceOk(tx[u])' /\ CodeOk(tx[u])'
    BY <1>0, <1>3 DEF TxOk, DeviceOk, CodeOk
  <2>3. HalfOk(u, tx[u])' /\ ServedOk(u, tx[u])'
    BY <1>0, <1>3 DEF TxOk, HalfOk, ServedOk
  <2> QED
    BY <2>1, <2>2, <2>3, <2>4 DEF TxOk
<1>4. \A u \in Threads : Creates(tx[u])' <=> Creates(tx'[u])
  BY <1>0 DEF Creates
<1>5. Apart'
  <2> SUFFICES ASSUME NEW a \in Threads, NEW u \in Threads, a # u, Open(a)', Open(u)'
               PROVE  /\ tx'[a].locks \cap tx'[u].locks = {}
                      /\ Creates(tx'[a]) => tx'[u].license # tx'[a].license
    BY <1>4 DEF Apart
  <2>1. CASE a # t /\ u # t
    BY <1>0, <2>1 DEF ServiceInv, Apart, Open
  <2>2. CASE a = t
    <3>1. tx'[u] = tx[u] /\ Open(u)
      BY <1>0, <2>2 DEF Open
    <3>2. ASSUME Creates(tx'[a]) PROVE tx'[u].license # tx'[a].license
      <4>1. tx'[t].license \in FreshLicenses
        BY <1>0, <2>2, <3>2 DEF Creates
      <4> QED
        BY <2>2, <3>1, <4>1 DEF FreshLicenses, Open
    <3> QED
      BY <1>0, <2>2, <3>1, <3>2
  <2>3. CASE u = t
    <3>1. tx'[a] = tx[a] /\ Open(a)
      BY <1>0, <2>3 DEF Open
    <3>2. ASSUME Creates(tx'[a]) PROVE tx'[u].license # tx'[a].license
      BY <1>0, <2>3, <3>1, <3>2 DEF Creates, FreshLicenses, Open
    <3> QED
      BY <1>0, <2>3, <3>1, <3>2
  <2> QED
    BY <2>1, <2>2, <2>3
<1> QED
  BY <1>1, <1>2, <1>3, <1>5 DEF ServiceInv

\* What a commit does to each row: nothing, or what its request was made for.
Commits(t) ==
  LET r == tx[t]
      W == Written(r.loaded, r.work)
  IN
  /\ db' \in Tables
  /\ \A c \in Cards :
       \/ db'.card[c] = db.card[c] /\ c \notin r.consumes
       \/ /\ t \in Clients /\ c \in r.consumes /\ <<"card", c>> \in W
          /\ db.card[c].status = "unused" /\ r.license \in Licenses
          /\ db'.card[c].status = "used" /\ db'.card[c].license = r.license
       \/ /\ t \in Admins /\ c \notin r.consumes /\ <<"card", c>> \in W
          /\ db'.card[c].license = db.card[c].license
          /\ \/ db'.card[c].status = db.card[c].status
             \/ db'.card[c].status = r.work.card[c].status /\ db'.card[c].status # "absent"
  /\ \A l \in Licenses :
       \/ db'.license[l].status = db.license[l].status
       \/ /\ l = r.license /\ db'.license[l].status # "absent"
          /\ \/ db.license[l].status = "absent"
             \/ t \in Clients => r.loaded.license[l].status = "expired"
  /\ \A l \in Licenses :
       \/ /\ db'.license[l].limit = db.license[l].limit
          /\ db'.license[l].status = "absent" <=> db.license[l].status = "absent"
       \/ db'.license[l].limit # 0 /\ db'.license[l].status # "absent"
  /\ \A l \in Licenses :
       \/ db'.license[l].expires = db.license[l].expires
       \/ /\ r.work.license[l].expires # r.loaded.license[l].expires
          /\ db'.license[l].expires = r.work.license[l].expires
  /\ r.license \in Licenses => db'.license[r.license].status # "absent"
  /\ \A d \in Devices :
       \/ db'.device[d] = db.device[d] /\ db'.token[d] = db.token[d]
       \/ /\ db.device[d] = "absent" /\ db.token[d] = "absent" /\ d[1] = r.license
          /\ db'.device[d] = "active" /\ db'.token[d] = "valid"
       \/ /\ <<"token", d>> \in W /\ db.token[d] # "absent"
          /\ db'.device[d] = "revoked" /\ db'.token[d] = "revoked"
  /\ \A x \in Codes :
       \/ db'.code[x] = db.code[x] /\ x \notin r.consumes
       \/ /\ x \in r.consumes /\ <<"code", x>> \in W /\ db.code[x].exists /\ ~db.code[x].used
          /\ db'.code[x].exists /\ db'.code[x].used /\ db'.code[x].license = db.code[x].license
       \/ /\ x \notin r.consumes /\ ~db.code[x].exists /\ r.license \in Licenses
          /\ db'.code[x].exists /\ ~db'.code[x].used /\ db'.code[x].license = r.license

LEMMA CommitRows ==
  ASSUME ServiceInv, NEW t \in Threads, Commit(t)
  PROVE  Commits(t)
<1> DEFINE r == tx[t]
           L == r.loaded
           K == r.work
           W == Written(L, K)
<1>0. /\ db \in Tables /\ TxType /\ RowsInv /\ Open(t) /\ TxOk(t, r)
      /\ db' = Flushed(L, K, db) /\ ~Collides(t)
  BY Basics DEF Commit, ServiceInv, Open
<1>1. L \in Tables /\ K \in Tables
  BY <1>0, OpenType
<1>2. /\ db' \in Tables
      /\ \A c \in Cards : db'.card[c] = Columns(L.card[c], K.card[c], db.card[c])
      /\ \A l \in Licenses : db'.license[l] = Columns(L.license[l], K.license[l], db.license[l])
      /\ \A x \in Codes : db'.code[x] = Columns(L.code[x], K.code[x], db.code[x])
      /\ \A d \in Devices :
           /\ db'.device[d] = IF K.device[d] # L.device[d] THEN K.device[d] ELSE db.device[d]
           /\ db'.token[d] = IF K.token[d] # L.token[d] THEN K.token[d] ELSE db.token[d]
  <2>1. db \in Tables /\ db' = Flushed(L, K, db)
    BY <1>0
  <2> HIDE DEF L, K
  <2> QED
    BY <1>1, <2>1, FlushedRows
<1>3. /\ \A c \in Cards : <<"card", c>> \in W <=> K.card[c] # L.card[c]
      /\ \A x \in Codes : <<"code", x>> \in W <=> K.code[x] # L.code[x]
      /\ \A d \in Devices : <<"token", d>> \in W <=> K.token[d] # L.token[d]
  BY WrittenRows
<1>4. /\ CardOk(t, r) /\ LicenseOk(t, r) /\ LimitOk(r) /\ KnownOk(r) /\ DeviceOk(r) /\ CodeOk(r)
  BY <1>0 DEF TxOk
<1>5. /\ \A d \in Devices : ~(L.device[d] = "absent" /\ db.device[d] # "absent" /\ K.device[d] # "absent")
      /\ \A x \in Codes : ~(~L.code[x].exists /\ db.code[x].exists /\ K.code[x].exists)
  BY <1>0 DEF Collides
<1>6. r.license # NoLicense => r.license \in Licenses
  BY <1>0, OpenType
<1> HIDE DEF L, K, W, r
<1>7. ASSUME NEW c \in Cards
      PROVE  \/ db'.card[c] = db.card[c] /\ c \notin r.consumes
             \/ /\ t \in Clients /\ c \in r.consumes /\ <<"card", c>> \in W
                /\ db.card[c].status = "unused" /\ r.license \in Licenses
                /\ db'.card[c].status = "used" /\ db'.card[c].license = r.license
             \/ /\ t \in Admins /\ c \notin r.consumes /\ <<"card", c>> \in W
                /\ db'.card[c].license = db.card[c].license
                /\ \/ db'.card[c].status = db.card[c].status
                   \/ db'.card[c].status = K.card[c].status /\ db'.card[c].status # "absent"
  <2> DEFINE a == L.card[c]
             b == K.card[c]
             s == db.card[c]
             n == db'.card[c]
  <2>1. a \in CardRow /\ b \in CardRow /\ s \in CardRow
    BY <1>0, <1>1 DEF Tables
  <2>2. n = Columns(a, b, s)
    BY <1>2
  <2>3. <<"card", c>> \in W <=> b # a
    BY <1>3
  <2>4. \/ b = a /\ c \notin r.consumes
        \/ /\ t \in Clients /\ c \in r.consumes /\ a = s /\ s.status = "unused"
           /\ b = [status |-> "used", license |-> r.license] /\ r.license \in Licenses
        \/ /\ t \in Admins /\ c \notin r.consumes /\ b.license = a.license /\ b.status # "absent"
    BY <1>4 DEF CardOk, L, K
  <2> HIDE DEF a, b, s, n
  <2>5. /\ n \in CardRow
        /\ n.status = IF b.status # a.status THEN b.status ELSE s.status
        /\ n.license = IF b.license # a.license THEN b.license ELSE s.license
    BY <2>1, <2>2, CardColumns
  <2>6. CASE b = a
    <3>1. n = s
      BY <2>1, <2>5, <2>6 DEF CardRow
    <3> QED
      BY <2>4, <2>6, <3>1 DEF n, s, a, b
  <2>7. CASE b # a
    BY <2>3, <2>4, <2>5, <2>7 DEF n, s, a, b
  <2> QED
    BY <2>6, <2>7
<1>8. ASSUME NEW l \in Licenses
      PROVE  /\ db'.license[l].status = IF K.license[l].status # L.license[l].status
                                        THEN K.license[l].status ELSE db.license[l].status
             /\ db'.license[l].limit = IF K.license[l].limit # L.license[l].limit
                                       THEN K.license[l].limit ELSE db.license[l].limit
             /\ db'.license[l].expires = IF K.license[l].expires # L.license[l].expires
                                         THEN K.license[l].expires ELSE db.license[l].expires
  <2>1. /\ L.license[l] \in LicenseRow /\ K.license[l] \in LicenseRow /\ db.license[l] \in LicenseRow
        /\ db'.license[l] = Columns(L.license[l], K.license[l], db.license[l])
    BY <1>0, <1>1, <1>2 DEF Tables
  <2> QED
    BY <2>1, LicenseColumns
<1>9. \A l \in Licenses :
        \/ db'.license[l].status = db.license[l].status
        \/ /\ l = r.license /\ db'.license[l].status # "absent"
           /\ \/ db.license[l].status = "absent"
              \/ t \in Clients => L.license[l].status = "expired"
  BY <1>4, <1>8 DEF LicenseOk, Creates, L, K
<1>13. \A l \in Licenses :
         /\ \/ /\ db'.license[l].limit = db.license[l].limit
               /\ db'.license[l].status = "absent" <=> db.license[l].status = "absent"
            \/ db'.license[l].limit # 0 /\ db'.license[l].status # "absent"
         /\ \/ db'.license[l].expires = db.license[l].expires
            \/ /\ K.license[l].expires # L.license[l].expires
               /\ db'.license[l].expires = K.license[l].expires
  <2> SUFFICES ASSUME NEW l \in Licenses
               PROVE  \/ /\ db'.license[l].limit = db.license[l].limit
                         /\ db'.license[l].status = "absent" <=> db.license[l].status = "absent"
                      \/ db'.license[l].limit # 0 /\ db'.license[l].status # "absent"
    BY <1>8
  <2>1. CASE L.license[l].status = "absent" /\ K.license[l].status # "absent"
    BY <1>4, <1>8, <2>1 DEF LimitOk, L, K
  <2>2. CASE ~(L.license[l].status = "absent" /\ K.license[l].status # "absent")
    <3>1. db'.license[l].limit = db.license[l].limit
      BY <1>4, <1>8, <2>2 DEF LimitOk, L, K
    <3>2. db'.license[l].status = "absent" <=> db.license[l].status = "absent"
      BY <1>4, <1>8, <2>2 DEF LicenseOk, Creates, L, K
    <3> QED
      BY <3>1, <3>2
  <2> QED
    BY <2>1, <2>2
<1>10. ASSUME r.license \in Licenses PROVE db'.license[r.license].status # "absent"
  BY <1>4, <1>8, <1>9, <1>10 DEF KnownOk, Creates, L, K
<1>11. ASSUME NEW d \in Devices
       PROVE  \/ db'.device[d] = db.device[d] /\ db'.token[d] = db.token[d]
              \/ /\ db.device[d] = "absent" /\ db.token[d] = "absent" /\ d[1] = r.license
                 /\ db'.device[d] = "active" /\ db'.token[d] = "valid"
              \/ /\ <<"token", d>> \in W /\ db.token[d] # "absent"
                 /\ db'.device[d] = "revoked" /\ db'.token[d] = "revoked"
  <2>1. Match(db.device[d], db.token[d])
    BY <1>0 DEF RowsInv
  <2>2. \/ K.device[d] = L.device[d] /\ K.token[d] = L.token[d]
        \/ /\ L.device[d] = "absent" /\ L.token[d] = "absent"
           /\ K.device[d] = "active" /\ K.token[d] = "valid" /\ d[1] = r.license
        \/ /\ L.device[d] = "active" /\ L.token[d] = "valid"
           /\ K.device[d] = "revoked" /\ K.token[d] = "revoked" /\ db.token[d] # "absent"
    BY <1>4 DEF DeviceOk, L, K
  <2> QED
    BY <1>2, <1>3, <1>5, <2>1, <2>2 DEF Match
<1>12. ASSUME NEW x \in Codes
       PROVE  \/ db'.code[x] = db.code[x] /\ x \notin r.consumes
              \/ /\ x \in r.consumes /\ <<"code", x>> \in W /\ db.code[x].exists /\ ~db.code[x].used
                 /\ db'.code[x].exists /\ db'.code[x].used /\ db'.code[x].license = db.code[x].license
              \/ /\ x \notin r.consumes /\ ~db.code[x].exists /\ r.license \in Licenses
                 /\ db'.code[x].exists /\ ~db'.code[x].used /\ db'.code[x].license = r.license
  <2> DEFINE a == L.code[x]
             b == K.code[x]
             s == db.code[x]
             n == db'.code[x]
  <2>1. a \in CodeRow /\ b \in CodeRow /\ s \in CodeRow
    BY <1>0, <1>1 DEF Tables
  <2>2. n = Columns(a, b, s)
    BY <1>2
  <2>3. /\ <<"code", x>> \in W <=> b # a
        /\ ~(~a.exists /\ s.exists /\ b.exists)
        /\ ~s.exists => ~s.used
    BY <1>0, <1>3, <1>5 DEF RowsInv
  <2>4. \/ b = a /\ x \notin r.consumes
        \/ x \in r.consumes /\ a = s /\ s.exists /\ ~s.used /\ b = [s EXCEPT !.used = TRUE]
        \/ /\ x \notin r.consumes /\ r.license \in Licenses
           /\ ~a.exists /\ ~a.used /\ a.license = NoLicense
           /\ b.exists /\ ~b.used /\ b.license = r.license
    BY <1>4 DEF CodeOk, L, K
  <2> HIDE DEF a, b, s, n
  <2>5. /\ n \in CodeRow
        /\ n.exists = IF b.exists # a.exists THEN b.exists ELSE s.exists
        /\ n.license = IF b.license # a.license THEN b.license ELSE s.license
        /\ n.used = IF b.used # a.used THEN b.used ELSE s.used
    BY <2>1, <2>2, CodeColumns
  <2>6. CASE b = a /\ x \notin r.consumes
    <3>1. DOMAIN s = DOMAIN n
      BY <2>1, <2>5 DEF CodeRow
    <3>2. n = [f \in DOMAIN s |-> s[f]]
      BY <2>2, <2>6 DEF Columns
    <3>3. n = s
      BY <2>1, <3>2 DEF CodeRow
    <3> QED
      BY <2>6, <3>3 DEF n, s
  <2>7. CASE x \in r.consumes /\ a = s /\ s.exists /\ ~s.used /\ b = [s EXCEPT !.used = TRUE]
    <3>1. b.used /\ b.exists = s.exists /\ b.license = s.license
      BY <2>1, <2>7 DEF CodeRow
    <3>2. b # a /\ n.exists /\ n.used /\ n.license = s.license
      BY <2>5, <2>7, <3>1
    <3> QED
      BY <2>3, <2>7, <3>2 DEF n, s
  <2>8. CASE /\ x \notin r.consumes /\ r.license \in Licenses
             /\ ~a.exists /\ ~a.used /\ a.license = NoLicense
             /\ b.exists /\ ~b.used /\ b.license = r.license
    <3>1. ~s.exists /\ ~s.used
      BY <2>3, <2>8
    <3>2. n.exists /\ ~n.used /\ n.license = r.license
      BY <2>1, <2>5, <2>8, <3>1 DEF CodeRow
    <3> QED
      BY <2>8, <3>1, <3>2 DEF n, s
  <2> QED
    BY <2>4, <2>6, <2>7, <2>8
<1> QED
  BY <1>2, <1>7, <1>9, <1>10, <1>11, <1>12, <1>13 DEF Commits, L, K, W, r

\* A row the committing thread writes is not locked by another one.
LEMMA WrittenUnlocked ==
  ASSUME NEW t \in Threads, CanLock(t, Written(tx[t].loaded, tx[t].work)),
         NEW u \in Threads \ {t}, Open(u), NEW row \in tx[u].locks
  PROVE  row \notin Written(tx[t].loaded, tx[t].work)
BY CanLockApart

\* How many of the rebind codes wait, counted.
LEMMA OpenCodesCount ==
  ASSUME NEW view, NEW l
  PROVE  IsFiniteSet(OpenCodes(view, l)) /\ Cardinality(OpenCodes(view, l)) \in Nat
<1>1. OpenCodes(view, l) \subseteq Codes /\ IsFiniteSet(Codes)
  BY DEF OpenCodes
<1> QED
  BY <1>1, FS_Subset, FS_CardinalityType

LEMMA CommitHistory ==
  ASSUME HistoryType, NEW t \in Threads, Commit(t)
  PROVE  /\ HistoryType'
         /\ \A l \in Licenses :
              mostOpen'[l] >= mostOpen[l] /\ mostOpen'[l] >= Cardinality(OpenCodes(db', l))
<1>1. uses' \in [Keys -> Nat] /\ reissued' \subseteq Cards /\ overruled' \subseteq Licenses
  BY DEF Commit, HistoryType
<1> DEFINE open(l) == Cardinality(OpenCodes(db', l))
<1>2. \A l \in Licenses : open(l) \in Nat
  BY OpenCodesCount
<1>3. mostOpen' = [l \in Licenses |-> IF open(l) > mostOpen[l] THEN open(l) ELSE mostOpen[l]]
  BY DEF Commit
<1> HIDE DEF open
<1>4. /\ mostOpen' \in [Licenses -> Nat]
      /\ \A l \in Licenses : mostOpen'[l] >= mostOpen[l] /\ mostOpen'[l] >= open(l)
  BY <1>2, <1>3 DEF HistoryType
<1> QED
  BY <1>1, <1>4 DEF HistoryType, open

LEMMA CommitKeeps ==
  ASSUME ServiceInv, NEW t \in Threads, Commit(t)
  PROVE  ServiceInv'
<1> DEFINE W == Written(tx[t].loaded, tx[t].work)
           l == tx[t].license
<1>0. /\ db \in Tables /\ TxType /\ RowsInv /\ Apart /\ Open(t) /\ Commits(t)
      /\ \A u \in Threads : Open(u) => TxOk(u, tx[u])
  BY Basics, CommitRows DEF Commit, ServiceInv, Open
<1>1. /\ CanLock(t, W) /\ tx' = [tx EXCEPT ![t] = Idle] /\ clock' = clock
  BY DEF Commit
<1>2. TypeInv'
  <2>1. db' \in Tables
    BY <1>0 DEF Commits
  <2>2. TxType'
    BY <1>0, <1>1 DEF TxType
  <2>3. HistoryType' /\ clock' \in 0..MaxClock
    BY <1>1, <2>1, CommitHistory DEF ServiceInv, TypeInv
  <2> QED
    BY <2>1, <2>2, <2>3 DEF TypeInv
<1>3. \A k \in Licenses : db.license[k].status # "absent" => db'.license[k].status # "absent"
  BY <1>0 DEF Commits
<1>4. RowsInv'
  <2>1. ASSUME NEW c \in Cards
        PROVE  /\ db'.card[c].status = "absent" => db'.card[c].license = NoLicense
               /\ db'.card[c].license # NoLicense
                    => db'.license[db'.card[c].license].status # "absent"
    <3>1. /\ db.card[c].status = "absent" => db.card[c].license = NoLicense
          /\ db.card[c].license # NoLicense => db.license[db.card[c].license].status # "absent"
          /\ db.card[c].license \in Licenses \cup {NoLicense}
      BY <1>0 DEF RowsInv, Tables, CardRow
    <3>2. \/ db'.card[c] = db.card[c]
          \/ /\ l \in Licenses /\ db'.card[c].status = "used" /\ db'.card[c].license = l
          \/ /\ db'.card[c].license = db.card[c].license
             /\ db'.card[c].status = db.card[c].status \/ db'.card[c].status # "absent"
      BY <1>0 DEF Commits
    <3>3. l \in Licenses => db'.license[l].status # "absent"
      BY <1>0 DEF Commits
    <3> HIDE DEF l
    <3> QED
      BY <1>3, <3>1, <3>2, <3>3
  <2>2. ASSUME NEW d \in Devices
        PROVE  /\ Match(db'.device[d], db'.token[d])
               /\ db'.token[d] # "absent" => db'.license[d[1]].status # "absent"
    <3>1. /\ Match(db.device[d], db.token[d]) /\ d[1] \in Licenses
          /\ db.token[d] # "absent" => db.license[d[1]].status # "absent"
      BY <1>0 DEF RowsInv, Devices
    <3>2. \/ db'.device[d] = db.device[d] /\ db'.token[d] = db.token[d]
          \/ d[1] = l /\ db'.device[d] = "active" /\ db'.token[d] = "valid"
          \/ /\ db.token[d] # "absent"
             /\ db'.device[d] = "revoked" /\ db'.token[d] = "revoked"
      BY <1>0 DEF Commits
    <3>3. l \in Licenses => db'.license[l].status # "absent"
      BY <1>0 DEF Commits
    <3> HIDE DEF l
    <3> QED
      BY <1>3, <3>1, <3>2, <3>3 DEF Match
  <2>3. ASSUME NEW x \in Codes
        PROVE  IF db'.code[x].exists
               THEN /\ db'.code[x].license \in Licenses
                    /\ db'.license[db'.code[x].license].status # "absent"
               ELSE db'.code[x].license = NoLicense /\ ~db'.code[x].used
    <3>1. IF db.code[x].exists
          THEN db.code[x].license \in Licenses /\ db.license[db.code[x].license].status # "absent"
          ELSE db.code[x].license = NoLicense /\ ~db.code[x].used
      BY <1>0 DEF RowsInv
    <3>2. \/ db'.code[x] = db.code[x]
          \/ /\ db.code[x].exists /\ db'.code[x].exists
             /\ db'.code[x].license = db.code[x].license
          \/ l \in Licenses /\ db'.code[x].exists /\ db'.code[x].license = l
      BY <1>0 DEF Commits
    <3>3. l \in Licenses => db'.license[l].status # "absent"
      BY <1>0 DEF Commits
    <3> HIDE DEF l
    <3> QED
      BY <1>3, <3>1, <3>2, <3>3
  <2>4. \A k \in Licenses : db'.license[k].limit = 0 <=> db'.license[k].status = "absent"
    BY <1>0 DEF RowsInv, Commits
  <2> QED
    BY <2>1, <2>2, <2>3, <2>4 DEF RowsInv
<1>5. \A u \in Threads : Open(u)' => u # t /\ tx'[u] = tx[u] /\ Open(u)
  BY <1>0, <1>1 DEF TxType, Open, Idle
<1>6. ASSUME NEW u \in Threads, Open(u)' PROVE TxOk(u, tx[u])'
  <2> DEFINE r == tx[u]
  <2>1. u \in Threads \ {t} /\ tx'[u] = r /\ Open(u) /\ TxOk(u, r)
    BY <1>0, <1>5, <1>6
  <2>2. \A row \in r.locks : row \notin W
    BY <1>1, <2>1, WrittenUnlocked
  <2>3. Creates(r) => r.license # l
    BY <1>0, <2>1 DEF Apart
  <2>4. Creates(r) => Creates(tx[u])'
    <3>1. \A k \in Licenses : k # l => db'.license[k].status = db.license[k].status
      BY <1>0 DEF Commits
    <3> QED
      BY <2>1, <2>3, <3>1 DEF Creates
  <2>5. CardOk(u, tx[u])'
    <3>1. \A c \in Cards : <<"card", c>> \in r.locks => db'.card[c] = db.card[c]
      BY <1>0, <2>2 DEF Commits
    <3>2. CardOk(u, r)
      BY <2>1 DEF TxOk
    <3> QED
      BY <2>1, <3>1, <3>2 DEF CardOk
  <2>6. LicenseOk(u, tx[u])' /\ KnownOk(tx[u])'
    <3>1. LicenseOk(u, r) /\ KnownOk(r)
      BY <2>1 DEF TxOk
    <3>2. LicenseOk(u, tx[u])'
      BY <1>3, <2>1, <2>4, <3>1 DEF LicenseOk
    <3>3. r.license \in Licenses \cup {NoLicense}
      BY <1>0, <2>1, OpenType
    <3>4. KnownOk(tx[u])'
      BY <1>3, <2>1, <2>4, <3>1, <3>3 DEF KnownOk
    <3> QED
      BY <3>2, <3>4
  <2>11. LimitOk(tx[u])' /\ DatesOk(u, tx[u])' /\ PaidOk(tx[u])'
    <3>1. LimitOk(r) /\ DatesOk(u, r) /\ PaidOk(r)
      BY <2>1 DEF TxOk
    <3>2. LimitOk(tx[u])' /\ PaidOk(tx[u])'
      BY <2>1, <3>1 DEF LimitOk, PaidOk
    <3>3. DatesOk(u, tx[u])'
      BY <2>1, <2>4, <3>1 DEF DatesOk
    <3> QED
      BY <3>2, <3>3
  <2>7. DeviceOk(tx[u])'
    <3>1. \A d \in Devices : db.token[d] # "absent" => db'.token[d] # "absent"
      BY <1>0 DEF Commits
    <3>2. DeviceOk(r)
      BY <2>1 DEF TxOk
    <3> QED
      BY <2>1, <3>1, <3>2 DEF DeviceOk
  <2>8. CodeOk(tx[u])'
    <3>1. \A x \in Codes : <<"code", x>> \in r.locks /\ db.code[x].exists => db'.code[x] = db.code[x]
      BY <1>0, <2>2 DEF Commits
    <3>3. CodeOk(r)
      BY <2>1 DEF TxOk
    <3> QED
      BY <2>1, <3>1, <3>3 DEF CodeOk
  <2>9. HalfOk(u, tx[u])'
    BY <1>3, <2>1 DEF TxOk, HalfOk
  <2>10. ServedOk(u, tx[u])'
    <3>1. \A d \in Devices : <<"token", d>> \in r.locks /\ db.token[d] # "absent"
            => db'.device[d] = db.device[d] /\ db'.token[d] = db.token[d]
      BY <1>0, <2>2 DEF Commits
    <3>2. ServedOk(u, r)
      BY <2>1 DEF TxOk
    <3> QED
      BY <2>1, <3>1, <3>2 DEF ServedOk, Devices
  <2> QED
    BY <2>5, <2>6, <2>7, <2>8, <2>9, <2>10, <2>11 DEF TxOk
<1>7. Apart'
  <2>1. \A u \in Threads : Open(u)' /\ Creates(tx[u])' => Creates(tx[u])
    BY <1>3, <1>5 DEF Creates
  <2> QED
    BY <1>0, <1>5, <2>1 DEF Apart
<1> QED
  BY <1>2, <1>4, <1>6, <1>7 DEF ServiceInv

LEMMA AbortKeeps ==
  ASSUME ServiceInv, NEW t \in Threads, Abort(t)
  PROVE  ServiceInv'
<1>0. TypeInv /\ RowsInv /\ Apart /\ \A u \in Threads : Open(u) => TxOk(u, tx[u])
  BY DEF ServiceInv
<1>1. tx' = [tx EXCEPT ![t] = Idle] /\ db' = db /\ clock' = clock /\ HistoryType' = HistoryType
  BY DEF Abort, history, HistoryType
<1>2. TypeInv' /\ RowsInv'
  <2>1. TypeInv'
    BY <1>0, <1>1 DEF TypeInv, TxType
  <2>2. RowsInv'
    BY <1>0, <1>1 DEF RowsInv
  <2> QED
    BY <2>1, <2>2
<1>3. \A u \in Threads : Open(u)' => u # t /\ tx'[u] = tx[u] /\ Open(u)
  BY <1>0, <1>1 DEF TypeInv, TxType, Open, Idle
<1>4. ASSUME NEW u \in Threads, Open(u)' PROVE TxOk(u, tx[u])'
  <2>0. tx'[u] = tx[u] /\ TxOk(u, tx[u])
    BY <1>0, <1>3, <1>4
  <2>1. CardOk(u, tx[u])' /\ LicenseOk(u, tx[u])' /\ KnownOk(tx[u])'
    BY <1>1, <2>0 DEF TxOk, CardOk, LicenseOk, KnownOk, Creates
  <2>2. LimitOk(tx[u])' /\ DatesOk(u, tx[u])' /\ PaidOk(tx[u])'
    BY <1>1, <2>0 DEF TxOk, LimitOk, DatesOk, PaidOk, Creates
  <2>4. DeviceOk(tx[u])' /\ CodeOk(tx[u])'
    BY <1>1, <2>0 DEF TxOk, DeviceOk, CodeOk
  <2>3. HalfOk(u, tx[u])' /\ ServedOk(u, tx[u])'
    BY <1>1, <2>0 DEF TxOk, HalfOk, ServedOk
  <2> QED
    BY <2>1, <2>2, <2>3, <2>4 DEF TxOk
<1>5. Apart'
  BY <1>0, <1>1, <1>3 DEF Apart, Creates
<1> QED
  BY <1>2, <1>4, <1>5 DEF ServiceInv

LEMMA ClockKeeps ==
  ASSUME ServiceInv, db' = db, tx' = tx, history' = history, clock' \in 0..MaxClock
  PROVE  ServiceInv'
<1>1. clock' \in 0..MaxClock
  OBVIOUS
<1>2. db' = db /\ tx' = tx /\ HistoryType' = HistoryType
  BY DEF history, HistoryType
<1>3. TypeInv' /\ RowsInv' /\ Apart'
  <2>1. TypeInv'
    BY <1>1, <1>2 DEF ServiceInv, TypeInv, TxType
  <2>2. RowsInv'
    BY <1>2 DEF ServiceInv, RowsInv
  <2>3. Apart'
    BY <1>2 DEF ServiceInv, Apart, Open, Creates
  <2> QED
    BY <2>1, <2>2, <2>3
<1>4. ASSUME NEW u \in Threads, Open(u)' PROVE TxOk(u, tx[u])'
  <2>0. TxOk(u, tx[u])
    BY <1>2, <1>4 DEF ServiceInv, Open
  <2>1. CardOk(u, tx[u])' /\ LicenseOk(u, tx[u])' /\ KnownOk(tx[u])'
    BY <1>2, <2>0 DEF TxOk, CardOk, LicenseOk, KnownOk, Creates
  <2>2. LimitOk(tx[u])' /\ DatesOk(u, tx[u])' /\ PaidOk(tx[u])'
    BY <1>2, <2>0 DEF TxOk, LimitOk, DatesOk, PaidOk, Creates
  <2>4. DeviceOk(tx[u])' /\ CodeOk(tx[u])'
    BY <1>2, <2>0 DEF TxOk, DeviceOk, CodeOk
  <2>3. HalfOk(u, tx[u])' /\ ServedOk(u, tx[u])'
    BY <1>2, <2>0 DEF TxOk, HalfOk, ServedOk
  <2> QED
    BY <2>1, <2>2, <2>3, <2>4 DEF TxOk
<1> QED
  BY <1>3, <1>4 DEF ServiceInv

LEMMA InitService ==
  ASSUME Init
  PROVE  ServiceInv
<1>1. db = NoTables /\ tx = [t \in Threads |-> Idle] /\ clock = 0 /\ HistoryType
  BY DEF Init, HistoryType
<1>2. TypeInv
  BY <1>1, NoTablesType DEF TypeInv, TxType
<1>3. RowsInv
  BY <1>1 DEF RowsInv, NoTables, Match
<1>4. \A t \in Threads : ~Open(t)
  BY <1>1 DEF Open, Idle
<1> QED
  BY <1>2, <1>3, <1>4 DEF ServiceInv, Apart

\* The steps of the service, sorted: a request, a commit, an abort, a tick.
LEMMA Steps ==
  ASSUME ServiceInv, Next
  PROVE  \/ \E t \in Threads : Begins(t) \/ Commit(t) \/ Abort(t)
         \/ Tick
<1>1. ASSUME NEW t \in Clients, ClientStep(t) PROVE t \in Threads /\ Begins(t)
  BY <1>1, RequestsBegin DEF Threads
<1>2. ASSUME NEW t \in Admins, AdminStep(t) PROVE t \in Threads /\ Begins(t)
  BY <1>2, RequestsBegin DEF Threads
<1> QED
  BY <1>1, <1>2 DEF Next

\* The invariant holds in every state of the service.
THEOREM Service == Spec => []ServiceInv
<1>1. Init => ServiceInv
  BY InitService
<1>2. ServiceInv /\ [Next]_vars => ServiceInv'
  <2> SUFFICES ASSUME ServiceInv, [Next]_vars PROVE ServiceInv'
    OBVIOUS
  <2>0. clock \in 0..MaxClock
    BY DEF ServiceInv, TypeInv
  <2>1. Tick => ServiceInv'
    BY <2>0, ClockKeeps DEF Tick
  <2>3. CASE Next
    BY <2>1, <2>3, Steps, BeginsKeeps, CommitKeeps, AbortKeeps
  <2>2. CASE UNCHANGED vars
    BY <2>0, <2>2, ClockKeeps DEF vars
  <2> QED
    BY <2>2, <2>3
<1> QED
  BY <1>1, <1>2, PTL DEF Spec

-----------------------------------------------------------------------------
(* Theorems.                                                               *)

\* Every row keeps the statuses its model class declares, in every transaction.
THEOREM TypeCorrect == Spec => []TypeOK
<1>1. ServiceInv => TypeOK
  BY DEF ServiceInv, TypeInv, TxType, HistoryType, TypeOK
<1> QED
  BY <1>1, Service, PTL

\* While a check or a renewal is served, its device stays bound and its token
\* valid, whatever other requests and administrators do meanwhile.
THEOREM ServedDevicesAreBound == Spec => []ServedIsBound
<1>1. ServiceInv => ServedIsBound
  BY DEF ServiceInv, ServedIsBound, TxOk, ServedOk, Open, Threads
<1> QED
  BY <1>1, Service, PTL

\* A license an administrator has disabled is not re-activated by a client's
\* request, other than a renewal that had read it as expired.
THEOREM DisablingSticks == Spec => DisableSticks
<1> DEFINE Sticks == \A t \in Clients, l \in Licenses :
             (tx'[t] # tx[t] /\ db.license[l].status = "disabled" /\ db'.license[l].status # "disabled")
               => tx[t].loaded.license[l].status = "expired"
<1>1. ServiceInv /\ [Next]_vars => Sticks
  <2> SUFFICES ASSUME ServiceInv, [Next]_vars, NEW t \in Clients, NEW l \in Licenses,
                      tx'[t] # tx[t], db.license[l].status = "disabled",
                      db'.license[l].status # "disabled"
               PROVE  tx[t].loaded.license[l].status = "expired"
    OBVIOUS
  <2>1. Next
    BY DEF vars
  <2>2. PICK u \in Threads : Commit(u)
    <3>1. db' # db
      OBVIOUS
    <3> QED
      BY <2>1, <3>1, Steps DEF Begins, Abort, Tick
  <2>3. u = t
    BY <2>2 DEF Commit, ServiceInv, TypeInv, TxType, Threads
  <2>4. Commits(t)
    BY <2>2, <2>3, CommitRows DEF Threads
  <2> QED
    BY <2>4 DEF Commits
<1> HIDE DEF Sticks
<1>2. Spec => [][Sticks]_vars
  BY <1>1, Service, PTL DEF Spec
<1> QED
  BY <1>2 DEF DisableSticks, Sticks

\* Cards and codes are consumed once: what is spent can never be "unused" again,
\* but for a card that an administrator makes so by an old edit.
CardsInv == \A c \in Cards \ reissued :
  uses[c] = 0 \/ /\ uses[c] = 1 /\ db.card[c].status \notin {"absent", "unused"}
                 /\ db.card[c].license # NoLicense

CodesInv == \A x \in Codes : uses[x] = 0 \/ (uses[x] = 1 /\ db.code[x].exists /\ db.code[x].used)

\* What a step does to the counters.
LEMMA Uses ==
  ASSUME ServiceInv, [Next]_vars
  PROVE  \/ UNCHANGED <<db, uses, reissued>>
         \/ \E t \in Threads :
              /\ Commit(t) /\ Commits(t)
              /\ \A k \in Keys : uses[k] \in Nat
                   /\ uses'[k] = uses[k] + (IF k \in tx[t].consumes THEN 1 ELSE 0)
<1>1. ASSUME NEW t \in Threads, Commit(t)
      PROVE  /\ Commits(t)
             /\ \A k \in Keys : uses[k] \in Nat
                  /\ uses'[k] = uses[k] + (IF k \in tx[t].consumes THEN 1 ELSE 0)
  <2>1. Commits(t)
    BY <1>1, CommitRows
  <2> QED
    BY <1>1, <2>1 DEF Commit, ServiceInv, TypeInv, HistoryType
<1>2. CASE Next
  BY <1>1, <1>2, Steps DEF Begins, Abort, Tick, history
<1>3. CASE UNCHANGED vars
  BY <1>3 DEF vars, history
<1> QED
  BY <1>2, <1>3

\* A rebind code binds one device, however many requests carry it.
THEOREM CodeIsUsedOnce == Spec => []CodeUsedOnce
<1>1. Init => CodesInv
  BY DEF Init, CodesInv, Keys
<1>2. ServiceInv /\ CodesInv /\ [Next]_vars => CodesInv'
  <2> SUFFICES ASSUME ServiceInv, CodesInv, [Next]_vars, NEW x \in Codes
               PROVE  (uses[x] = 0 \/ (uses[x] = 1 /\ db.code[x].exists /\ db.code[x].used))'
    BY DEF CodesInv
  <2>1. CASE UNCHANGED <<db, uses, reissued>>
    BY <2>1 DEF CodesInv
  <2>2. ASSUME NEW t \in Threads, Commits(t), uses[x] \in Nat,
               uses'[x] = uses[x] + (IF x \in tx[t].consumes THEN 1 ELSE 0)
        PROVE  uses'[x] = 0 \/ (uses'[x] = 1 /\ db'.code[x].exists /\ db'.code[x].used)
    <3>1. uses[x] = 0 \/ (uses[x] = 1 /\ db.code[x].exists /\ db.code[x].used)
      BY DEF CodesInv
    <3>2. \/ db'.code[x] = db.code[x] /\ x \notin tx[t].consumes
          \/ /\ x \in tx[t].consumes /\ ~db.code[x].used
             /\ db'.code[x].exists /\ db'.code[x].used
          \/ x \notin tx[t].consumes /\ ~db.code[x].exists
      BY <2>2 DEF Commits
    <3> QED
      BY <2>2, <3>1, <3>2
  <2> QED
    BY <2>1, <2>2, Uses DEF Keys
<1>3. CodesInv => CodeUsedOnce
  BY DEF CodesInv, CodeUsedOnce
<1> QED
  BY <1>1, <1>2, <1>3, Service, PTL DEF Spec

\* One card buys one thing, under any number of client requests and of
\* administrators, unless one of these makes it unused after it has been bought.
THEOREM CardIsUsedOnce == Spec => []CardUsedOnce
<1>1. Init => CardsInv
  BY DEF Init, CardsInv, Keys
<1>2. ServiceInv /\ CardsInv /\ [Next]_vars => CardsInv'
  <2> SUFFICES ASSUME ServiceInv, CardsInv, [Next]_vars, NEW c \in Cards, c \notin reissued'
               PROVE  \/ uses'[c] = 0
                      \/ /\ uses'[c] = 1 /\ db'.card[c].status \notin {"absent", "unused"}
                         /\ db'.card[c].license # NoLicense
    BY DEF CardsInv
  <2>1. CASE UNCHANGED <<db, uses, reissued>>
    BY <2>1 DEF CardsInv
  <2>2. CASE \E t \in Threads :
              /\ Commit(t) /\ Commits(t)
              /\ \A k \in Keys : uses[k] \in Nat
                   /\ uses'[k] = uses[k] + (IF k \in tx[t].consumes THEN 1 ELSE 0)
    <3> PICK t \in Threads :
              /\ Commit(t) /\ Commits(t)
              /\ \A k \in Keys : uses[k] \in Nat
                   /\ uses'[k] = uses[k] + (IF k \in tx[t].consumes THEN 1 ELSE 0)
      BY <2>2
    <3>1. /\ c \notin reissued
          /\ ~ (/\ db.card[c].license # NoLicense
                /\ db.card[c].status # "unused" /\ db'.card[c].status = "unused")
      BY DEF Commit
    <3>2. uses[c] = 0 \/ /\ uses[c] = 1 /\ db.card[c].status \notin {"absent", "unused"}
                         /\ db.card[c].license # NoLicense
      BY <3>1 DEF CardsInv
    <3>3. uses[c] \in Nat /\ uses'[c] = uses[c] + (IF c \in tx[t].consumes THEN 1 ELSE 0)
      BY DEF Keys
    <3>4. \/ db'.card[c] = db.card[c] /\ c \notin tx[t].consumes
          \/ /\ c \in tx[t].consumes /\ db.card[c].status = "unused"
             /\ db'.card[c].status = "used" /\ db'.card[c].license \in Licenses
          \/ /\ c \notin tx[t].consumes
             /\ db'.card[c].license = db.card[c].license
             /\ db'.card[c].status = db.card[c].status \/ db'.card[c].status # "absent"
      BY DEF Commits
    <3> QED
      BY <3>1, <3>2, <3>3, <3>4
  <2> QED
    BY <2>1, <2>2, Uses
<1>3. CardsInv => CardUsedOnce
  BY DEF CardsInv, CardUsedOnce
<1> QED
  BY <1>1, <1>2, <1>3, Service, PTL DEF Spec

\* A card an administrator is about to make unused is as the handler read it.
EditOk(r) == \A c \in Cards :
  r.work.card[c] # r.loaded.card[c] /\ r.work.card[c].status = "unused"
    => db.card[c] = r.loaded.card[c]

EditInv == reissued = {} /\ \A t \in Admins : Open(t) => EditOk(tx[t])

\* It takes two administrators, in overlapping requests, to make a card unused
\* again that has been bought: one alone never does, so that every card buys one
\* thing then.
THEOREM OneAdministratorReissuesNothing ==
  ASSUME \A a, b \in Admins : a = b
  PROVE  Spec => [](reissued = {})
<1>1. Init => EditInv
  BY DEF Init, EditInv, Open, Idle, Threads
<1>2. ServiceInv /\ EditInv /\ [Next]_vars => EditInv'
  <2> SUFFICES ASSUME ServiceInv, EditInv, [Next]_vars PROVE EditInv'
    OBVIOUS
  <2>1. CASE \E t \in Threads : Begins(t)
    <3> PICK t \in Threads : Begins(t)
      BY <2>1
    <3>1. db' = db /\ reissued' = reissued /\ \A u \in Threads \ {t} : tx'[u] = tx[u]
      BY DEF Begins, history
    <3>2. ASSUME NEW u \in Admins, Open(u)' PROVE EditOk(tx[u])'
      <4>1. CASE u = t
        <5>1. \A c \in Cards : tx'[t].work.card[c] = tx'[t].loaded.card[c]
                               \/ tx'[t].loaded.card[c] = db.card[c]
          BY DEF Begins
        <5> QED
          BY <3>1, <4>1, <5>1 DEF EditOk
      <4>2. CASE u # t
        BY <3>1, <3>2, <4>2 DEF EditInv, EditOk, Open, Threads
      <4> QED
        BY <4>1, <4>2
    <3> QED
      BY <3>1, <3>2 DEF EditInv
  <2>2. CASE \E t \in Threads : Commit(t)
    <3> PICK t \in Threads : Commit(t)
      BY <2>2
    <3>1. Commits(t) /\ tx' = [tx EXCEPT ![t] = Idle] /\ Open(t) /\ TxOk(t, tx[t])
      BY CommitRows DEF Commit, ServiceInv, Open
    <3>2. reissued' = {}
      <4> SUFFICES ASSUME NEW c \in Cards, db.card[c].license # NoLicense,
                          db.card[c].status # "unused", db'.card[c].status = "unused"
                   PROVE  FALSE
        BY DEF Commit, EditInv
      <4>1. /\ t \in Admins /\ <<"card", c>> \in Written(tx[t].loaded, tx[t].work)
            /\ tx[t].work.card[c].status = "unused"
        BY <3>1 DEF Commits
      <4>2. tx[t].work.card[c] # tx[t].loaded.card[c]
        BY <4>1, WrittenRows
      <4>3. db.card[c] = tx[t].loaded.card[c]
        BY <3>1, <4>1, <4>2 DEF EditInv, EditOk
      <4>4. t \notin Clients
        BY <4>1
      <4>5. tx[t].loaded.card[c].license = NoLicense
        BY <3>1, <4>1, <4>2, <4>4 DEF TxOk, CardOk
      <4> QED
        BY <4>3, <4>5
    <3>3. ASSUME NEW u \in Admins, Open(u)' PROVE EditOk(tx[u])'
      <4>1. u # t /\ tx'[u] = tx[u] /\ Open(u) /\ u \in Threads
        BY <3>1, <3>3 DEF ServiceInv, TypeInv, TxType, Open, Idle, Threads
      <4>2. t \notin Admins /\ EditOk(tx[u]) /\ CardOk(u, tx[u]) /\ u \notin Clients
        BY <4>1 DEF EditInv, ServiceInv, TxOk
      <4>3. \A c \in Cards : db'.card[c] = db.card[c] \/ db.card[c].status = "unused"
        BY <3>1, <4>2 DEF Commits
      <4> QED
        BY <4>1, <4>2, <4>3 DEF EditOk, CardOk
    <3> QED
      BY <3>2, <3>3 DEF EditInv
  <2>3. CASE \E t \in Threads : Abort(t)
    <3> PICK t \in Threads : Abort(t)
      BY <2>3
    <3>1. db' = db /\ reissued' = reissued /\ tx' = [tx EXCEPT ![t] = Idle]
      BY DEF Abort, history
    <3>2. \A u \in Admins : Open(u)' => tx'[u] = tx[u] /\ Open(u)
      BY <3>1 DEF ServiceInv, TypeInv, TxType, Open, Idle, Threads
    <3> QED
      BY <3>1, <3>2 DEF EditInv, EditOk
  <2>4. CASE Tick \/ UNCHANGED vars
    <3>1. db' = db /\ reissued' = reissued /\ tx' = tx
      BY <2>4 DEF Tick, vars, history
    <3> QED
      BY <3>1 DEF EditInv, EditOk, Open
  <2> QED
    BY <2>1, <2>2, <2>3, <2>4, Steps
<1>3. EditInv => reissued = {}
  BY DEF EditInv
<1> QED
  BY <1>1, <1>2, <1>3, Service, PTL DEF Spec

-----------------------------------------------------------------------------
(* The devices of a license are as many as its limit, or as the rebind codes *)
(* that have waited at one time: each rebinding in flight holds a code, and  *)
(* spares what it has not seen.                                              *)

\* Thread t will consume code x.
Holds(t, x) == Open(t) /\ x \in tx[t].consumes

\* The waiting codes of a license that a request in flight holds.
Taken(l) == {x \in OpenCodes(db, l) : \E t \in Threads : Holds(t, x)}

Untouched(t, d) == tx[t].work.device[d] = tx[t].loaded.device[d]

\* The active devices that the holders of some codes leave alone.
Spared(R, l) == {m \in ActiveDevices(db, l) :
  \A t \in Threads : (\E x \in R : Holds(t, x)) => Untouched(t, <<l, m>>)}

\* Each holder of a code adds a device at most to those that all of them spare.
Within(R, l) ==
  \/ Cardinality(Spared(R, l)) + Cardinality(R) <= mostOpen[l]
  \/ R = {} /\ Cardinality(Spared(R, l)) <= 1

LimitInv ==
  /\ \A t \in Threads : Open(t) => BindOk(tx[t])
  /\ \A l \in Licenses : Cardinality(OpenCodes(db, l)) <= mostOpen[l]
  /\ \A l \in Licenses : \A R \in SUBSET Taken(l) : Within(R, l)

\* The sets that are counted.
LEMMA Counted ==
  ASSUME NEW view, NEW l
  PROVE  /\ IsFiniteSet(ActiveDevices(view, l))
         /\ \A S \in SUBSET ActiveDevices(view, l) : IsFiniteSet(S) /\ Cardinality(S) \in Nat
<1>1. ActiveDevices(view, l) \subseteq Machines /\ IsFiniteSet(Machines)
  BY DEF ActiveDevices
<1>2. \A S \in SUBSET ActiveDevices(view, l) : IsFiniteSet(S)
  BY <1>1, FS_Subset
<1> QED
  BY <1>2, FS_CardinalityType

\* A set with one element more is larger by one at most.
LEMMA OneMore ==
  ASSUME NEW S, IsFiniteSet(S), NEW T, NEW e, T \subseteq S \cup {e}
  PROVE  Cardinality(T) \in Nat /\ Cardinality(T) <= Cardinality(S) + 1
<1>1. /\ IsFiniteSet(S \cup {e}) /\ Cardinality(S) \in Nat
      /\ Cardinality(S \cup {e}) <= Cardinality(S) + 1
  <2>1. Cardinality(S) \in Nat
    BY FS_CardinalityType
  <2>2. /\ IsFiniteSet(S \cup {e})
        /\ Cardinality(S \cup {e}) = IF e \in S THEN Cardinality(S) ELSE Cardinality(S) + 1
    BY FS_AddElement
  <2> QED
    BY <2>1, <2>2
<1>2. IsFiniteSet(T) /\ Cardinality(T) <= Cardinality(S \cup {e})
  BY <1>1, FS_Subset
<1>3. Cardinality(T) \in Nat /\ Cardinality(S \cup {e}) \in Nat
  BY <1>1, <1>2, FS_CardinalityType
<1> QED
  BY <1>1, <1>2, <1>3

\* A held code waits, for the license of its holder, under a lock.
LEMMA HeldCode ==
  ASSUME ServiceInv, NEW t \in Threads, NEW x \in Codes, Holds(t, x)
  PROVE  /\ x \in OpenCodes(db, tx[t].license) /\ <<"code", x>> \in tx[t].locks
         /\ db.code[x].exists /\ db.code[x].license = tx[t].license
<1>1. CodeOk(tx[t]) /\ x \in tx[t].consumes
  BY DEF ServiceInv, TxOk, Holds
<1>2. /\ <<"code", x>> \in tx[t].locks /\ db.code[x].exists /\ ~db.code[x].used
      /\ tx[t].loaded.code[x].license = tx[t].license /\ tx[t].loaded.code[x] = db.code[x]
  BY <1>1 DEF CodeOk
<1> QED
  BY <1>2 DEF OpenCodes

\* And one thread holds it.
LEMMA OneHolder ==
  ASSUME ServiceInv, NEW t \in Threads, NEW u \in Threads, NEW x \in Codes,
         Holds(t, x), Holds(u, x)
  PROVE  t = u
<1>1. <<"code", x>> \in tx[t].locks /\ <<"code", x>> \in tx[u].locks
  BY HeldCode
<1>2. Open(t) /\ Open(u) /\ Apart
  BY DEF ServiceInv, Holds
<1> QED
  BY <1>1, <1>2 DEF Apart

\* Codes that other threads hold after a step of t were theirs before it.
LEMMA SameHolders ==
  ASSUME ServiceInv, NEW t \in Threads, \A u \in Threads \ {t} : tx'[u] = tx[u],
         NEW R \in SUBSET Codes, \A x \in R : ~Holds(t, x)' /\ \E u \in Threads : Holds(u, x)'
  PROVE  /\ \A x \in R : ~Holds(t, x) /\ \E u \in Threads : Holds(u, x)
         /\ \A x \in R, u \in Threads : Holds(u, x)' <=> Holds(u, x)
<1>1. \A u \in Threads \ {t}, x \in R : Holds(u, x)' <=> Holds(u, x)
  BY DEF Holds, Open
<1>2. ASSUME NEW x \in R PROVE ~Holds(t, x) /\ \E u \in Threads : Holds(u, x)
  <2>1. PICK u \in Threads \ {t} : Holds(u, x)'
    OBVIOUS
  <2>2. Holds(u, x)
    BY <1>1, <2>1
  <2> QED
    BY <2>1, <2>2, OneHolder
<1> QED
  BY <1>1, <1>2

\* What the other threads spare stays the same then, as far as it is active.
LEMMA SparedBefore ==
  ASSUME ServiceInv, NEW t \in Threads, \A u \in Threads \ {t} : tx'[u] = tx[u],
         NEW R \in SUBSET Codes, \A x \in R : ~Holds(t, x)' /\ \E u \in Threads : Holds(u, x)',
         NEW l \in Licenses, NEW m \in Machines, m \in Spared(R, l)',
         db.device[<<l, m>>] = "active"
  PROVE  m \in Spared(R, l)
<1>1. /\ \A x \in R : ~Holds(t, x)
      /\ \A x \in R, u \in Threads : Holds(u, x)' <=> Holds(u, x)
  BY SameHolders
<1>2. ASSUME NEW u \in Threads, \E x \in R : Holds(u, x)
      PROVE  Untouched(u, <<l, m>>)
  <2>1. u # t /\ \E x \in R : Holds(u, x)'
    BY <1>1, <1>2
  <2>2. Untouched(u, <<l, m>>)'
    BY <2>1 DEF Spared
  <2> QED
    BY <2>1, <2>2 DEF Untouched
<1> QED
  BY <1>2 DEF Spared, ActiveDevices

\* A device that is active after a commit was active and untouched, or has been
\* bound by it.
LEMMA ActiveAfter ==
  ASSUME ServiceInv, NEW t \in Threads, Commit(t), NEW d \in Devices, db'.device[d] = "active"
  PROVE  \/ db.device[d] = "active" /\ Untouched(t, d)
         \/ Binds(tx[t], d) /\ d[1] = tx[t].license
<1> DEFINE L == tx[t].loaded
           K == tx[t].work
<1>1. db \in Tables /\ TxType /\ Open(t) /\ DeviceOk(tx[t]) /\ db' = Flushed(L, K, db)
  BY Basics DEF Commit, ServiceInv, Open, TxOk
<1>2. L \in Tables /\ K \in Tables
  BY <1>1, OpenType
<1>3. db'.device[d] = IF K.device[d] # L.device[d] THEN K.device[d] ELSE db.device[d]
  BY <1>1, <1>2, FlushedRows
<1> QED
  BY <1>1, <1>3 DEF Binds, DeviceOk, Untouched

\* A step that leaves the rows alone keeps the count of codes that others hold.
LEMMA WithinKept ==
  ASSUME ServiceInv, LimitInv, NEW t \in Threads, \A u \in Threads \ {t} : tx'[u] = tx[u],
         db' = db, mostOpen' = mostOpen, NEW l \in Licenses, NEW R \in SUBSET Taken(l)',
         \A x \in R : ~Holds(t, x)'
  PROVE  Within(R, l)'
<1>1. R \in SUBSET OpenCodes(db, l) /\ R \in SUBSET Codes
      /\ \A x \in R : ~Holds(t, x)' /\ \E u \in Threads : Holds(u, x)'
  BY DEF Taken, OpenCodes
<1>2. R \in SUBSET Taken(l)
  BY <1>1, SameHolders DEF Taken
<1>3. Spared(R, l)' \subseteq Spared(R, l)
  BY <1>1, SparedBefore DEF Spared, ActiveDevices
<1>4. /\ Cardinality(Spared(R, l)') <= Cardinality(Spared(R, l))
      /\ Cardinality(Spared(R, l)') \in Nat /\ Cardinality(Spared(R, l)) \in Nat
  <2>1. Spared(R, l) \in SUBSET ActiveDevices(db, l)
    BY DEF Spared
  <2>2. IsFiniteSet(Spared(R, l)) /\ IsFiniteSet(Spared(R, l)')
    BY <1>3, <2>1, Counted, FS_Subset
  <2> QED
    BY <1>3, <2>2, FS_Subset, FS_CardinalityType
<1>5. Within(R, l)
  BY <1>2 DEF LimitInv
<1>6. Cardinality(R) \in Nat /\ mostOpen[l] \in Nat
  <2>1. IsFiniteSet(R)
    BY <1>1, OpenCodesCount, FS_Subset
  <2> QED
    BY <2>1, FS_CardinalityType DEF ServiceInv, TypeInv, HistoryType
<1> QED
  BY <1>4, <1>5, <1>6 DEF Within

LEMMA BeginsLimit ==
  ASSUME ServiceInv, LimitInv, NEW t \in Threads, Begins(t)
  PROVE  LimitInv'
<1>1. /\ db' = db /\ mostOpen' = mostOpen /\ BindOk(tx'[t]) /\ ClearOk(tx'[t])
      /\ \A u \in Threads \ {t} : tx'[u] = tx[u]
      /\ CodeOk(tx'[t])
  BY DEF Begins, history, TxOk
<1>2. ASSUME NEW u \in Threads, Open(u)' PROVE BindOk(tx[u])'
  <2>1. BindOk(tx'[u])
    BY <1>1, <1>2 DEF LimitInv, Open
  <2> QED
    BY <1>1, <2>1 DEF BindOk, Binds, Creates
<1>3. \A l \in Licenses : Cardinality(OpenCodes(db', l)) <= mostOpen'[l]
  BY <1>1 DEF LimitInv
<1>4. ASSUME NEW l \in Licenses, NEW R \in SUBSET Taken(l)' PROVE Within(R, l)'
  <2>1. CASE \A x \in R : ~Holds(t, x)'
    BY <1>1, <2>1, WithinKept
  <2>2. ASSUME NEW x \in R, Holds(t, x)' PROVE Within(R, l)'
    <3>1. /\ R \in SUBSET OpenCodes(db, l) /\ x \in Codes /\ x \in tx'[t].consumes
          /\ db.code[x].license = l
      BY <1>1, <2>2 DEF Taken, OpenCodes, Holds
    <3>2. Clears(tx'[t]) /\ tx'[t].license = l
      <4>1. Clears(tx'[t])
        BY <1>1, <3>1 DEF ClearOk
      <4>2. tx'[t].loaded.code[x].license = tx'[t].license /\ tx'[t].loaded.code[x] = db'.code[x]
        BY <1>1, <3>1 DEF CodeOk
      <4> QED
        BY <1>1, <3>1, <4>1, <4>2
    <3>3. ASSUME NEW m \in Spared(R, l)' PROVE FALSE
      <4>1. /\ m \in Machines /\ db.device[<<l, m>>] = "active"
            /\ tx'[t].work.device[<<l, m>>] = tx'[t].loaded.device[<<l, m>>]
        BY <1>1, <2>2, <3>3 DEF Spared, ActiveDevices, Untouched
      <4>2. <<l, m>> \in Devices /\ <<l, m>>[1] = l
        BY <4>1 DEF Devices
      <4> QED
        BY <3>2, <4>1, <4>2 DEF Clears
    <3>4. Cardinality(Spared(R, l)') = 0
      BY <3>3, FS_EmptySet
    <3>5. Cardinality(R) \in Nat /\ Cardinality(R) <= Cardinality(OpenCodes(db, l))
      BY <3>1, OpenCodesCount, FS_Subset, FS_CardinalityType
    <3>6. /\ Cardinality(OpenCodes(db, l)) <= mostOpen[l]
          /\ Cardinality(OpenCodes(db, l)) \in Nat /\ mostOpen[l] \in Nat
      BY OpenCodesCount DEF LimitInv, ServiceInv, TypeInv, HistoryType
    <3> QED
      BY <1>1, <3>4, <3>5, <3>6 DEF Within
  <2> QED
    BY <2>1, <2>2
<1> QED
  BY <1>2, <1>3, <1>4 DEF LimitInv

\* The transaction is over, or nothing happens.
LEMMA StutterLimit ==
  ASSUME ServiceInv, LimitInv, NEW t \in Threads, db' = db, mostOpen' = mostOpen,
         tx' = tx \/ tx' = [tx EXCEPT ![t] = Idle]
  PROVE  LimitInv'
<1>1. CASE tx' = tx
  <2>1. (\A u \in Threads : Open(u) => BindOk(tx[u]))'
    BY <1>1 DEF LimitInv, Open, BindOk, Binds, Creates
  <2>2. \A l \in Licenses : Taken(l)' = Taken(l)
    BY <1>1 DEF Taken, Holds, Open
  <2>3. \A l \in Licenses : \A R \in SUBSET Taken(l) : Within(R, l)' <=> Within(R, l)
    BY <1>1 DEF Within, Spared, Holds, Open, Untouched
  <2> QED
    BY <2>1, <2>2, <2>3 DEF LimitInv
<1>2. CASE tx' = [tx EXCEPT ![t] = Idle]
  <2>1. /\ \A u \in Threads \ {t} : tx'[u] = tx[u]
        /\ ~Open(t)'
    BY <1>2 DEF ServiceInv, TypeInv, TxType, Open, Idle
  <2>2. \A u \in Threads : Open(u)' => tx'[u] = tx[u] /\ Open(u)
    BY <2>1 DEF Open
  <2>3. (\A u \in Threads : Open(u) => BindOk(tx[u]))'
    <3> SUFFICES ASSUME NEW u \in Threads, Open(u)' PROVE BindOk(tx[u])'
      OBVIOUS
    <3>1. tx'[u] = tx[u] /\ BindOk(tx[u])
      BY <2>2 DEF LimitInv
    <3> QED
      BY <3>1 DEF BindOk, Binds, Creates
  <2>4. \A l \in Licenses : \A R \in SUBSET Taken(l)' : Within(R, l)'
    BY <2>1, WithinKept DEF Holds
  <2> QED
    BY <2>3, <2>4 DEF LimitInv
<1> QED
  BY <1>1, <1>2

\* The codes that are held after a commit waited and were held before it.
LEMMA TakenAfter ==
  ASSUME ServiceInv, NEW t \in Threads, Commit(t), NEW l \in Licenses, NEW x \in Taken(l)'
  PROVE  /\ x \in Taken(l) /\ ~Holds(t, x) /\ ~Holds(t, x)' /\ \E u \in Threads : Holds(u, x)'
<1>1. /\ Commits(t) /\ tx' = [tx EXCEPT ![t] = Idle]
      /\ CanLock(t, Written(tx[t].loaded, tx[t].work))
  BY CommitRows DEF Commit
<1>2. ~Holds(t, x)' /\ \A u \in Threads \ {t} : tx'[u] = tx[u]
  BY <1>1 DEF Holds, Open, Idle, ServiceInv, TypeInv, TxType
<1>3. PICK u \in Threads : Holds(u, x)'
  BY DEF Taken
<1>4. u \in Threads \ {t} /\ Holds(u, x) /\ Open(u) /\ x \in Codes
  BY <1>2, <1>3 DEF Holds, Open, Taken, OpenCodes
<1>5. x \in OpenCodes(db, tx[u].license) /\ <<"code", x>> \in tx[u].locks /\ db.code[x].exists
  BY <1>4, HeldCode
<1>6. <<"code", x>> \notin Written(tx[t].loaded, tx[t].work)
  BY <1>1, <1>4, <1>5, WrittenUnlocked
<1>7. db'.code[x] = db.code[x]
  BY <1>1, <1>4, <1>5, <1>6 DEF Commits
<1>8. x \in OpenCodes(db, l)
  BY <1>7 DEF Taken, OpenCodes
<1>9. ~Holds(t, x)
  BY <1>4, OneHolder
<1> QED
  BY <1>2, <1>3, <1>4, <1>8, <1>9 DEF Taken

\* The devices spared after a commit were spared before it, by the committing
\* thread as well, or are the one it has bound.
LEMMA SparedAfter ==
  ASSUME ServiceInv, NEW t \in Threads, Commit(t), NEW l \in Licenses, NEW R \in SUBSET Taken(l)',
         NEW m \in Spared(R, l)'
  PROVE  /\ m \in Machines
         /\ \/ m \in Spared(R, l) /\ Untouched(t, <<l, m>>)
            \/ Binds(tx[t], <<l, m>>) /\ l = tx[t].license
<1>1. /\ m \in Machines /\ db'.device[<<l, m>>] = "active"
      /\ <<l, m>> \in Devices /\ <<l, m>>[1] = l
  BY DEF Spared, ActiveDevices, Devices
<1>2. \/ db.device[<<l, m>>] = "active" /\ Untouched(t, <<l, m>>)
      \/ Binds(tx[t], <<l, m>>) /\ l = tx[t].license
  BY <1>1, ActiveAfter
<1>3. CASE db.device[<<l, m>>] = "active" /\ Untouched(t, <<l, m>>)
  <2>1. \A u \in Threads \ {t} : tx'[u] = tx[u]
    BY DEF Commit, ServiceInv, TypeInv, TxType
  <2>2. R \in SUBSET Codes
    BY DEF Taken, OpenCodes
  <2>3. \A x \in R : ~Holds(t, x)' /\ \E u \in Threads : Holds(u, x)'
    BY TakenAfter
  <2> QED
    BY <1>1, <1>3, <2>1, <2>2, <2>3, SparedBefore
<1> QED
  BY <1>1, <1>2, <1>3

\* A license that a commit creates had no device and no code.
LEMMA NothingBefore ==
  ASSUME ServiceInv, NEW r, Creates(r)
  PROVE  /\ \A m \in Machines : db.device[<<r.license, m>>] # "active"
         /\ OpenCodes(db, r.license) = {}
<1>1. RowsInv /\ r.license \in Licenses /\ db.license[r.license].status = "absent"
  BY DEF ServiceInv, Creates
<1>2. ASSUME NEW m \in Machines PROVE db.device[<<r.license, m>>] # "active"
  <2>1. <<r.license, m>> \in Devices /\ <<r.license, m>>[1] = r.license
    BY <1>1 DEF Devices
  <2> QED
    BY <1>1, <2>1 DEF RowsInv, Match
<1>3. OpenCodes(db, r.license) = {}
  BY <1>1 DEF RowsInv, OpenCodes
<1> QED
  BY <1>2, <1>3

\* A commit that binds a device gives up its code for it.
LEMMA CommitWithin ==
  ASSUME ServiceInv, LimitInv, NEW t \in Threads, Commit(t), NEW l \in Licenses,
         NEW R \in SUBSET Taken(l)'
  PROVE  Within(R, l)'
<1> DEFINE after == Spared(R, l)'
           before == Spared(R, l)
<1>1. /\ R \in SUBSET Taken(l) /\ R \in SUBSET Codes /\ \A x \in R : ~Holds(t, x)
      /\ IsFiniteSet(R) /\ Cardinality(R) \in Nat
  <2>1. R \in SUBSET Taken(l) /\ \A x \in R : ~Holds(t, x)
    BY TakenAfter
  <2>2. R \subseteq OpenCodes(db, l) /\ R \subseteq Codes
    BY <2>1 DEF Taken, OpenCodes
  <2>3. IsFiniteSet(R)
    BY <2>2, OpenCodesCount, FS_Subset
  <2> QED
    BY <2>1, <2>2, <2>3, FS_CardinalityType
<1>2. mostOpen[l] \in Nat /\ mostOpen'[l] \in Nat /\ mostOpen'[l] >= mostOpen[l]
  <2>1. HistoryType
    BY DEF ServiceInv, TypeInv
  <2> QED
    BY <2>1, CommitHistory DEF HistoryType
<1>3. Open(t) /\ BindOk(tx[t])
  BY DEF Commit, Open, LimitInv
<1>4. \A S \in SUBSET Taken(l) :
        IsFiniteSet(Spared(S, l)) /\ Cardinality(Spared(S, l)) \in Nat /\ Within(S, l)
  BY Counted DEF Spared, LimitInv
<1>5. CASE \A m \in Machines : ~Binds(tx[t], <<l, m>>)
  <2>1. after \subseteq before
    BY <1>5, SparedAfter
  <2>2. Cardinality(after) \in Nat /\ Cardinality(after) <= Cardinality(before)
    BY <1>1, <1>4, <2>1, FS_Subset, FS_CardinalityType
  <2> QED
    BY <1>1, <1>2, <1>4, <2>2 DEF Within
<1>6. ASSUME NEW n \in Machines, Binds(tx[t], <<l, n>>), l = tx[t].license PROVE Within(R, l)'
  <2>1. \A m \in Machines : Binds(tx[t], <<l, m>>) => m = n
    BY <1>3, <1>6 DEF BindOk, Devices
  <2>2. CASE Creates(tx[t])
    <3>1. OpenCodes(db, l) = {} /\ \A m \in Machines : db.device[<<l, m>>] # "active"
      BY <1>6, <2>2, NothingBefore
    <3>2. R = {} /\ before = {}
      BY <1>1, <3>1 DEF Taken, Spared, ActiveDevices
    <3>3. after \subseteq {} \cup {n}
      BY <2>1, <3>2, SparedAfter
    <3>4. IsFiniteSet({}) /\ Cardinality({}) = 0
      BY FS_EmptySet
    <3>5. Cardinality(after) <= Cardinality({}) + 1
      BY <3>3, <3>4, OneMore
    <3> QED
      BY <3>2, <3>4, <3>5 DEF Within
  <2>3. ASSUME NEW x \in Codes, x \in tx[t].consumes PROVE Within(R, l)'
    <3> DEFINE S == R \cup {x}
               both == Spared(S, l)
    <3>1. Holds(t, x) /\ x \notin R
      BY <1>1, <1>3, <2>3 DEF Holds
    <3>2. S \in SUBSET Taken(l)
      <4>1. x \in OpenCodes(db, l)
        BY <1>6, <3>1, HeldCode
      <4>2. x \in Taken(l)
        BY <3>1, <4>1 DEF Taken
      <4> QED
        BY <1>1, <4>2
    <3>3. Cardinality(S) = Cardinality(R) + 1
      BY <1>1, <3>1, FS_AddElement
    <3>4. after \subseteq both \cup {n}
      <4> SUFFICES ASSUME NEW m \in after, m # n PROVE m \in both
        OBVIOUS
      <4>1. m \in before /\ Untouched(t, <<l, m>>)
        BY <2>1, SparedAfter
      <4>2. \A u \in Threads : Holds(u, x) => u = t
        BY <3>1, OneHolder
      <4> QED
        BY <4>1, <4>2 DEF Spared
    <3>5. Cardinality(after) \in Nat /\ Cardinality(after) <= Cardinality(both) + 1
      BY <1>4, <3>2, <3>4, OneMore
    <3>6. Cardinality(both) \in Nat /\ Cardinality(both) + Cardinality(S) <= mostOpen[l]
      BY <1>4, <3>1, <3>2 DEF Within
    <3> HIDE DEF S, both, after
    <3>7. Cardinality(after) + Cardinality(R) <= mostOpen'[l]
      BY <1>1, <1>2, <3>3, <3>5, <3>6
    <3> QED
      BY <3>7 DEF Within, after
  <2> QED
    BY <1>3, <1>6, <2>2, <2>3 DEF BindOk, Devices
<1> QED
  <2>1. ASSUME NEW m \in Machines, Binds(tx[t], <<l, m>>) PROVE l = tx[t].license
    <3>1. DeviceOk(tx[t]) /\ <<l, m>> \in Devices /\ <<l, m>>[1] = l
      BY <1>3 DEF ServiceInv, TxOk, Devices
    <3> QED
      BY <2>1, <3>1 DEF DeviceOk, Binds
  <2> QED
    BY <1>5, <1>6, <2>1

LEMMA CommitLimit ==
  ASSUME ServiceInv, LimitInv, NEW t \in Threads, Commit(t)
  PROVE  LimitInv'
<1>1. \A l \in Licenses : \A R \in SUBSET Taken(l)' : Within(R, l)'
  BY CommitWithin
<1>2. \A l \in Licenses : Cardinality(OpenCodes(db', l)) <= mostOpen'[l]
  <2>1. HistoryType
    BY DEF ServiceInv, TypeInv
  <2>2. \A l \in Licenses : mostOpen'[l] \in Nat /\ mostOpen'[l] >= Cardinality(OpenCodes(db', l))
                              /\ Cardinality(OpenCodes(db', l)) \in Nat
    BY <2>1, CommitHistory, OpenCodesCount DEF HistoryType
  <2> QED
    BY <2>2
<1>3. ASSUME NEW u \in Threads, Open(u)' PROVE BindOk(tx[u])'
  <2>1. u # t /\ tx'[u] = tx[u] /\ Open(u) /\ BindOk(tx[u])
    BY <1>3 DEF Commit, ServiceInv, TypeInv, TxType, Open, Idle, LimitInv
  <2>2. Commits(t) /\ Open(t)
    BY CommitRows DEF Commit, Open
  <2>3. Creates(tx[u]) => Creates(tx[u])'
    BY <2>1, <2>2 DEF ServiceInv, Creates, Apart, Commits
  <2> QED
    BY <2>1, <2>3 DEF BindOk, Binds
<1> QED
  BY <1>1, <1>2, <1>3 DEF LimitInv

LEMMA LimitKept ==
  ASSUME ServiceInv, LimitInv, [Next]_vars
  PROVE  LimitInv'
<1>1. ASSUME NEW t \in Threads, Abort(t) PROVE LimitInv'
  <2>1. db' = db /\ mostOpen' = mostOpen /\ tx' = [tx EXCEPT ![t] = Idle]
    BY <1>1 DEF Abort, history
  <2> QED
    BY <2>1, StutterLimit
<1>2. CASE Tick \/ UNCHANGED vars
  <2>1. db' = db /\ tx' = tx /\ mostOpen' = mostOpen
    BY <1>2 DEF Tick, vars, history
  <2>2. (\A u \in Threads : Open(u) => BindOk(tx[u]))'
    BY <2>1 DEF LimitInv, Open, BindOk, Binds, Creates
  <2>3. \A l \in Licenses : Taken(l)' = Taken(l)
    BY <2>1 DEF Taken, Holds, Open
  <2>4. \A l \in Licenses : \A R \in SUBSET Taken(l) : Within(R, l)' <=> Within(R, l)
    BY <2>1 DEF Within, Spared, Holds, Open, Untouched
  <2> QED
    BY <2>1, <2>2, <2>3, <2>4 DEF LimitInv
<1> QED
  BY <1>1, <1>2, Steps, BeginsLimit, CommitLimit

THEOREM DevicesWithin == Spec => []LimitInv
<1>1. Init => LimitInv
  <2> SUFFICES ASSUME Init PROVE LimitInv
    OBVIOUS
  <2>1. \A t \in Threads : ~Open(t)
    BY DEF Init, Open, Idle
  <2>2. ASSUME NEW l \in Licenses PROVE OpenCodes(db, l) = {} /\ ActiveDevices(db, l) = {}
    <3>1. \A x \in Codes : ~db.code[x].exists
      BY DEF Init, NoTables
    <3>2. \A m \in Machines : <<l, m>> \in Devices /\ db.device[<<l, m>>] = "absent"
      BY DEF Init, NoTables, Devices
    <3> QED
      BY <3>1, <3>2 DEF OpenCodes, ActiveDevices
  <2>3. Cardinality({}) = 0 /\ \A l \in Licenses : mostOpen[l] = 0
    BY FS_EmptySet DEF Init
  <2>4. ASSUME NEW l \in Licenses, NEW R \in SUBSET Taken(l) PROVE Within(R, l)
    <3>1. R = {} /\ Spared(R, l) = {}
      BY <2>2 DEF Taken, Spared
    <3> QED
      BY <2>3, <3>1 DEF Within
  <2>5. \A l \in Licenses : Cardinality(OpenCodes(db, l)) <= mostOpen[l]
    BY <2>2, <2>3
  <2> QED
    BY <2>1, <2>4, <2>5 DEF LimitInv
<1>2. ServiceInv /\ LimitInv /\ [Next]_vars => LimitInv'
  BY LimitKept
<1> QED
  BY <1>1, <1>2, Service, PTL DEF Spec

\* A license has no more active devices than its card allows, or than rebind
\* codes of it have waited at one time, although the devices are counted in a
\* snapshot, without a lock.
THEOREM DevicesAreLimited == Spec => []DeviceLimit
<1>1. ServiceInv /\ LimitInv => DeviceLimit
  <2> SUFFICES ASSUME ServiceInv, LimitInv, NEW l \in Licenses, db.license[l].status # "absent"
               PROVE  \/ Cardinality(ActiveDevices(db, l)) <= db.license[l].limit
                      \/ Cardinality(ActiveDevices(db, l)) <= mostOpen[l]
    BY DEF DeviceLimit
  <2>1. db.license[l].limit \in Nat \ {0}
    BY Basics DEF RowsInv, Tables, LicenseRow
  <2>2. Within({}, l) /\ Spared({}, l) = ActiveDevices(db, l)
    BY DEF LimitInv, Spared
  <2>3. Cardinality(ActiveDevices(db, l)) \in Nat /\ Cardinality({}) = 0
    BY Counted, FS_EmptySet
  <2> QED
    BY <2>1, <2>2, <2>3 DEF Within
<1> QED
  BY <1>1, Service, DevicesWithin, PTL

-----------------------------------------------------------------------------
(* A renewal reads the date of the license when its device is authenticated *)
(* and writes it when it commits.                                           *)

\* A date read in an open renewal may be out of date.
Overtaken(l) == l \in overruled \/ mostOpen[l] > 1

\* The date in the database is the one an open renewal has read, unless an
\* administrator has set it since or another device of the license is active.
SeenInv == \A t \in Clients : Open(t) /\ tx[t].kind = "renew" =>
  LET l   == tx[t].license
      old == tx[t].loaded.license[l].expires
  IN  \/ db.license[l].expires = old \/ Overtaken(l)
      \/ tx[t].pc = "ready" /\ tx[t].work.license[l].expires = old

LEMMA BeginsSeen ==
  ASSUME ServiceInv, SeenInv, NEW t \in Threads, Begins(t)
  PROVE  SeenInv'
<1>1. /\ db' = db /\ SeenNow(t, tx'[t]) /\ \A u \in Threads \ {t} : tx'[u] = tx[u]
      /\ overruled' = overruled /\ mostOpen' = mostOpen
  BY DEF Begins, history
<1> SUFFICES ASSUME NEW u \in Clients, Open(u)', tx'[u].kind = "renew"
             PROVE  LET l   == tx'[u].license
                        old == tx'[u].loaded.license[l].expires
                    IN  \/ db.license[l].expires = old \/ Overtaken(l)
                        \/ tx'[u].pc = "ready" /\ tx'[u].work.license[l].expires = old
  BY <1>1 DEF SeenInv, Overtaken
<1>2. CASE u # t
  <2>1. tx'[u] = tx[u]
    BY <1>1, <1>2 DEF Threads
  <2> QED
    BY <2>1 DEF SeenInv, Open
<1>3. CASE u = t
  BY <1>1, <1>3 DEF SeenNow, SeenInv
<1> QED
  BY <1>2, <1>3

\* Two renewals of one license are served for two of its devices, each of which
\* holds its own token, and two devices take two rebind codes.
LEMMA RenewalsOvertake ==
  ASSUME ServiceInv, LimitInv, NEW t \in Clients, NEW u \in Clients, t # u, Open(t), Open(u),
         tx[t].kind = "renew", tx[u].kind = "renew", tx[t].license = tx[u].license
  PROVE  mostOpen[tx[u].license] > 1
<1> DEFINE l == tx[u].license
           m == tx[t].machine
           n == tx[u].machine
<1>1. /\ l \in Licenses /\ m \in Machines /\ n \in Machines
      /\ <<"token", <<l, m>>>> \in tx[t].locks /\ db.device[<<l, m>>] = "active"
      /\ <<"token", <<l, n>>>> \in tx[u].locks /\ db.device[<<l, n>>] = "active"
      /\ tx[t].locks \cap tx[u].locks = {}
  BY DEF ServiceInv, TxOk, ServedOk, Apart, Threads
<1>2. m # n /\ {m, n} \subseteq ActiveDevices(db, l)
  BY <1>1 DEF ActiveDevices
<1>3. Cardinality({m, n}) = 2
  <2> HIDE DEF m, n
  <2>1. IsFiniteSet({m}) /\ Cardinality({m}) = 1 /\ n \notin {m}
    BY <1>2, FS_Singleton
  <2>2. Cardinality({m} \cup {n}) = Cardinality({m}) + 1
    BY <2>1, FS_AddElement
  <2>3. {m, n} = {m} \cup {n}
    OBVIOUS
  <2> QED
    BY <2>1, <2>2, <2>3
<1>4. Cardinality({m, n}) <= Cardinality(ActiveDevices(db, l))
      /\ Cardinality(ActiveDevices(db, l)) \in Nat
  BY <1>2, Counted, FS_Subset
<1>5. Within({}, l) /\ Spared({}, l) = ActiveDevices(db, l) /\ Cardinality({}) = 0
  BY <1>1, FS_EmptySet DEF LimitInv, Spared
<1>6. mostOpen[l] \in Nat
  BY <1>1 DEF ServiceInv, TypeInv, HistoryType
<1> HIDE DEF l, m, n
<1>7. mostOpen[l] > 1
  BY <1>3, <1>4, <1>5, <1>6 DEF Within
<1> QED
  BY <1>7 DEF l

LEMMA CommitSeen ==
  ASSUME ServiceInv, LimitInv, SeenInv, NEW t \in Threads, Commit(t)
  PROVE  SeenInv'
<1>1. /\ RowsInv /\ TxType /\ Commits(t) /\ Open(t) /\ DatesOk(t, tx[t]) /\ HistoryType
      /\ tx' = [tx EXCEPT ![t] = Idle]
  BY Basics, CommitRows DEF Commit, ServiceInv, TypeInv, Open, TxOk
<1> SUFFICES ASSUME NEW u \in Clients, Open(u)', tx'[u].kind = "renew"
             PROVE  LET l   == tx'[u].license
                        old == tx'[u].loaded.license[l].expires
                    IN  \/ db'.license[l].expires = old \/ l \in overruled' \/ mostOpen'[l] > 1
                        \/ tx'[u].pc = "ready" /\ tx'[u].work.license[l].expires = old
  BY DEF SeenInv, Overtaken
<1> DEFINE l == tx[u].license
           late == l \in overruled' \/ mostOpen'[l] > 1
<1>2. u # t /\ tx'[u] = tx[u] /\ Open(u) /\ u \in Threads /\ tx[u].kind = "renew"
  BY <1>1 DEF TxType, Open, Idle, Threads
<1>3. l \in Licenses /\ db.license[l].status # "absent"
  <2>1. /\ <<l, tx[u].machine>> \in Devices /\ <<l, tx[u].machine>>[1] = l
        /\ db.token[<<l, tx[u].machine>>] = "valid" /\ l \in Licenses
    BY <1>2 DEF ServiceInv, TxOk, ServedOk, Devices
  <2> QED
    BY <1>1, <2>1 DEF RowsInv
<1>4. mostOpen[l] > 1 => late
  <2>1. mostOpen[l] \in Nat /\ mostOpen'[l] \in Nat /\ mostOpen'[l] >= mostOpen[l]
    BY <1>1, <1>3, CommitHistory DEF HistoryType
  <2> QED
    BY <2>1
<1>5. CASE db'.license[l].expires = db.license[l].expires
  <2>1. l \in overruled => late
    BY <1>3, <1>5 DEF Commit
  <2>2. LET old == tx[u].loaded.license[l].expires IN
        \/ db.license[l].expires = old \/ Overtaken(l)
        \/ tx[u].pc = "ready" /\ tx[u].work.license[l].expires = old
    BY <1>2 DEF SeenInv
  <2> QED
    BY <1>2, <1>4, <1>5, <2>1, <2>2 DEF Overtaken
<1>6. CASE db'.license[l].expires # db.license[l].expires
  <2>1. tx[t].work.license[l].expires # tx[t].loaded.license[l].expires
    BY <1>1, <1>3, <1>6 DEF Commits
  <2>2. \/ l = tx[t].license /\ Creates(tx[t])
        \/ l = tx[t].license /\ t \in Clients /\ tx[t].kind = "renew"
        \/ t \in Admins
    BY <1>1, <1>3, <2>1 DEF DatesOk
  <2>3. ~(l = tx[t].license /\ Creates(tx[t]))
    BY <1>3 DEF Creates
  <2>4. l = tx[t].license /\ t \in Clients /\ tx[t].kind = "renew" => late
    BY <1>1, <1>2, <1>4, RenewalsOvertake
  <2>5. t \in Admins => late
    BY <1>3, <1>6 DEF Commit
  <2> QED
    BY <1>2, <2>2, <2>3, <2>4, <2>5
<1> QED
  BY <1>5, <1>6

LEMMA SeenKept ==
  ASSUME ServiceInv, LimitInv, SeenInv, [Next]_vars
  PROVE  SeenInv'
<1>1. ASSUME NEW t \in Threads, Abort(t) PROVE SeenInv'
  <2>1. db' = db /\ tx' = [tx EXCEPT ![t] = Idle] /\ overruled' = overruled /\ mostOpen' = mostOpen
    BY <1>1 DEF Abort, history
  <2>2. \A u \in Clients : Open(u)' => tx'[u] = tx[u] /\ Open(u)
    BY <2>1 DEF ServiceInv, TypeInv, TxType, Open, Idle, Threads
  <2> QED
    BY <2>1, <2>2 DEF SeenInv, Overtaken
<1>2. CASE Tick \/ UNCHANGED vars
  <2>1. db' = db /\ tx' = tx /\ overruled' = overruled /\ mostOpen' = mostOpen
    BY <1>2 DEF Tick, vars, history
  <2> QED
    BY <2>1 DEF SeenInv, Open, Overtaken
<1> QED
  BY <1>1, <1>2, Steps, BeginsSeen, CommitSeen

\* A renewal that has read a date adds the days of its card to the one in the
\* database, or makes the license permanent, and never takes a permanent license
\* back, unless the date it has read has been replaced since: by an administrator,
\* who locks the license but not what a renewal reads, or by another renewal, of
\* another active device.
THEOREM RenewalsAdd == Spec => RenewAddsDays
<1> DEFINE Adds == \A t \in Clients, c \in Cards :
       (tx[t].pc = "ready" /\ tx[t].kind = "renew" /\ uses'[c] # uses[c] /\ tx'[t] # tx[t])
         => LET l    == tx[t].license
                read == tx[t].loaded.license[l].expires
                old  == db.license[l].expires
                new  == db'.license[l].expires
            IN  \/ new = Never
                \/ old # Never /\ new >= old + Days[c]
                \/ read = Never
                \/ read # old /\ (l \in overruled \/ mostOpen[l] > 1)
<1>1. Init => SeenInv
  BY DEF Init, SeenInv, Open, Idle, Threads
<1>2. ServiceInv /\ LimitInv /\ SeenInv /\ [Next]_vars => SeenInv'
  BY SeenKept
<1>3. ServiceInv /\ SeenInv /\ [Next]_vars => Adds
  <2> SUFFICES ASSUME ServiceInv, SeenInv, [Next]_vars, NEW t \in Clients, NEW c \in Cards,
                      tx[t].pc = "ready", tx[t].kind = "renew", uses'[c] # uses[c], tx'[t] # tx[t]
               PROVE  LET l    == tx[t].license
                          read == tx[t].loaded.license[l].expires
                          old  == db.license[l].expires
                          new  == db'.license[l].expires
                      IN  \/ new = Never
                          \/ old # Never /\ new >= old + Days[c]
                          \/ read = Never
                          \/ read # old /\ (l \in overruled \/ mostOpen[l] > 1)
    OBVIOUS
  <2> DEFINE l == tx[t].license
             read == tx[t].loaded.license[l].expires
             work == tx[t].work.license[l].expires
             old == db.license[l].expires
             new == db'.license[l].expires
  <2>1. PICK u \in Threads :
          Commit(u) /\ uses'[c] = uses[c] + (IF c \in tx[u].consumes THEN 1 ELSE 0)
               /\ uses[c] \in Nat
    BY Uses DEF Keys
  <2>2. u = t
    BY <2>1 DEF Commit, ServiceInv, TypeInv, TxType, Threads
  <2>3. /\ Commit(t) /\ c \in tx[t].consumes /\ t \in Threads /\ Open(t)
    BY <2>1, <2>2 DEF Threads, Open
  <2>4. /\ l \in Licenses /\ PaidOk(tx[t]) /\ tx[t].loaded \in Tables /\ tx[t].work \in Tables
        /\ db \in Tables /\ db' = Flushed(tx[t].loaded, tx[t].work, db)
    BY <2>3, Basics, OpenType DEF Commit, ServiceInv, TxOk, ServedOk
  <2>5. /\ read \in Nat \cup {Never} /\ work \in Nat \cup {Never} /\ old \in Nat \cup {Never}
        /\ Days[c] \in Nat
    BY <2>4 DEF Tables, LicenseRow
  <2>6. new = IF work # read THEN work ELSE old
    <3> DEFINE L == tx[t].loaded
               K == tx[t].work
    <3>1. L \in Tables /\ K \in Tables /\ l \in Licenses /\ db \in Tables /\ db' = Flushed(L, K, db)
      BY <2>4
    <3> HIDE DEF L, K, l
    <3>2. Flushed(L, K, db).license[l].expires
            = IF K.license[l].expires # L.license[l].expires
              THEN K.license[l].expires ELSE db.license[l].expires
      BY <3>1, FlushedDate
    <3> QED
      BY <3>1, <3>2 DEF L, K
  <2>7. \/ work = read /\ Days[c] = 0
        \/ work # read /\ (work = Never \/ work >= read + Days[c])
    BY <2>3, <2>4 DEF PaidOk
  <2>8. old = read \/ l \in overruled \/ mostOpen[l] > 1 \/ work = read
    BY <2>3 DEF SeenInv, Overtaken
  <2> HIDE DEF read, work, old, new
  <2>9. \/ new = Never
        \/ old # Never /\ new >= old + Days[c]
        \/ read = Never
        \/ read # old /\ (l \in overruled \/ mostOpen[l] > 1)
    BY <2>5, <2>6, <2>7, <2>8 DEF Never
  <2> QED
    BY <2>9 DEF read, old, new
<1> HIDE DEF Adds
<1>4. Spec => [][Adds]_vars
  BY <1>1, <1>2, <1>3, Service, DevicesWithin, PTL DEF Spec
<1> QED
  BY <1>4 DEF RenewAddsDays, Adds

=============================================================================
