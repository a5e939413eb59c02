------------------------ MODULE MaterialLibraryProofs ------------------------
(***************************************************************************)
(* Proofs about the migration of old data and the material library, for    *)
(* every list of names, any number of earlier data roots and upload        *)
(* requests, and any number of starts and faults.                          *)
(***************************************************************************)
EXTENDS MaterialLibrary, SequenceTheorems, TLAPS

-----------------------------------------------------------------------------
(* The inductive invariant.                                                *)

Stages == {"sent", "named", "writing", "written", "over"}

WalkType == [root : Nat, dir : 0 .. 2, left : SUBSET Files, copying : Files \cup {None},
             gone : BOOLEAN]

\* A file holds anything, also what another program has left there.
TypeOK ==
  /\ plugged \in SUBSET (1 .. Roots)
  /\ disk = [f \in Files |-> disk[f]]
  /\ marked \in SUBSET (1 .. Roots)
  /\ phase \in {"down", "migrating", "layout", "rebuilding", "up"}
  /\ walk \in WalkType
  /\ starts \in Nat /\ faults \in Nat
  /\ upload \in [Uploads -> [stage : Stages, name : NameSet]]
  /\ manage \in Request \cup {None}
  /\ blind \in SUBSET Uploads
  /\ tags \in [NameSet -> {None, "plain", "tagged"}]

\* The walk stands in a root that was there when it was opened; the file it is
\* copying is one of those it has still to do, and torn.
WalkSound ==
  phase = "migrating" =>
    /\ walk.dir > 0 => walk.root \in 1 .. Roots /\ (walk.gone \/ walk.root \in plugged)
    /\ \A f \in walk.left : walk.dir > 0 /\ old[walk.root][f] # None
    /\ walk.copying # None => walk.copying \in walk.left /\ disk[walk.copying] = Torn

\* Of the directories behind it every file has a place here, or is still to do.
WalkDone ==
  phase = "migrating" /\ ~walk.gone =>
    \A d \in 1 .. walk.dir : \A f \in Directories[d] :
      old[walk.root][f] # None => f \in walk.left \/ disk[f] # None

Walk == WalkSound /\ WalkDone

\* Only a program that is up has requests on their way.
Quiet ==
  phase # "up" => manage = None /\ \A k \in Uploads : upload[k].stage \in {"sent", "over"}

\* An upload that is being written sees its own file, or has met another one.
WritesMeet ==
  /\ \A k \in blind : upload[k].stage # "sent"
  /\ \A k \in Uploads : upload[k].stage = "writing" =>
       disk[upload[k].name] = Begun(k) \/ \E j \in blind : upload[j].name = upload[k].name

\* Tags the user relies on are those in the metadata file: all of them while
\* nobody holds the lock, all but those of a moved material otherwise.
TagsStored ==
  \A n \in NameSet : tags[n] # None =>
    /\ disk[n] # None
    /\ manage = None \/ n \notin manage.moved => disk[Metadata] \in Dictionary /\ disk[Metadata][n] = tags[n]

\* The copy of the manage request has them too, but for those it is changing.
TagsInHand ==
  manage # None =>
    /\ \A n \in NameSet \ manage.tagged : tags[n] # None => manage.meta[n] = tags[n]
    /\ \A n \in manage.tagged : manage.meta[n] = "tagged"
    /\ manage.action # "tags" => manage.tagged = {}
    /\ manage.left # {} => manage.moved = {}

\* The metadata file is a dictionary once the start is over, and torn while it
\* is being made anew.
MetadataSound ==
  /\ phase = "up" => disk[Metadata] \in Dictionary
  /\ phase = "rebuilding" => disk[Metadata] = Torn

Tags == TagsStored /\ TagsInHand /\ MetadataSound

IInv == TypeOK /\ Walk /\ Quiet /\ WritesMeet /\ Tags

-----------------------------------------------------------------------------
(* Facts about the constants.                                              *)

LEMMA FileFacts ==
  /\ NameSet \subseteq Files /\ Profile \in Files /\ Metadata \in Files
  /\ Metadata \notin NameSet
  /\ None \notin Files
  /\ Names[1] \in NameSet
  /\ \A i \in 1 .. Len(Names) : Names[i] \in NameSet
<1>1. Len(Names) \in Nat /\ Len(Names) # 0
  BY EmptySeq, LenProperties, MigrationAssumption
<1> QED BY <1>1, MigrationAssumption DEF NameSet, Files

LEMMA DirectoryFacts ==
  /\ Len(Directories) = 2
  /\ Directories[1] = {Profile}
  /\ Directories[2] = NameSet \cup {Metadata}
  /\ \A d \in 1 .. 2 : Directories[d] \subseteq Files
  /\ \A f \in Files : f \in Directories[1] \/ f \in Directories[2]
<1>1. /\ Len(Directories) = 2
      /\ Directories[1] = {Profile}
      /\ Directories[2] = NameSet \cup {Metadata}
  BY DEF Directories
<1>2. \A d \in 1 .. 2 : d = 1 \/ d = 2
  OBVIOUS
<1> QED BY <1>1, <1>2 DEF Files

\* No file, a torn one and one that is still being written are no materials.
LEMMA MaterialFacts ==
  /\ None \notin Materials /\ Torn \notin Materials
  /\ \A k \in Uploads : Begun(k) \notin Materials /\ Begun(k) # None
  /\ \A k, j \in Uploads : Begun(k) = Begun(j) => k = j
<1>1. \A s \in 1 .. Roots, n \in NameSet : OldFile(s, n) # None /\ OldFile(s, n) # Torn
  BY MigrationAssumption, FileFacts
<1>2. \A k \in Uploads : Begun(k) # None /\ Whole(k) # None /\ Whole(k) # Torn
  BY LibraryAssumption
<1>3. \A k \in Uploads : \A s \in 1 .. Roots, n \in NameSet : Begun(k) # OldFile(s, n)
  BY DEF Begun, OldFile
<1>4. \A k, j \in Uploads : Begun(k) # Whole(j) /\ (Begun(k) = Begun(j) => k = j)
  BY DEF Begun, Whole
<1> QED BY <1>1, <1>2, <1>3, <1>4 DEF Materials

LEMMA TagFacts ==
  /\ NoTags \in Dictionary
  /\ \A m \in Dictionary, n \in NameSet, t \in {None, "plain", "tagged"} :
       [m EXCEPT ![n] = t] \in Dictionary
BY DEF NoTags, Dictionary

-----------------------------------------------------------------------------
(* Types.                                                                  *)

LEMMA InitTyped == Init => TypeOK
<1> SUFFICES ASSUME Init PROVE TypeOK
  OBVIOUS
<1>1. disk = [f \in Files |-> disk[f]]
  BY DEF Init, InitMigration
<1>2. walk \in WalkType
  BY DEF Init, InitMigration, AtRoot, WalkType
<1>3. upload \in [Uploads -> [stage : Stages, name : NameSet]]
  BY FileFacts DEF Init, Stages
<1> QED BY <1>1, <1>2, <1>3 DEF Init, InitMigration, TypeOK

LEMMA NextRootTyped ==
  ASSUME TypeOK, NextRoot
  PROVE  /\ walk' = AtRoot(1) \/ walk' = AtRoot(walk.root + 1)
         /\ walk' \in WalkType
         /\ plugged' \in SUBSET (1 .. Roots)
         /\ phase' \in {phase, "layout"}
<1>1. walk.root \in Nat
  BY DEF TypeOK, WalkType
<1>2. AtRoot(1) \in WalkType /\ AtRoot(walk.root + 1) \in WalkType
  BY <1>1 DEF AtRoot, WalkType
<1>3. walk' = AtRoot(1) \/ walk' = AtRoot(walk.root + 1)
  BY DEF NextRoot
<1>4. /\ plugged' \in SUBSET (1 .. Roots)
      /\ phase' \in {phase, "layout"}
  BY DEF NextRoot, TypeOK
<1> QED BY <1>2, <1>3, <1>4

LEMMA StartTyped == ASSUME TypeOK, WalkSound, Starts PROVE TypeOK'
<1> USE DEF TypeOK
<1>1. CASE Start
  <2>1. walk' \in WalkType
    BY <1>1 DEF Start, AtRoot, WalkType
  <2> QED BY <2>1, <1>1 DEF Start, Starts, library
<1>2. CASE SkipRoot
  BY <1>2, NextRootTyped DEF SkipRoot, Starts, library
<1>3. CASE OpenDirectory
  <2> DEFINE L == IF walk.root \in plugged
                  THEN {f \in Directories[walk.dir + 1] : old[walk.root][f] # None} ELSE {}
  <2>1. walk.dir + 1 \in 1 .. 2
    BY <1>3, DirectoryFacts DEF OpenDirectory, WalkType
  <2>2. L \subseteq Files
    BY <2>1, DirectoryFacts
  <2>3. walk' = [walk EXCEPT !.dir = walk.dir + 1, !.left = L]
    BY <1>3 DEF OpenDirectory
  <2> HIDE DEF L
  <2>4. walk.dir + 1 \in 0 .. 2
    BY <2>1
  <2>5. walk' \in WalkType
    BY <2>4, <2>2, <2>3 DEF WalkType
  <2> QED BY <2>5, <1>3 DEF OpenDirectory, Starts, library
<1>4. ASSUME NEW f \in Files, SkipFile(f) PROVE TypeOK'
  <2>1. walk' \in WalkType
    BY <1>4 DEF SkipFile, WalkType
  <2> QED BY <2>1, <1>4 DEF SkipFile, Starts, library
<1>5. ASSUME NEW f \in Files, CopyBegin(f) PROVE TypeOK'
  <2>1. walk' \in WalkType
    BY <1>5 DEF CopyBegin, WalkType
  <2> QED BY <2>1, <1>5 DEF CopyBegin, Starts, library
<1>6. ASSUME NEW f \in Files, CopyEnd(f) PROVE TypeOK'
  <2>1. walk' \in WalkType
    BY <1>6 DEF CopyEnd, WalkType
  <2> QED BY <2>1, <1>6 DEF CopyEnd, Starts, library
<1>7. CASE CopyFails
  BY <1>7, NextRootTyped DEF CopyFails, GivesUp, Fault, Starts, library
<1>8. CASE Mark
  <2>1. marked' \in SUBSET (1 .. Roots)
    BY <1>8, DirectoryFacts DEF Mark, WalkSound
  <2> QED BY <2>1, <1>8, NextRootTyped DEF Mark, Starts, library
<1>9. CASE MarkFails
  BY <1>9, NextRootTyped DEF MarkFails, GivesUp, Fault, Starts, library
<1>10. CASE Unplug
  <2>1. walk' \in WalkType
    BY <1>10 DEF Unplug, WalkType
  <2> QED BY <2>1, <1>10 DEF Unplug, Fault, Starts, library
<1>11. CASE LayoutKeeps
  BY <1>11 DEF LayoutKeeps, Starts, library
<1>12. CASE LayoutRebuilds
  BY <1>12, FileFacts DEF LayoutRebuilds, Starts, library
<1>13. CASE LayoutEnds
  BY <1>13, FileFacts DEF LayoutEnds, Starts, library
<1> QED
  BY <1>1, <1>2, <1>3, <1>4, <1>5, <1>6, <1>7, <1>8, <1>9, <1>10, <1>11, <1>12, <1>13
  DEF Starts, StartUp

LEMMA AtTyped ==
  ASSUME TypeOK, NEW k \in Uploads, NEW stage \in Stages, NEW n \in NameSet, At(k, stage, n)
  PROVE  /\ upload' \in [Uploads -> [stage : Stages, name : NameSet]]
         /\ upload'[k] = [stage |-> stage, name |-> n]
         /\ \A j \in Uploads \ {k} : upload'[j] = upload[j]
BY DEF At, TypeOK

LEMMA UploadTyped == ASSUME TypeOK, NEW k \in Uploads PROVE upload[k].name \in NameSet
BY DEF TypeOK

\* One file, or the tags of some names, are replaced.
LEMMA PutKeeps ==
  ASSUME TypeOK, NEW n \in Files, NEW c, Put(n, c)
  PROVE  /\ disk' = [f \in Files |-> disk'[f]]
         /\ disk'[n] = c
         /\ \A f \in Files \ {n} : disk'[f] = disk[f]
BY DEF Put, TypeOK

LEMMA RelyTyped ==
  ASSUME TypeOK, NEW ns, NEW t \in {None, "plain", "tagged"}, Rely(ns, t)
  PROVE  /\ tags' \in [NameSet -> {None, "plain", "tagged"}]
         /\ \A n \in NameSet : tags'[n] = IF n \in ns THEN t ELSE tags[n]
BY DEF Rely, TypeOK

LEMMA ForgetTyped ==
  ASSUME TypeOK, NEW ns, Forget(ns)
  PROVE  /\ tags' \in [NameSet -> {None, "plain", "tagged"}]
         /\ \A n \in NameSet : tags'[n] = IF n \in ns THEN None ELSE tags[n]
BY RelyTyped DEF Forget

LEMMA UploadingTyped == ASSUME TypeOK, Uploading PROVE TypeOK'
<1> PICK k \in Uploads :
       Choose(k) \/ Write(k) \/ Written(k) \/ WriteFails(k)
         \/ Enter(k) \/ EnterMisreads(k) \/ EnterFails(k)
  BY DEF Uploading
<1>1. upload[k].name \in NameSet /\ upload[k].name \in Files /\ Metadata \in Files
  BY UploadTyped, FileFacts
<1>2. {"named", "writing", "written", "over"} \subseteq Stages
  BY DEF Stages
<1>3. CASE Choose(k)
  <2>1. PICK i \in 1 .. Len(Names) : At(k, "named", Names[i])
    BY <1>3 DEF Choose
  <2>2. Names[i] \in NameSet
    BY FileFacts
  <2> QED BY <2>1, <2>2, <1>2, <1>3, AtTyped DEF Choose, start, TypeOK
<1>4. CASE Write(k)
  <2>1. /\ upload' \in [Uploads -> [stage : Stages, name : NameSet]]
        /\ disk' = [f \in Files |-> disk'[f]]
        /\ tags' \in [NameSet -> {None, "plain", "tagged"}]
    BY <1>1, <1>2, <1>4, AtTyped, PutKeeps, ForgetTyped DEF Write
  <2>2. blind' \in SUBSET Uploads
    BY <1>4 DEF Write, TypeOK
  <2> QED BY <2>1, <2>2, <1>4 DEF Write, TypeOK
<1>5. CASE Written(k)
  <2>1. PICK c : Put(upload[k].name, c)
    BY <1>5 DEF Written
  <2>2. /\ upload' \in [Uploads -> [stage : Stages, name : NameSet]]
        /\ disk' = [f \in Files |-> disk'[f]]
    BY <1>1, <1>2, <1>5, <2>1, AtTyped, PutKeeps DEF Written
  <2> QED BY <2>2, <1>5 DEF Written, TypeOK
<1>6. CASE WriteFails(k)
  <2>1. upload' \in [Uploads -> [stage : Stages, name : NameSet]]
    BY <1>1, <1>2, <1>6, AtTyped DEF WriteFails
  <2> QED BY <2>1, <1>6 DEF WriteFails, Fault, TypeOK
<1>7. CASE Enter(k)
  <2>1. /\ upload' \in [Uploads -> [stage : Stages, name : NameSet]]
        /\ disk' = [f \in Files |-> disk'[f]]
    BY <1>1, <1>2, <1>7, AtTyped, PutKeeps DEF Enter
  <2>2. tags' \in [NameSet -> {None, "plain", "tagged"}]
    BY <1>7, RelyTyped, ForgetTyped DEF Enter
  <2> QED BY <2>1, <2>2, <1>7 DEF Enter, TypeOK
<1>8. CASE EnterMisreads(k)
  <2>1. /\ upload' \in [Uploads -> [stage : Stages, name : NameSet]]
        /\ disk' = [f \in Files |-> disk'[f]]
    BY <1>1, <1>2, <1>8, AtTyped, PutKeeps DEF EnterMisreads
  <2>2. tags' \in [NameSet -> {None, "plain", "tagged"}]
    BY <1>8, ForgetTyped DEF EnterMisreads
  <2> QED BY <2>1, <2>2, <1>8 DEF EnterMisreads, Fault, TypeOK
<1>9. CASE EnterFails(k)
  <2>1. upload' \in [Uploads -> [stage : Stages, name : NameSet]]
    BY <1>1, <1>2, <1>9, AtTyped DEF EnterFails
  <2> QED BY <2>1, <1>9 DEF EnterFails, Fault, TypeOK
<1> QED BY <1>3, <1>4, <1>5, <1>6, <1>7, <1>8, <1>9

LEMMA RenamedTyped ==
  ASSUME NEW meta \in Dictionary, NEW n \in NameSet, NEW target \in NameSet
  PROVE  Renamed(meta, n, target) \in Dictionary
BY DEF Renamed, Dictionary

LEMMA ManagingTyped == ASSUME TypeOK, MetadataSound, Managing PROVE TypeOK'
<1>1. ASSUME NEW a \in Actions, NEW ids \in SUBSET NameSet, Manage(a, ids) PROVE TypeOK'
  <2>1. disk[Metadata] \in Dictionary
    BY <1>1 DEF Manage, MetadataSound
  <2>2. manage' \in Request
    BY <1>1, <2>1 DEF Manage, Request
  <2> QED BY <2>2, <1>1 DEF Manage, start, TypeOK
<1>2. ASSUME NEW a \in Actions, NEW ids \in SUBSET NameSet, ManageMisreads(a, ids) PROVE TypeOK'
  <2>1. manage' \in Request
    BY <1>2, TagFacts DEF ManageMisreads, Request
  <2>2. tags' \in [NameSet -> {None, "plain", "tagged"}]
    BY <1>2, ForgetTyped DEF ManageMisreads
  <2> QED BY <2>1, <2>2, <1>2 DEF ManageMisreads, Fault, TypeOK
<1>3. ASSUME NEW n \in NameSet, Pass(n) PROVE TypeOK'
  <2>1. manage \in Request /\ manage.left \ {n} \in SUBSET NameSet
    BY <1>3 DEF Pass, TypeOK, Request
  <2>2. manage' = [manage EXCEPT !.left = manage.left \ {n}]
    BY <1>3 DEF Pass
  <2>3. manage' \in Request
    BY <2>1, <2>2 DEF Request
  <2> QED BY <2>3, <1>3 DEF Pass, start, TypeOK
<1>4. ASSUME NEW n \in NameSet, DeleteOne(n) PROVE TypeOK'
  <2>1. manage \in Request
    BY <1>4 DEF DeleteOne, TypeOK
  <2>2. /\ manage.left \ {n} \in SUBSET NameSet
        /\ [manage.meta EXCEPT ![n] = None] \in Dictionary
    BY <2>1, TagFacts DEF Request
  <2>3. manage' = [manage EXCEPT !.left = manage.left \ {n}, !.meta = [manage.meta EXCEPT ![n] = None]]
    BY <1>4 DEF DeleteOne
  <2>4. manage' \in Request
    BY <2>1, <2>2, <2>3 DEF Request
  <2>5. /\ disk' = [f \in Files |-> disk'[f]]
        /\ tags' \in [NameSet -> {None, "plain", "tagged"}]
    BY <1>4, FileFacts, PutKeeps, ForgetTyped DEF DeleteOne
  <2> QED BY <2>4, <2>5, <1>4 DEF DeleteOne, TypeOK
<1>5. ASSUME NEW n \in NameSet, TagOne(n) PROVE TypeOK'
  <2>1. manage \in Request
    BY <1>5 DEF TagOne, TypeOK
  <2>2. /\ manage.left \ {n} \in SUBSET NameSet
        /\ [manage.meta EXCEPT ![n] = "tagged"] \in Dictionary
        /\ manage.tagged \cup {n} \in SUBSET NameSet
    BY <2>1, TagFacts DEF Request
  <2>3. manage' = [manage EXCEPT !.left = manage.left \ {n},
                     !.meta = [manage.meta EXCEPT ![n] = "tagged"],
                     !.tagged = manage.tagged \cup {n}]
    BY <1>5 DEF TagOne
  <2>4. manage' \in Request
    BY <2>1, <2>2, <2>3 DEF Request
  <2> QED BY <2>4, <1>5 DEF TagOne, start, TypeOK
<1>6. ASSUME NEW n \in NameSet, NEW target \in NameSet, RenameOne(n, target) PROVE TypeOK'
  <2>1. manage \in Request
    BY <1>6 DEF RenameOne, TypeOK
  <2>2. Renamed(manage.meta, n, target) \in Dictionary
    BY <2>1, RenamedTyped DEF Request
  <2>3. manage' = [manage EXCEPT !.left = {}, !.meta = Renamed(manage.meta, n, target),
                     !.moved = {target}]
    BY <1>6 DEF RenameOne
  <2>4. manage' \in Request
    BY <2>1, <2>2, <2>3 DEF Request
  <2>5. disk' = [f \in Files |-> disk'[f]] /\ tags' \in [NameSet -> {None, "plain", "tagged"}]
    BY <1>6 DEF RenameOne, TypeOK
  <2> QED BY <2>4, <2>5, <1>6 DEF RenameOne, TypeOK
<1>7. CASE ManageRaises
  BY <1>7 DEF ManageRaises, Fault, TypeOK
<1>8. CASE ManageEnds
  <2>1. disk' = [f \in Files |-> disk'[f]]
    BY <1>8, FileFacts, PutKeeps DEF ManageEnds
  <2>2. tags' \in [NameSet -> {None, "plain", "tagged"}]
    BY <1>8 DEF ManageEnds, TypeOK
  <2> QED BY <2>1, <2>2, <1>8 DEF ManageEnds, TypeOK
<1>9. CASE ManageFails
  <2>1. tags' \in [NameSet -> {None, "plain", "tagged"}]
    BY <1>9, ForgetTyped DEF ManageFails
  <2> QED BY <2>1, <1>9 DEF ManageFails, Fault, TypeOK
<1> QED BY <1>1, <1>2, <1>3, <1>4, <1>5, <1>6, <1>7, <1>8, <1>9 DEF Managing

LEMMA StepTyped == TypeOK /\ WalkSound /\ MetadataSound /\ [Next]_vars => TypeOK'
<1> SUFFICES ASSUME TypeOK, WalkSound, MetadataSound, [Next]_vars PROVE TypeOK'
  OBVIOUS
<1>1. CASE Misreads
  <2>1. tags' \in [NameSet -> {None, "plain", "tagged"}]
    BY <1>1, ForgetTyped DEF Misreads
  <2> QED BY SMTT(30), <2>1, <1>1, FileFacts DEF Misreads, LayoutMisreads, Fault, TypeOK
<1>2. CASE Stops
  <2>1. tags' \in [NameSet -> {None, "plain", "tagged"}]
    BY <1>2, ForgetTyped DEF Stops
  <2>2. walk' \in WalkType
    BY <1>2 DEF Stops, Stop, AtRoot, WalkType
  <2>3. upload' \in [Uploads -> [stage : Stages, name : NameSet]]
    BY <1>2 DEF Stops, TypeOK, Stages
  <2> QED BY <2>1, <2>2, <2>3, <1>2 DEF Stops, Stop, TypeOK
<1>3. CASE Deleting
  <2>1. PICK n \in NameSet : Delete(n)
    BY <1>3 DEF Deleting
  <2>2. /\ disk' = [f \in Files |-> disk'[f]]
        /\ tags' \in [NameSet -> {None, "plain", "tagged"}]
    BY <2>1, FileFacts, PutKeeps, ForgetTyped DEF Delete
  <2> QED BY <2>1, <2>2 DEF Delete, TypeOK
<1>4. CASE UNCHANGED vars
  BY <1>4 DEF vars, start, library, TypeOK
<1> QED BY <1>1, <1>2, <1>3, <1>4, StartTyped, UploadingTyped, ManagingTyped DEF Next

-----------------------------------------------------------------------------
(* The migration.                                                          *)

\* At the door of a root there is nothing to show.
LEMMA AtTheDoor ==
  ASSUME NEW s \in Nat, walk' = AtRoot(s)
  PROVE  Walk'
<1>1. /\ walk'.dir = 0 /\ walk'.left = {} /\ walk'.copying = None
      /\ 1 .. walk'.dir = {}
  BY DEF AtRoot
<1> QED BY <1>1 DEF Walk, WalkSound, WalkDone

LEMMA NextRootWalk == ASSUME TypeOK, NextRoot PROVE Walk'
<1>1. walk.root \in Nat
  BY DEF TypeOK, WalkType
<1> QED BY <1>1, NextRootTyped, AtTheDoor

LEMMA OpenDirectoryWalk == ASSUME TypeOK, Walk, OpenDirectory PROVE Walk'
<1> DEFINE L == IF walk.root \in plugged
                THEN {f \in Directories[walk.dir + 1] : old[walk.root][f] # None} ELSE {}
<1>1. /\ walk \in WalkType /\ walk.dir \in 0 .. 1 /\ walk.left = {}
      /\ walk.dir = 0 => walk.root \in plugged
      /\ phase = "migrating" /\ UNCHANGED <<old, plugged, disk, phase>>
  BY DirectoryFacts DEF OpenDirectory, TypeOK, WalkType
<1>2. walk' = [walk EXCEPT !.dir = walk.dir + 1, !.left = L]
  BY DEF OpenDirectory
<1> HIDE DEF L
<1>3. /\ walk'.dir = walk.dir + 1 /\ walk'.left = L
      /\ walk'.root = walk.root /\ walk'.copying = walk.copying /\ walk'.gone = walk.gone
  BY <1>1, <1>2 DEF WalkType
<1>4. walk.copying = None /\ walk.root \in 1 .. Roots /\ (walk.gone \/ walk.root \in plugged)
  BY <1>1 DEF Walk, WalkSound, TypeOK, WalkType
<1>5. WalkSound'
  BY <1>1, <1>3, <1>4 DEF WalkSound, L
<1>6. ASSUME ~walk.gone, NEW d \in 1 .. walk'.dir, NEW f \in Directories[d],
             old[walk.root][f] # None
      PROVE  f \in L \/ disk[f] # None
  <2>1. CASE d = walk.dir + 1
    BY <1>4, <1>6, <2>1 DEF L
  <2>2. CASE d \in 1 .. walk.dir
    BY <1>1, <1>6, <2>2 DEF Walk, WalkDone
  <2> QED BY <1>1, <1>3, <1>6, <2>1, <2>2
<1> QED BY <1>1, <1>3, <1>5, <1>6 DEF Walk, WalkDone

\* A step on one file: it is done, and then has a place, or is begun.
LEMMA FileDone ==
  ASSUME Walk, phase = "migrating", UNCHANGED <<old, plugged, phase>>,
         NEW f \in Files, walk \in WalkType,
         walk' = [walk EXCEPT !.copying = None, !.left = walk.left \ {f}],
         disk'[f] # None, \A g \in Files \ {f} : disk'[g] = disk[g],
         walk.copying # None => walk.copying = f
  PROVE  Walk'
<1>1. /\ walk'.dir = walk.dir /\ walk'.left = walk.left \ {f}
      /\ walk'.root = walk.root /\ walk'.copying = None /\ walk'.gone = walk.gone
      /\ walk.dir \in 0 .. 2
  BY DEF WalkType
<1>2. WalkSound'
  BY <1>1 DEF Walk, WalkSound
<1>3. ASSUME ~walk.gone, NEW d \in 1 .. walk.dir, NEW g \in Directories[d],
             old[walk.root][g] # None
      PROVE  g \in walk.left \ {f} \/ disk'[g] # None
  <2>1. g \in walk.left \/ disk[g] # None
    BY <1>3 DEF Walk, WalkDone
  <2>2. d \in 1 .. 2
    BY <1>1
  <2>3. g \in Files
    BY <2>2, DirectoryFacts
  <2> QED BY <2>1, <2>3
<1> QED BY <1>1, <1>2, <1>3 DEF Walk, WalkDone

LEMMA CopyBeginWalk ==
  ASSUME TypeOK, Walk, NEW f \in Files, CopyBegin(f)
  PROVE  Walk'
<1>1. /\ walk \in WalkType /\ phase = "migrating" /\ f \in walk.left
      /\ UNCHANGED <<old, plugged, phase>>
      /\ disk'[f] = Torn /\ Torn # None /\ \A g \in Files \ {f} : disk'[g] = disk[g]
  BY MigrationAssumption DEF CopyBegin, TypeOK
<1>2. /\ walk'.dir = walk.dir /\ walk'.left = walk.left
      /\ walk'.root = walk.root /\ walk'.copying = f /\ walk'.gone = walk.gone
      /\ walk.dir \in 0 .. 2
  BY <1>1 DEF CopyBegin, WalkType
<1>3. WalkSound'
  BY <1>1, <1>2 DEF Walk, WalkSound
<1>4. ASSUME NEW d \in 1 .. walk.dir, NEW g \in Directories[d] PROVE g \in Files
  <2>1. d \in 1 .. 2
    BY <1>2
  <2> QED BY <2>1, DirectoryFacts
<1>5. WalkDone'
  BY <1>1, <1>2, <1>4 DEF Walk, WalkDone
<1> QED BY <1>3, <1>5 DEF Walk

LEMMA StartUpWalk == ASSUME TypeOK, Walk, StartUp PROVE Walk'
<1>1. CASE Start
  BY <1>1, AtTheDoor DEF Start
<1>2. CASE SkipRoot \/ CopyFails \/ Mark \/ MarkFails
  BY <1>2, NextRootWalk DEF SkipRoot, CopyFails, Mark, MarkFails, GivesUp
<1>3. ASSUME NEW f \in Files, SkipFile(f) PROVE Walk'
  <2>1. walk \in WalkType
    BY DEF TypeOK
  <2>2. walk' = [walk EXCEPT !.copying = None, !.left = walk.left \ {f}]
    BY <1>3, <2>1 DEF SkipFile, WalkType
  <2> QED BY <1>3, <2>1, <2>2, FileDone DEF SkipFile, Needed
<1>4. ASSUME NEW f \in Files, CopyEnd(f) PROVE Walk'
  <2>1. /\ walk \in WalkType /\ f # None
        /\ disk'[f] = old[walk.root][f] /\ \A g \in Files \ {f} : disk'[g] = disk[g]
    BY <1>4, FileFacts DEF CopyEnd, TypeOK
  <2>2. old[walk.root][f] # None
    BY <1>4, <2>1 DEF CopyEnd, Walk, WalkSound
  <2> QED BY <1>4, <2>1, <2>2, FileDone DEF CopyEnd
<1>5. CASE Unplug
  <2>1. /\ walk'.dir = walk.dir /\ walk'.left = walk.left /\ walk'.gone
        /\ walk'.root = walk.root /\ walk'.copying = walk.copying
    BY <1>5 DEF Unplug, TypeOK, WalkType
  <2> QED BY <1>5, <2>1 DEF Unplug, Walk, WalkSound, WalkDone
<1>6. CASE LayoutKeeps \/ LayoutRebuilds \/ LayoutEnds
  BY <1>6 DEF LayoutKeeps, LayoutRebuilds, LayoutEnds, Walk, WalkSound, WalkDone
<1> QED
  BY <1>1, <1>2, <1>3, <1>4, <1>5, <1>6, OpenDirectoryWalk, CopyBeginWalk DEF StartUp

-----------------------------------------------------------------------------
(* Starts and requests do not meet.                                        *)

\* The requests of the library are those of a program that is up ...
LEMMA RequestsAreUp ==
  ASSUME Uploading \/ Deleting \/ Managing
  PROVE  phase = "up" /\ UNCHANGED <<old, plugged, marked, phase, walk, starts>>
<1>1. CASE Uploading
  BY <1>1 DEF Uploading, Choose, Write, Written, WriteFails, Enter, EnterMisreads, EnterFails, start
<1>2. CASE Deleting
  BY <1>2 DEF Deleting, Delete
<1>3. CASE Managing
  BY <1>3 DEF Managing, Manage, ManageMisreads, Pass, DeleteOne, TagOne, RenameOne, ManageRaises,
              ManageEnds, ManageFails, start
<1> QED BY <1>1, <1>2, <1>3

\* ... and its start is over by then.
LEMMA StartUpIsDown == ASSUME StartUp PROVE phase # "up"
BY DEF StartUp, Start, SkipRoot, OpenDirectory, CopyFails, Mark, MarkFails, Unplug, SkipFile,
       CopyBegin, CopyEnd, LayoutKeeps, LayoutRebuilds, LayoutEnds

LEMMA WalkKept == TypeOK /\ Walk /\ [Next]_vars => Walk'
<1> SUFFICES ASSUME TypeOK, Walk, [Next]_vars PROVE Walk'
  OBVIOUS
<1>1. CASE Starts
  BY <1>1, StartUpWalk DEF Starts
<1>2. CASE Misreads \/ Stops
  BY <1>2 DEF Misreads, LayoutMisreads, Stops, Stop, Walk, WalkSound, WalkDone
<1>3. CASE Uploading \/ Deleting \/ Managing
  <2>1. phase' = "up"
    BY <1>3, RequestsAreUp
  <2> QED BY <2>1 DEF Walk, WalkSound, WalkDone
<1>4. CASE UNCHANGED vars
  BY <1>4 DEF vars, start, Walk, WalkSound, WalkDone
<1> QED BY <1>1, <1>2, <1>3, <1>4 DEF Next

LEMMA QuietKept == TypeOK /\ Quiet /\ [Next]_vars => Quiet'
<1> SUFFICES ASSUME TypeOK, Quiet, [Next]_vars PROVE Quiet'
  OBVIOUS
<1>1. CASE Starts
  BY <1>1, StartUpIsDown DEF Starts, library, Quiet
<1>2. CASE Misreads
  BY <1>2 DEF Misreads, LayoutMisreads, Quiet
<1>3. CASE Stops
  <2>1. \A k \in Uploads : [upload[k] EXCEPT !.stage = "over"].stage = "over"
    BY DEF TypeOK
  <2> QED BY <1>3, <2>1 DEF Stops, Quiet
<1>4. CASE Uploading \/ Deleting \/ Managing
  BY <1>4, RequestsAreUp DEF Quiet
<1>5. CASE UNCHANGED vars
  BY <1>5 DEF vars, start, library, Quiet
<1> QED BY <1>1, <1>2, <1>3, <1>4, <1>5 DEF Next

-----------------------------------------------------------------------------
(* Uploads that meet under one name.                                       *)

\* An upload that has met another one goes on under the same name.
LEMMA BlindStays ==
  ASSUME WritesMeet, \A k \in Uploads : upload[k].stage # "sent" =>
                       upload'[k].stage # "sent" /\ upload'[k].name = upload[k].name,
         blind \subseteq Uploads
  PROVE  /\ \A k \in blind : upload'[k].stage # "sent"
         /\ \A n : (\E j \in blind : upload[j].name = n) => \E j \in blind : upload'[j].name = n
BY DEF WritesMeet

\* No step of a request renames an upload or sends it again.
LEMMA UploadGoesOn ==
  ASSUME TypeOK, NEW k \in Uploads,
         Choose(k) \/ Write(k) \/ Written(k) \/ WriteFails(k)
           \/ Enter(k) \/ EnterMisreads(k) \/ EnterFails(k)
  PROVE  /\ \A j \in Uploads \ {k} : upload'[j] = upload[j]
         /\ \A j \in Uploads : upload[j].stage # "sent" =>
              upload'[j].stage # "sent" /\ upload'[j].name = upload[j].name
         /\ upload'[k].stage = "writing" <=> Write(k)
<1>1. upload[k].name \in NameSet /\ {"named", "writing", "written", "over"} \subseteq Stages
  BY UploadTyped DEF Stages
<1>2. CASE Choose(k)
  <2>1. PICK i \in 1 .. Len(Names) : At(k, "named", Names[i]) /\ Names[i] \in NameSet
    BY <1>2, FileFacts DEF Choose
  <2>2. /\ upload'[k] = [stage |-> "named", name |-> Names[i]]
        /\ \A j \in Uploads \ {k} : upload'[j] = upload[j]
    BY <1>1, <2>1, AtTyped
  <2>3. upload[k].stage = "sent"
    BY <1>2 DEF Choose
  <2> QED BY <2>2, <2>3 DEF Write
<1>3. CASE Write(k)
  <2>1. /\ upload'[k] = [stage |-> "writing", name |-> upload[k].name]
        /\ \A j \in Uploads \ {k} : upload'[j] = upload[j]
    BY <1>1, <1>3, AtTyped DEF Write
  <2> QED BY <1>3, <2>1
<1>4. CASE Written(k)
  <2>1. /\ upload'[k] = [stage |-> "written", name |-> upload[k].name]
        /\ \A j \in Uploads \ {k} : upload'[j] = upload[j]
    BY <1>1, <1>4, AtTyped DEF Written
  <2> QED BY <1>4, <2>1 DEF Written, Write
<1>5. CASE WriteFails(k) \/ Enter(k) \/ EnterMisreads(k) \/ EnterFails(k)
  <2>1. upload[k].stage \in {"writing", "written"} /\ At(k, "over", upload[k].name)
    BY <1>5 DEF WriteFails, Enter, EnterMisreads, EnterFails
  <2>2. /\ upload'[k] = [stage |-> "over", name |-> upload[k].name]
        /\ \A j \in Uploads \ {k} : upload'[j] = upload[j]
    BY <1>1, <2>1, AtTyped
  <2> QED BY <2>1, <2>2 DEF Write
<1> QED BY <1>2, <1>3, <1>4, <1>5

LEMMA UploadingMeets == ASSUME TypeOK, WritesMeet, Uploading PROVE WritesMeet'
<1> PICK k \in Uploads :
       Choose(k) \/ Write(k) \/ Written(k) \/ WriteFails(k)
         \/ Enter(k) \/ EnterMisreads(k) \/ EnterFails(k)
  BY DEF Uploading
<1> DEFINE Met2(n) == \E j \in blind : upload[j].name = n
<1>1. /\ \A j \in Uploads \ {k} : upload'[j] = upload[j]
      /\ upload'[k].stage = "writing" <=> Write(k)
      /\ \A j \in Uploads : upload[j].stage # "sent" =>
           upload'[j].stage # "sent" /\ upload'[j].name = upload[j].name
  BY UploadGoesOn
<1>2. blind \subseteq Uploads
  BY DEF TypeOK
<1>3. /\ \A j \in blind : upload'[j].stage # "sent"
      /\ \A n : Met2(n) => \E j \in blind : upload'[j].name = n
  BY <1>1, <1>2, BlindStays
<1>4. blind \subseteq blind'
  BY DEF Choose, Write, Written, WriteFails, Enter, EnterMisreads, EnterFails
<1>5. \A n : Met2(n) => \E j \in blind' : upload'[j].name = n
  BY <1>3, <1>4
<1>6. \A j \in Uploads : upload[j].stage = "writing" =>
        disk[upload[j].name] = Begun(j) \/ Met2(upload[j].name)
  BY DEF WritesMeet
<1>7. \A j \in Uploads : upload[j].name \in NameSet /\ upload[j].name \in Files
  BY UploadTyped, FileFacts
<1> HIDE DEF Met2
<1>8. CASE Write(k)
  <2> DEFINE n == upload[k].name
  <2>1. /\ disk'[n] = Begun(k) /\ \A f \in Files \ {n} : disk'[f] = disk[f]
        /\ blind' = IF disk[n] = None THEN blind ELSE blind \cup {k}
        /\ upload'[k].name = n /\ upload'[k].stage = "writing"
    BY <1>1, <1>7, <1>8, PutKeeps DEF Write
  <2>2. \A j \in blind' : upload'[j].stage # "sent"
    BY <1>3, <2>1
  <2>3. ASSUME NEW j \in Uploads, j # k, upload'[j].stage = "writing"
        PROVE  disk'[upload'[j].name] = Begun(j) \/ \E i \in blind' : upload'[i].name = upload'[j].name
    <3>1. upload'[j] = upload[j] /\ (disk[upload[j].name] = Begun(j) \/ Met2(upload[j].name))
      BY <1>1, <1>6, <2>3
    <3>2. CASE upload[j].name = n /\ disk[n] # None
      BY <2>1, <3>1, <3>2
    <3>3. CASE upload[j].name = n /\ disk[n] = None
      BY <1>5, <3>1, <3>3, MaterialFacts
    <3>4. CASE upload[j].name # n
      BY <1>5, <1>7, <2>1, <3>1, <3>4
    <3> QED BY <3>2, <3>3, <3>4
  <2> QED BY <2>1, <2>2, <2>3 DEF WritesMeet
<1>9. CASE Written(k)
  <2> DEFINE n == upload[k].name
  <2>1. PICK c : Put(n, c) /\ (disk[n] = Begun(k) \/ c \in {disk[n], Begun(k)})
    BY <1>9 DEF Written
  <2>2. disk'[n] = c /\ \A f \in Files \ {n} : disk'[f] = disk[f]
    BY <1>7, <2>1, PutKeeps
  <2>3. blind' = blind /\ upload[k].stage = "writing" /\ upload'[k].stage # "writing"
    BY <1>1, <1>9 DEF Written, Write
  <2>4. ASSUME NEW j \in Uploads, upload'[j].stage = "writing"
        PROVE  disk'[upload'[j].name] = Begun(j) \/ \E i \in blind' : upload'[i].name = upload'[j].name
    <3>1. /\ j # k /\ upload'[j] = upload[j]
          /\ disk[upload[j].name] = Begun(j) \/ Met2(upload[j].name)
      BY <1>1, <1>6, <2>3, <2>4
    <3>2. CASE upload[j].name = n
      BY <1>5, <1>6, <2>1, <2>2, <2>3, <3>1, <3>2, MaterialFacts
    <3>3. CASE upload[j].name # n
      BY <1>5, <1>7, <2>2, <3>1, <3>3
    <3> QED BY <3>2, <3>3
  <2> QED BY <1>3, <2>3, <2>4 DEF WritesMeet
<1>10. CASE ~Write(k) /\ ~Written(k)
  <2>1. blind' = blind /\ \A n \in NameSet : disk'[n] = disk[n]
    <3>1. CASE Choose(k) \/ WriteFails(k) \/ EnterFails(k)
      BY <3>1 DEF Choose, WriteFails, EnterFails, start
    <3>2. CASE Enter(k)
      BY <3>2, FileFacts, PutKeeps DEF Enter
    <3>3. CASE EnterMisreads(k)
      BY <3>3, FileFacts, PutKeeps DEF EnterMisreads
    <3> QED BY <1>10, <3>1, <3>2, <3>3
  <2>2. \A j \in Uploads : upload'[j].stage = "writing" => j # k
    BY <1>1, <1>10
  <2> QED BY <1>1, <1>3, <1>5, <1>6, <1>7, <2>1, <2>2 DEF WritesMeet
<1> QED BY <1>8, <1>9, <1>10

\* A file that is being written is neither deleted nor renamed.
LEMMA OthersMeet ==
  ASSUME TypeOK, WritesMeet, UNCHANGED <<upload, blind>>,
         \A n \in NameSet : Open(n) => disk'[n] = disk[n]
  PROVE  WritesMeet'
BY UploadTyped DEF WritesMeet, Open

LEMMA WritesMeetKept == TypeOK /\ Quiet /\ WritesMeet /\ [Next]_vars => WritesMeet'
<1> SUFFICES ASSUME TypeOK, Quiet, WritesMeet, [Next]_vars PROVE WritesMeet'
  OBVIOUS
<1>1. CASE Starts
  BY <1>1, StartUpIsDown DEF Starts, library, Quiet, WritesMeet
<1>2. CASE Misreads
  BY <1>2 DEF Misreads, LayoutMisreads, Quiet, WritesMeet
<1>3. CASE Stops
  <2>1. \A k \in Uploads : [upload[k] EXCEPT !.stage = "over"].stage = "over"
    BY DEF TypeOK
  <2>2. \A k \in Uploads : upload'[k].stage \in {"sent", "over"}
                             /\ (upload'[k].stage = "sent" => upload[k].stage = "sent")
    BY <1>3, <2>1 DEF Stops
  <2>3. blind' = blind /\ blind \subseteq Uploads
    BY <1>3 DEF Stops, TypeOK
  <2> QED BY <2>2, <2>3 DEF WritesMeet
<1>4. CASE Deleting
  <2>1. PICK n \in NameSet : Delete(n)
    BY <1>4 DEF Deleting
  <2>2. \A f \in Files \ {n} : disk'[f] = disk[f]
    BY <2>1, FileFacts, PutKeeps DEF Delete
  <2> QED BY <2>1, <2>2, FileFacts, OthersMeet DEF Delete
<1>5. CASE Managing
  <2>1. UNCHANGED <<upload, blind>>
    BY <1>5 DEF Managing, Manage, ManageMisreads, Pass, DeleteOne, TagOne, RenameOne, ManageRaises,
                ManageEnds, ManageFails
  <2>2. ASSUME NEW n \in NameSet, DeleteOne(n) PROVE \A m \in NameSet : Open(m) => disk'[m] = disk[m]
    BY <2>2, FileFacts, PutKeeps DEF DeleteOne
  <2>3. ASSUME NEW n \in NameSet, NEW target \in NameSet, RenameOne(n, target)
        PROVE  \A m \in NameSet : Open(m) => disk'[m] = disk[m] \/ m = target
    BY <2>3, FileFacts DEF RenameOne, TypeOK
  <2>4. ASSUME NEW n \in NameSet, NEW target \in NameSet, RenameOne(n, target)
        PROVE  WritesMeet'
    <3>1. disk[target] = None
      BY <2>4 DEF RenameOne, Taken
    <3>2. ASSUME NEW k \in Uploads, upload[k].stage = "writing"
          PROVE  disk'[upload[k].name] = Begun(k) \/ \E j \in blind : upload[j].name = upload[k].name
      <4>1. upload[k].name \in NameSet /\ Open(upload[k].name)
        BY <3>2, UploadTyped DEF Open
      <4>2. disk[upload[k].name] = Begun(k) \/ \E j \in blind : upload[j].name = upload[k].name
        BY <3>2 DEF WritesMeet
      <4> QED BY <2>3, <2>4, <3>1, <4>1, <4>2, MaterialFacts
    <3> QED BY <2>1, <3>2 DEF WritesMeet
  <2>5. ASSUME ~\E n \in NameSet : DeleteOne(n), ~\E n, target \in NameSet : RenameOne(n, target)
        PROVE  \A m \in NameSet : disk'[m] = disk[m]
    <3>1. CASE ManageEnds
      BY <3>1, FileFacts, PutKeeps DEF ManageEnds
    <3>2. CASE ~ManageEnds
      BY <1>5, <2>5, <3>2 DEF Managing, Manage, ManageMisreads, Pass, TagOne, ManageRaises,
                  ManageFails, start
    <3> QED BY <3>1, <3>2
  <2> QED BY <2>1, <2>2, <2>4, <2>5, OthersMeet
<1>6. CASE UNCHANGED vars
  BY <1>6 DEF vars, start, library, WritesMeet
<1> QED BY <1>1, <1>2, <1>3, <1>4, <1>5, <1>6, UploadingMeets DEF Next

-----------------------------------------------------------------------------
(* Tags.                                                                   *)

\* A start touches only places that are empty, torn or, in the layout, damaged:
\* nothing the user relies on.
LEMMA StartUpTags == ASSUME TypeOK, WalkSound, Quiet, Tags, Starts PROVE Tags'
<1>1. /\ phase # "up" /\ manage = None /\ UNCHANGED <<manage, tags>>
      /\ \A n \in NameSet : tags[n] # None =>
           disk[n] # None /\ disk[Metadata] \in Dictionary /\ disk[Metadata][n] = tags[n]
  BY StartUpIsDown DEF Starts, library, Quiet, Tags, TagsStored
<1> SUFFICES /\ MetadataSound'
             /\ \A n \in NameSet : tags[n] # None => disk'[n] # None /\ disk'[Metadata] = disk[Metadata]
  BY <1>1 DEF Tags, TagsStored, TagsInHand
<1>2. ASSUME UNCHANGED disk, phase' \in {"migrating", "layout"} \/ (Valid /\ phase' = "up")
      PROVE  /\ MetadataSound'
             /\ \A n \in NameSet : tags[n] # None => disk'[n] # None /\ disk'[Metadata] = disk[Metadata]
  BY <1>1, <1>2 DEF MetadataSound, Valid
<1>3. CASE Start \/ SkipRoot \/ OpenDirectory \/ Unplug \/ Mark \/ MarkFails \/ CopyFails
             \/ \E f \in Files : SkipFile(f)
  <2>1. UNCHANGED disk
    BY <1>3 DEF Start, SkipRoot, OpenDirectory, Unplug, Mark, MarkFails, CopyFails, SkipFile
  <2>2. phase' \in {"migrating", "layout"}
    BY <1>3, NextRootTyped DEF Start, SkipRoot, OpenDirectory, Unplug, Mark, MarkFails, CopyFails,
          SkipFile, GivesUp
  <2> QED BY <1>2, <2>1, <2>2
<1>4. ASSUME NEW f \in Files, NEW c, c # None, phase' = "migrating",
             disk' = [disk EXCEPT ![f] = c], disk[f] \in {None, Torn}
      PROVE  /\ MetadataSound'
             /\ \A n \in NameSet : tags[n] # None => disk'[n] # None /\ disk'[Metadata] = disk[Metadata]
  <2>1. \A g \in Files : disk'[g] = IF g = f THEN c ELSE disk[g]
    BY <1>4 DEF TypeOK
  <2> QED BY <1>1, <1>4, <2>1, FileFacts, MigrationAssumption DEF MetadataSound
<1>5. ASSUME NEW f \in Files, CopyBegin(f)
      PROVE  /\ MetadataSound'
             /\ \A n \in NameSet : tags[n] # None => disk'[n] # None /\ disk'[Metadata] = disk[Metadata]
  BY <1>4, <1>5, MigrationAssumption DEF CopyBegin, Needed
<1>6. ASSUME NEW f \in Files, CopyEnd(f)
      PROVE  /\ MetadataSound'
             /\ \A n \in NameSet : tags[n] # None => disk'[n] # None /\ disk'[Metadata] = disk[Metadata]
  <2>1. disk[f] = Torn /\ old[walk.root][f] # None
    BY <1>6, FileFacts DEF CopyEnd, WalkSound
  <2> QED BY <1>4, <1>6, <2>1 DEF CopyEnd
<1>7. CASE LayoutKeeps
  BY <1>2, <1>7 DEF LayoutKeeps
<1>8. CASE LayoutRebuilds
  BY <1>1, <1>8, FileFacts DEF LayoutRebuilds, Valid, MetadataSound, TypeOK
<1>9. CASE LayoutEnds
  <2>1. disk[Metadata] = Torn
    BY <1>9 DEF LayoutEnds, Tags, MetadataSound
  <2>2. disk'[Metadata] \in Dictionary
    BY <1>9, FileFacts, TagFacts DEF LayoutEnds, TypeOK
  <2> QED BY <1>1, <1>9, <2>1, <2>2, MigrationAssumption DEF LayoutEnds, MetadataSound
<1> QED BY <1>3, <1>5, <1>6, <1>7, <1>8, <1>9 DEF Starts, StartUp

\* While a program is up: what a step of an upload or a single deletion must
\* not do.  It leaves the metadata and the tags of a name alone, or forgets
\* them, and empties no place that has tags.
LEMMA FilesKeepTags ==
  ASSUME Tags, UNCHANGED manage, phase' = phase,
         disk'[Metadata] = disk[Metadata],
         \A n \in NameSet : \/ tags'[n] = None
                            \/ tags'[n] = tags[n] /\ (disk[n] # None => disk'[n] # None)
  PROVE  Tags'
BY DEF Tags, TagsStored, TagsInHand, MetadataSound

\* An entry under the lock: the metadata and the tags of one name, or of none
\* that is relied upon.
LEMMA EntryKeepsTags ==
  ASSUME Tags, manage = None, UNCHANGED manage, phase = "up", phase' = "up",
         disk'[Metadata] \in Dictionary,
         \A n \in NameSet : disk'[n] = disk[n],
         \A n \in NameSet : \/ tags'[n] = None
                            \/ tags'[n] = tags[n] /\ disk'[Metadata][n] = disk[Metadata][n]
                            \/ disk[n] # None /\ disk'[Metadata][n] = tags'[n]
  PROVE  Tags'
BY DEF Tags, TagsStored, TagsInHand, MetadataSound

LEMMA UploadingTags == ASSUME TypeOK, Tags, Uploading PROVE Tags'
<1> PICK k \in Uploads :
       Choose(k) \/ Write(k) \/ Written(k) \/ WriteFails(k)
         \/ Enter(k) \/ EnterMisreads(k) \/ EnterFails(k)
  BY DEF Uploading
<1> DEFINE n == upload[k].name
<1>1. /\ n \in NameSet /\ n \in Files /\ Metadata \in Files /\ Metadata # n
      /\ NameSet \subseteq Files /\ Metadata \notin NameSet
  BY UploadTyped, FileFacts
<1>2. phase = "up" /\ phase' = phase
  BY RequestsAreUp
<1>3. disk[Metadata] \in Dictionary
  BY <1>2 DEF Tags, MetadataSound
<1> HIDE DEF n
<1>4. CASE Choose(k) \/ WriteFails(k) \/ EnterFails(k)
  BY <1>2, <1>4, FilesKeepTags DEF Choose, WriteFails, EnterFails, start
<1>5. CASE Write(k)
  <2>1. \A f \in Files \ {n} : disk'[f] = disk[f]
    BY <1>1, <1>5, PutKeeps DEF Write, n
  <2>2. \A m \in NameSet : tags'[m] = IF m = n THEN None ELSE tags[m]
    BY <1>5, ForgetTyped DEF Write, n
  <2>3. UNCHANGED manage
    BY <1>5 DEF Write
  <2>4. disk'[Metadata] = disk[Metadata] /\ \A m \in NameSet : m # n => disk'[m] = disk[m]
    BY <1>1, <2>1
  <2> QED BY <1>2, <2>2, <2>3, <2>4, FilesKeepTags
<1>6. CASE Written(k)
  <2>1. PICK c : Put(n, c) /\ c \in {disk[n], Begun(k), Whole(k)}
    BY <1>6 DEF Written, n
  <2>2. Begun(k) # None /\ Whole(k) # None
    BY LibraryAssumption
  <2>3. disk'[n] = c /\ \A f \in Files \ {n} : disk'[f] = disk[f]
    BY <1>1, <2>1, PutKeeps
  <2>4. UNCHANGED <<tags, manage>>
    BY <1>6 DEF Written
  <2> QED BY <1>1, <1>2, <2>1, <2>2, <2>3, <2>4, FilesKeepTags
<1>7. CASE Enter(k)
  <2>1. /\ disk'[Metadata] = [disk[Metadata] EXCEPT ![n] = "plain"]
        /\ \A f \in Files \ {Metadata} : disk'[f] = disk[f]
    BY <1>1, <1>7, PutKeeps DEF Enter, n
  <2>2. /\ disk'[Metadata] \in Dictionary /\ disk'[Metadata][n] = "plain"
        /\ \A m \in NameSet \ {n} : disk'[Metadata][m] = disk[Metadata][m]
    BY <1>1, <1>3, <2>1 DEF Dictionary
  <2>3. manage = None /\ UNCHANGED manage
    BY <1>7 DEF Enter, LockFree
  <2>4. \A m \in NameSet \ {n} : tags'[m] = tags[m]
    BY <1>7, RelyTyped, ForgetTyped DEF Enter, n
  <2>5. tags'[n] = None \/ (tags'[n] = "plain" /\ disk[n] # None)
    <3>1. Whole(k) # None
      BY LibraryAssumption
    <3>2. CASE disk[n] = Whole(k)
      <4>1. Rely({n}, "plain")
        BY <1>7, <3>2 DEF Enter, n
      <4> QED BY <1>1, <3>1, <3>2, <4>1, RelyTyped
    <3>3. CASE disk[n] # Whole(k)
      <4>1. Forget({n})
        BY <1>7, <3>3 DEF Enter, n
      <4> QED BY <1>1, <4>1, ForgetTyped
    <3> QED BY <3>2, <3>3
  <2> QED BY <1>1, <1>2, <2>1, <2>2, <2>3, <2>4, <2>5, EntryKeepsTags
<1>8. CASE EnterMisreads(k)
  <2>1. /\ disk'[Metadata] = [NoTags EXCEPT ![n] = "plain"]
        /\ \A f \in Files \ {Metadata} : disk'[f] = disk[f]
    BY <1>1, <1>8, PutKeeps DEF EnterMisreads, n
  <2>2. disk'[Metadata] \in Dictionary
    BY <1>1, <2>1, TagFacts
  <2>3. manage = None /\ UNCHANGED manage
    BY <1>8 DEF EnterMisreads, LockFree
  <2>4. \A m \in NameSet : tags'[m] = None
    BY <1>8, ForgetTyped DEF EnterMisreads
  <2> QED BY <1>1, <1>2, <2>1, <2>2, <2>3, <2>4, EntryKeepsTags
<1> QED BY <1>4, <1>5, <1>6, <1>7, <1>8

\* A new request has the metadata in hand as they are stored, or, if it could
\* not read them, nobody relies on any tags.
LEMMA ManageTags ==
  ASSUME TypeOK, Tags, NEW a \in Actions, NEW ids \in SUBSET NameSet,
         Manage(a, ids) \/ ManageMisreads(a, ids)
  PROVE  Tags'
<1>1. CASE Manage(a, ids)
  <2>1. /\ manage'.meta = disk[Metadata] /\ manage'.moved = {} /\ manage'.tagged = {}
        /\ manage = None /\ UNCHANGED <<disk, tags, phase>>
    BY <1>1 DEF Manage, start
  <2> QED BY <2>1 DEF Tags, TagsStored, TagsInHand, MetadataSound
<1>2. CASE ManageMisreads(a, ids)
  <2>1. /\ manage'.moved = {} /\ manage'.tagged = {} /\ UNCHANGED <<disk, phase>>
    BY <1>2 DEF ManageMisreads
  <2>2. \A n \in NameSet : tags'[n] = None
    BY <1>2, ForgetTyped DEF ManageMisreads
  <2> QED BY <2>1, <2>2 DEF Tags, TagsStored, TagsInHand, MetadataSound
<1> QED BY <1>1, <1>2

LEMMA PassTags == ASSUME TypeOK, Tags, NEW n \in NameSet, Pass(n) PROVE Tags'
<1>1. manage # None /\ manage \in Request
  BY DEF Pass, TypeOK
<1>2. /\ manage'.meta = manage.meta /\ manage'.moved = manage.moved /\ manage.left # {}
      /\ manage'.tagged = manage.tagged /\ manage'.action = manage.action
  BY <1>1 DEF Pass, Request
<1>3. UNCHANGED <<disk, tags, phase>>
  BY DEF Pass, start
<1> QED BY <1>1, <1>2, <1>3 DEF Tags, TagsStored, TagsInHand, MetadataSound

LEMMA DeleteOneTags == ASSUME TypeOK, Tags, NEW n \in NameSet, DeleteOne(n) PROVE Tags'
<1>1. /\ manage # None /\ manage \in Request /\ manage.action = "delete" /\ manage.left # {}
  BY DEF DeleteOne, TypeOK
<1>2. manage.tagged = {} /\ manage.moved = {}
  BY <1>1 DEF Tags, TagsInHand
<1>3. /\ manage'.meta = [manage.meta EXCEPT ![n] = None] /\ manage'.moved = manage.moved
      /\ manage'.tagged = manage.tagged
  BY <1>1 DEF DeleteOne, Request
<1>4. \A m \in NameSet \ {n} : manage'.meta[m] = manage.meta[m]
  BY <1>1, <1>3 DEF Request, Dictionary
<1>5. \A f \in Files \ {n} : disk'[f] = disk[f]
  BY FileFacts, PutKeeps DEF DeleteOne
<1>6. \A m \in NameSet : tags'[m] = IF m = n THEN None ELSE tags[m]
  BY ForgetTyped DEF DeleteOne
<1>7. disk'[Metadata] = disk[Metadata] /\ \A m \in NameSet : m # n => disk'[m] = disk[m]
  BY <1>5, FileFacts
<1>8. UNCHANGED phase
  BY DEF DeleteOne
<1> QED BY <1>1, <1>2, <1>3, <1>4, <1>6, <1>7, <1>8 DEF Tags, TagsStored, TagsInHand, MetadataSound

LEMMA TagOneTags == ASSUME TypeOK, Tags, NEW n \in NameSet, TagOne(n) PROVE Tags'
<1>1. manage # None /\ manage \in Request /\ manage.action = "tags" /\ manage.left # {}
  BY DEF TagOne, TypeOK
<1>2. /\ manage'.meta = [manage.meta EXCEPT ![n] = "tagged"] /\ manage'.moved = manage.moved
      /\ manage'.tagged = manage.tagged \cup {n} /\ manage'.action = manage.action
  BY <1>1 DEF TagOne, Request
<1>3. /\ manage'.meta[n] = "tagged"
      /\ \A m \in NameSet \ {n} : manage'.meta[m] = manage.meta[m]
  BY <1>1, <1>2 DEF Request, Dictionary
<1>4. UNCHANGED <<disk, tags, phase>> /\ manage.tagged \subseteq NameSet
  BY <1>1 DEF TagOne, start, Request
<1> QED BY <1>1, <1>2, <1>3, <1>4 DEF Tags, TagsStored, TagsInHand, MetadataSound

\* The tags go with the file, in hand if not yet in the metadata file.
LEMMA RenameOneTags ==
  ASSUME TypeOK, Tags, NEW n \in NameSet, NEW target \in NameSet, RenameOne(n, target)
  PROVE  Tags'
<1>1. /\ manage # None /\ manage \in Request /\ manage.action = "rename" /\ manage.left # {}
      /\ disk[n] # None /\ disk[target] = None
  BY DEF RenameOne, TypeOK, Taken
<1>2. manage.tagged = {} /\ manage.moved = {} /\ n # target
  BY <1>1 DEF Tags, TagsInHand
<1>3. /\ manage'.meta = Renamed(manage.meta, n, target) /\ manage'.moved = {target}
      /\ manage'.tagged = {} /\ manage'.left = {}
  BY <1>1, <1>2 DEF RenameOne, Request
<1>4. /\ manage'.meta[target] = IF manage.meta[n] = None THEN "plain" ELSE manage.meta[n]
      /\ \A m \in NameSet \ {n, target} : manage'.meta[m] = manage.meta[m]
  BY <1>1, <1>2, <1>3 DEF Renamed, Request, Dictionary
<1>5. /\ disk'[target] = disk[n]
      /\ \A f \in Files \ {n, target} : disk'[f] = disk[f]
  BY <1>2, FileFacts DEF RenameOne, TypeOK
<1>6. /\ tags'[n] = None /\ tags'[target] = tags[n]
      /\ \A m \in NameSet \ {n, target} : tags'[m] = tags[m]
  BY <1>2 DEF RenameOne, TypeOK
<1>7. disk'[Metadata] = disk[Metadata] /\ \A m \in NameSet \ {n, target} : disk'[m] = disk[m]
  BY <1>5, FileFacts
<1>8. phase' = phase
  BY DEF RenameOne
<1>9. TagsStored'
  <2>1. \A m \in NameSet \ {n, target} : tags[m] # None =>
          disk[m] # None /\ disk[Metadata] \in Dictionary /\ disk[Metadata][m] = tags[m]
    BY <1>1, <1>2 DEF Tags, TagsStored
  <2>2. tags[n] # None => disk'[target] # None
    BY <1>1, <1>5
  <2>3. manage' # None
    <3>1. Renamed(manage.meta, n, target) \in Dictionary
      BY <1>1, RenamedTyped DEF Request
    <3>2. manage' = [manage EXCEPT !.left = {}, !.meta = Renamed(manage.meta, n, target),
                       !.moved = {target}]
      BY DEF RenameOne
    <3>3. manage' \in Request
      BY <1>1, <3>1, <3>2 DEF Request
    <3> QED BY <3>3, LibraryAssumption
  <2> QED BY <1>3, <1>6, <1>7, <2>1, <2>2, <2>3 DEF TagsStored
<1>10. TagsInHand'
  BY <1>1, <1>2, <1>3, <1>4, <1>6 DEF Tags, TagsInHand
<1> QED BY <1>7, <1>8, <1>9, <1>10 DEF Tags, MetadataSound

\* The end of a request: what it has in hand is stored, or, if it fails, what
\* is stored stays, but for the material it has moved.
LEMMA ManageEndTags ==
  ASSUME TypeOK, Tags, ManageEnds \/ ManageFails \/ ManageRaises
  PROVE  Tags'
<1>1. manage # None /\ manage \in Request
  BY DEF ManageEnds, ManageFails, ManageRaises, TypeOK
<1>2. CASE ManageEnds
  <2>1. /\ disk'[Metadata] = manage.meta /\ \A f \in Files \ {Metadata} : disk'[f] = disk[f]
    BY <1>2, FileFacts, PutKeeps DEF ManageEnds
  <2>2. disk'[Metadata] \in Dictionary /\ \A n \in NameSet : disk'[n] = disk[n]
    BY <1>1, <2>1, FileFacts DEF Request
  <2>3. \A n \in NameSet :
          \/ n \notin manage.tagged /\ tags'[n] = tags[n]
          \/ tags'[n] = None
          \/ n \in manage.tagged /\ disk[n] # None /\ tags'[n] = "tagged"
    BY <1>2 DEF ManageEnds
  <2>4. manage' = None /\ phase = "up" /\ phase' = phase
    BY <1>2 DEF ManageEnds
  <2> QED BY <1>1, <2>1, <2>2, <2>3, <2>4 DEF Tags, TagsStored, TagsInHand, MetadataSound
<1>3. CASE ManageFails
  <2>1. \A n \in NameSet : tags'[n] = IF n \in manage.moved THEN None ELSE tags[n]
    BY <1>3, ForgetTyped DEF ManageFails
  <2>2. manage' = None /\ UNCHANGED <<disk, phase>>
    BY <1>3 DEF ManageFails
  <2> QED BY <2>1, <2>2 DEF Tags, TagsStored, TagsInHand, MetadataSound
<1>4. CASE ManageRaises
  BY <1>4 DEF ManageRaises, Tags, TagsStored, TagsInHand, MetadataSound
<1> QED BY <1>2, <1>3, <1>4

LEMMA TagsKept == TypeOK /\ Walk /\ Quiet /\ Tags /\ [Next]_vars => Tags'
<1> SUFFICES ASSUME TypeOK, Walk, Quiet, Tags, [Next]_vars PROVE Tags'
  OBVIOUS
<1>1. CASE Starts
  BY <1>1, StartUpTags DEF Walk
<1>2. CASE Misreads
  <2>1. \A n \in NameSet : tags'[n] = None
    BY <1>2, ForgetTyped DEF Misreads
  <2>2. manage' = None /\ phase' = "rebuilding" /\ disk'[Metadata] = Torn
    BY <1>2, FileFacts DEF Misreads, LayoutMisreads, Quiet, TypeOK
  <2> QED BY <2>1, <2>2 DEF Tags, TagsStored, TagsInHand, MetadataSound
<1>3. CASE Stops
  <2>1. \A n \in NameSet :
          tags'[n] = IF manage # None /\ n \in manage.moved THEN None ELSE tags[n]
    BY <1>3, ForgetTyped DEF Stops
  <2>2. manage' = None /\ phase' = "down" /\ UNCHANGED disk
    BY <1>3 DEF Stops, Stop
  <2> QED BY <2>1, <2>2 DEF Tags, TagsStored, TagsInHand, MetadataSound
<1>4. CASE Deleting
  <2>1. PICK n \in NameSet : Delete(n)
    BY <1>4 DEF Deleting
  <2>2. \A f \in Files \ {n} : disk'[f] = disk[f]
    BY <2>1, FileFacts, PutKeeps DEF Delete
  <2>3. \A m \in NameSet : tags'[m] = IF m = n THEN None ELSE tags[m]
    BY <2>1, ForgetTyped DEF Delete
  <2>4. disk'[Metadata] = disk[Metadata] /\ \A m \in NameSet : m # n => disk'[m] = disk[m]
    BY <2>2, FileFacts
  <2>5. UNCHANGED <<manage, phase>>
    BY <2>1 DEF Delete
  <2> QED BY <2>3, <2>4, <2>5, FilesKeepTags
<1>5. CASE Managing
  <2>1. CASE ManageRaises \/ ManageEnds \/ ManageFails
    BY <2>1, ManageEndTags
  <2>2. CASE \E n \in NameSet : Pass(n) \/ DeleteOne(n) \/ TagOne(n)
    BY <2>2, PassTags, DeleteOneTags, TagOneTags
  <2> QED BY <1>5, <2>1, <2>2, ManageTags, RenameOneTags DEF Managing
<1>6. CASE UNCHANGED vars
  BY <1>6 DEF vars, start, library, Tags, TagsStored, TagsInHand, MetadataSound
<1> QED BY <1>1, <1>2, <1>3, <1>4, <1>5, <1>6, UploadingTags DEF Next

-----------------------------------------------------------------------------
(* The theorems.                                                           *)

LEMMA InitInv == Init => IInv
<1> SUFFICES ASSUME Init PROVE IInv
  OBVIOUS
<1>1. /\ phase = "down" /\ manage = None /\ blind = {}
      /\ \A k \in Uploads : upload[k].stage = "sent"
      /\ \A n \in NameSet : tags[n] = None
  BY DEF Init, InitMigration
<1> QED BY <1>1, InitTyped DEF IInv, Walk, WalkSound, WalkDone, Quiet, WritesMeet, Tags,
             TagsStored, TagsInHand, MetadataSound

LEMMA StepInv == IInv /\ [Next]_vars => IInv'
BY StepTyped, WalkKept, QuietKept, WritesMeetKept, TagsKept DEF IInv, Walk, Tags

LEMMA Invariance == Spec => []IInv
BY InitInv, StepInv, PTL DEF Spec

\* A walk is always in a root and a directory that exist, a request in hand
\* names only materials and holds a dictionary, and tags are tags.
THEOREM TypeCorrect == Spec => []TypeOK
<1>1. IInv => TypeOK
  BY DEF IInv
<1> QED BY <1>1, Invariance, PTL

\* The metadata are a dictionary while the program is up, and the tags of a
\* material follow it (client/server.py:1696-1701, 1967-2006).
THEOREM TagsFollowMaterials == Spec => []TagsFollow
<1>1. IInv => TagsFollow
  BY DEF IInv, Tags, TagsStored, MetadataSound, TagsFollow
<1> QED BY <1>1, Invariance, PTL

\* A root gets its marker only behind its last file.
LEMMA MarkedIsWhole ==
  ASSUME IInv, [Next]_vars, NEW s \in marked' \ marked
  PROVE  walk.gone \/ \A f \in Files : old[s][f] # None => disk[f] # None
<1>1. Mark
  <2>1. CASE Starts
    BY <2>1 DEF Starts, StartUp, Start, SkipRoot, OpenDirectory, CopyFails, MarkFails, Unplug,
           SkipFile, CopyBegin, CopyEnd, LayoutKeeps, LayoutRebuilds, LayoutEnds, GivesUp
  <2>2. CASE Misreads \/ Stops \/ UNCHANGED vars
    BY <2>2 DEF Misreads, LayoutMisreads, Stops, Stop, vars, start
  <2>3. CASE Uploading \/ Deleting \/ Managing
    BY <2>3, RequestsAreUp
  <2> QED BY <2>1, <2>2, <2>3 DEF Next
<1>2. s = walk.root /\ phase = "migrating" /\ walk.left = {} /\ walk.dir = 2
  BY <1>1, DirectoryFacts DEF Mark
<1>3. ASSUME ~walk.gone, NEW f \in Files, old[s][f] # None PROVE disk[f] # None
  <2>1. PICK d \in 1 .. 2 : f \in Directories[d]
    <3>1. 1 \in 1 .. 2 /\ 2 \in 1 .. 2
      OBVIOUS
    <3> QED BY <3>1, DirectoryFacts
  <2> QED BY <1>2, <1>3, <2>1 DEF IInv, Walk, WalkDone
<1> QED BY <1>3

\* The marker says that every file has a place (client/server.py:101-118).
THEOREM MarkersAreEarned == Spec => MigratedIsWhole
<1>1. IInv /\ [Next]_vars =>
        [\A s \in marked' \ marked :
           walk.gone \/ \A f \in Files : old[s][f] # None => disk[f] # None]_start
  BY MarkedIsWhole
<1> QED BY <1>1, Invariance, PTL DEF Spec, MigratedIsWhole

-----------------------------------------------------------------------------
(* Materials are not lost.                                                 *)

\* A step that overwrites only one name, where there was no material, loses none.
LEMMA OverwritesNone ==
  ASSUME NEW n, disk[n] \notin Materials, \A m \in NameSet : m # n => disk'[m] = disk[m]
  PROVE  \A c \in Present : c \in Present'
<1> SUFFICES ASSUME NEW c \in Present PROVE c \in Present'
  OBVIOUS
<1>1. PICK m \in NameSet : c = disk[m] /\ c \in Materials
  BY DEF Present
<1>2. disk'[m] = c
  BY <1>1
<1> QED BY <1>1, <1>2 DEF Present, Materials

LEMMA StartLosesNone ==
  ASSUME IInv, StartUp
  PROVE  \A c \in Present : c \in Present'
<1>1. TypeOK /\ WalkSound
  BY DEF IInv, Walk
<1>2. ASSUME NEW f \in Files, CopyBegin(f) PROVE \A c \in Present : c \in Present'
  <2>1. \A m \in Files : m # f => disk'[m] = disk[m]
    BY <1>1, <1>2 DEF CopyBegin, TypeOK
  <2> QED BY <1>2, <2>1, FileFacts, MaterialFacts, OverwritesNone DEF CopyBegin, Needed
<1>3. ASSUME NEW f \in Files, CopyEnd(f) PROVE \A c \in Present : c \in Present'
  <2>1. \A m \in Files : m # f => disk'[m] = disk[m]
    BY <1>1, <1>3 DEF CopyEnd, TypeOK
  <2>2. disk[f] = Torn
    BY <1>1, <1>3, FileFacts DEF CopyEnd, WalkSound
  <2> QED BY <2>1, <2>2, FileFacts, MaterialFacts, OverwritesNone
<1>4. ASSUME ~\E f \in Files : CopyBegin(f) \/ CopyEnd(f)
      PROVE  \A n \in NameSet : disk'[n] = disk[n]
  <2>1. CASE LayoutRebuilds \/ LayoutEnds
    BY <1>1, <2>1, FileFacts DEF LayoutRebuilds, LayoutEnds, TypeOK
  <2>2. CASE ~(LayoutRebuilds \/ LayoutEnds)
    BY <1>4, <2>2 DEF StartUp, Start, SkipRoot, OpenDirectory, CopyFails, Mark, MarkFails, Unplug,
           SkipFile, LayoutKeeps
  <2> QED BY <2>1, <2>2
<1>5. ASSUME \A n \in NameSet : disk'[n] = disk[n] PROVE \A c \in Present : c \in Present'
  BY <1>5 DEF Present, Materials
<1> QED BY <1>2, <1>3, <1>4, <1>5

LEMMA UploadLosesNone ==
  ASSUME IInv, NEW k \in Uploads,
         Choose(k) \/ Write(k) \/ Written(k) \/ WriteFails(k)
           \/ Enter(k) \/ EnterMisreads(k) \/ EnterFails(k)
  PROVE  \/ \A c \in Present : c \in Present'
         \/ Collides(k) /\ (Write(k) \/ Written(k))
<1> DEFINE n == upload[k].name
<1>1. TypeOK /\ WritesMeet
  BY DEF IInv
<1>2. n \in NameSet /\ n \in Files
  BY <1>1, UploadTyped, FileFacts
<1>3. CASE Write(k)
  <2>1. /\ \A m \in Files \ {n} : disk'[m] = disk[m]
        /\ disk[n] # None => k \in blind'
    BY <1>1, <1>2, <1>3, PutKeeps DEF Write
  <2>2. CASE disk[n] = None
    BY <2>1, <2>2, FileFacts, MaterialFacts, OverwritesNone
  <2>3. CASE disk[n] # None
    BY <1>3, <2>1, <2>3 DEF Collides
  <2> QED BY <2>2, <2>3
<1>4. CASE Written(k)
  <2>1. PICK c : Put(n, c)
    BY <1>4 DEF Written
  <2>2. /\ \A m \in Files \ {n} : disk'[m] = disk[m]
        /\ blind' = blind /\ upload[k].stage = "writing"
    BY <1>1, <1>2, <1>4, <2>1, PutKeeps DEF Written
  <2>3. CASE disk[n] = Begun(k)
    BY <2>2, <2>3, FileFacts, MaterialFacts, OverwritesNone
  <2>4. CASE disk[n] # Begun(k)
    BY <1>1, <1>4, <2>2, <2>4 DEF WritesMeet, Collides
  <2> QED BY <2>3, <2>4
<1>5. CASE ~Write(k) /\ ~Written(k)
  <2>1. \A m \in NameSet : disk'[m] = disk[m]
    <3>1. CASE Choose(k) \/ WriteFails(k) \/ EnterFails(k)
      BY <3>1 DEF Choose, WriteFails, EnterFails, start
    <3>2. CASE Enter(k)
      BY <1>1, <3>2, FileFacts, PutKeeps DEF Enter
    <3>3. CASE EnterMisreads(k)
      BY <1>1, <3>3, FileFacts, PutKeeps DEF EnterMisreads
    <3> QED BY <1>5, <3>1, <3>2, <3>3
  <2> QED BY <2>1 DEF Present, Materials
<1> QED BY <1>3, <1>4, <1>5

LEMMA ManageLosesNone ==
  ASSUME IInv, Managing, ~\E n \in NameSet : DeleteOne(n)
  PROVE  \A c \in Present : c \in Present'
<1>1. TypeOK
  BY DEF IInv
<1>2. ASSUME NEW n \in NameSet, NEW target \in NameSet, RenameOne(n, target)
      PROVE  \A c \in Present : c \in Present'
  <2>1. disk[n] # None /\ disk[target] = None
    BY <1>2 DEF RenameOne, Taken
  <2>2. disk'[target] = disk[n] /\ \A m \in NameSet \ {n, target} : disk'[m] = disk[m]
    BY <1>1, <1>2, <2>1, FileFacts DEF RenameOne, TypeOK
  <2>3. ASSUME NEW c \in Present PROVE \E m \in NameSet : disk'[m] = c
    <3>1. PICK m \in NameSet : c = disk[m] /\ c \in Materials
      BY DEF Present
    <3>2. m # target
      BY <2>1, <3>1, MaterialFacts
    <3> QED BY <2>2, <3>1, <3>2
  <2> QED BY <2>3 DEF Present, Materials
<1>3. CASE ~\E n, target \in NameSet : RenameOne(n, target)
  <2>1. \A m \in NameSet : disk'[m] = disk[m]
    <3>1. CASE ManageEnds
      BY <1>1, <3>1, FileFacts, PutKeeps DEF ManageEnds
    <3>2. CASE ~ManageEnds
      BY <1>3, <3>2 DEF Managing, Manage, ManageMisreads, Pass, TagOne, ManageRaises,
                  ManageFails, start
    <3> QED BY <3>1, <3>2
  <2> QED BY <2>1 DEF Present, Materials
<1> QED BY <1>2, <1>3

\* No step but a deletion loses a material, unless two uploads have met under
\* one name (client/server.py:1683-1695, 1904-1913, 1975-2004).
THEOREM NothingIsLost == Spec => NothingLost
<1> DEFINE Kept == \A c \in Present : c \in Present' \/ Deleting \/ (\E n \in NameSet : DeleteOne(n))
                     \/ \E k \in Uploads : Collides(k) /\ (Write(k) \/ Written(k))
<1>1. ASSUME IInv, Next PROVE Kept
  <2>1. CASE Starts
    BY <1>1, <2>1, StartLosesNone DEF Starts
  <2>2. CASE Misreads
    <3>1. \A n \in NameSet : disk'[n] = disk[n]
      BY <1>1, <2>2, FileFacts DEF Misreads, LayoutMisreads, IInv, TypeOK
    <3> QED BY <3>1 DEF Present, Materials
  <2>3. CASE Stops
    BY <2>3 DEF Stops, Stop, Present, Materials
  <2>4. CASE Uploading
    BY <1>1, <2>4, UploadLosesNone DEF Uploading
  <2>5. CASE Managing
    BY <1>1, <2>5, ManageLosesNone
  <2> QED BY <1>1, <2>1, <2>2, <2>3, <2>4, <2>5 DEF Next
<1>2. IInv /\ [Next]_vars => [Kept]_vars
  BY <1>1
<1> QED BY <1>2, Invariance, PTL DEF Spec, NothingLost
=============================================================================
