--------------------------- MODULE DataMigration ---------------------------
(***************************************************************************)
(* The start of the packaged workbench (client/server.py): the data of     *)
(* earlier installations are copied into this one's data root, root by     *)
(* root and file by file, then _ensure_runtime_layout repairs what the     *)
(* program cannot start without.  A drive may be missing or go away, a     *)
(* copy may fail, and the process may end between any two steps.  The      *)
(* license file's extra recovery is in LicenseClient.                      *)
(*                                                                         *)
(* Of the copied directories the model keeps two: profiles, with one file, *)
(* and library, with the materials and their metadata file.                *)
(***************************************************************************)
EXTENDS Naturals, Sequences, FiniteSets

CONSTANTS
  Names,       \* the sequence of names a material may get: stem, stem_2, ...
  Profile,     \* the file below profiles/
  Metadata,    \* library/.metadata.json
  None,        \* no file, no entry
  Torn,        \* what an interrupted copy or write leaves
  Roots,       \* how many earlier data roots there are, in the order of sources
  Holdings,    \* bound: the materials they may hold, a set of functions of the roots
  MaxStarts,   \* bound: starts of the program
  MaxFaults    \* bound: faults, all kinds together

VARIABLES
  old,         \* per earlier root: its files
  plugged,     \* the roots whose drive is there; empty but for a migration
  disk,        \* the files of this data root
  marked,      \* the roots with a .migrated- marker
  phase,       \* "down", "migrating", "layout", "rebuilding" or "up"
  walk,        \* where _migrate_legacy_install_data is
  starts,      \* how often the program was started
  faults       \* how many faults have happened

start == <<old, plugged, disk, marked, phase, walk, starts, faults>>

NameSet == {Names[i] : i \in 1 .. Len(Names)}
Files   == NameSet \cup {Profile, Metadata}

\* The directories, in the order of the loop; {} ends it.
Directories == <<{Profile}, NameSet \cup {Metadata}>>

\* A material is known by where it comes from.
OldFile(s, n) == <<"old", s, n>>

\* Metadata as they should be: a dictionary; anything else is damaged.
Dictionary == [NameSet -> {None, "plain", "tagged"}]

\* There is a name to choose, a name is one file, and no file at all is told
\* from every file, as a torn one is from every whole one.
ASSUME MigrationAssumption ==
  /\ Roots \in Nat /\ MaxStarts \in Nat /\ MaxFaults \in Nat
  /\ Names \in Seq(NameSet) /\ Names # <<>>
  /\ Profile \notin NameSet /\ Metadata \notin NameSet /\ Metadata # Profile
  /\ None \notin Files /\ None \notin {Torn, "plain", "tagged"}
  /\ None \notin Dictionary /\ Torn \notin Dictionary
  /\ \A s \in 1 .. Roots, f \in Files : OldFile(s, f) \notin {None, Torn}
  /\ Holdings \subseteq [1 .. Roots -> SUBSET NameSet]

\* The metadata of no, and of these, materials.
NoTags      == [n \in NameSet |-> None]
OldTags(fs) == [n \in NameSet |-> IF n \in fs THEN "tagged" ELSE None]

\* An earlier root: a profile, some materials and their tags.
OldRoot(s, fs) ==
  [f \in Files |-> CASE f = Metadata -> OldTags(fs)
                     [] f \in fs \cup {Profile} -> OldFile(s, f)
                     [] OTHER -> None]

\* The program is at the door of root s, which has not gone away (history).
AtRoot(s) == [root |-> s, dir |-> 0, left |-> {}, copying |-> None, gone |-> FALSE]

Fault == faults < MaxFaults /\ faults' = faults + 1

-----------------------------------------------------------------------------
(* _migrate_legacy_install_data, called for one root after the other.      *)

\* The process starts; drives may have come or gone since the last time.
Start ==
  /\ phase = "down"
  /\ starts < MaxStarts
  /\ starts' = starts + 1
  /\ plugged' \in SUBSET (1 .. Roots)
  /\ phase' = "migrating"
  /\ walk' = AtRoot(1)
  /\ UNCHANGED <<old, disk, marked, faults>>

\* The next root, or the layout after the last one.
NextRoot ==
  IF walk.root < Roots
  THEN walk' = AtRoot(walk.root + 1) /\ UNCHANGED <<phase, plugged>>
  ELSE walk' = AtRoot(1) /\ phase' = "layout" /\ plugged' = {}

\* A root that is not there, or has its marker, is left alone.
SkipRoot ==
  /\ phase = "migrating" /\ walk.dir = 0
  /\ walk.root \notin plugged \/ walk.root \in marked
  /\ NextRoot
  /\ UNCHANGED <<old, disk, marked, starts, faults>>

\* source.is_dir() and rglob: a directory that cannot be reached is skipped
\* in silence, as one that does not exist.
OpenDirectory ==
  /\ phase = "migrating" /\ walk.left = {} /\ walk.dir < Len(Directories)
  /\ walk.dir = 0 => walk.root \in plugged \ marked
  /\ walk' = [walk EXCEPT !.dir = @ + 1,
                !.left = IF walk.root \in plugged
                         THEN {f \in Directories[walk.dir + 1] : old[walk.root][f] # None}
                         ELSE {}]
  /\ UNCHANGED <<old, plugged, disk, marked, phase, starts, faults>>

\* elif not destination.exists()
Needed(f) == disk[f] = None

SkipFile(f) ==
  /\ phase = "migrating" /\ f \in walk.left /\ walk.copying = None
  /\ ~Needed(f)
  /\ walk' = [walk EXCEPT !.left = @ \ {f}]
  /\ UNCHANGED <<old, plugged, disk, marked, phase, starts, faults>>

\* shutil.copy2 creates the destination and fills it.
CopyBegin(f) ==
  /\ phase = "migrating" /\ f \in walk.left /\ walk.copying = None
  /\ Needed(f)
  /\ walk.root \in plugged
  /\ disk' = [disk EXCEPT ![f] = Torn]
  /\ walk' = [walk EXCEPT !.copying = f]
  /\ UNCHANGED <<old, plugged, marked, phase, starts, faults>>

CopyEnd(f) ==
  /\ phase = "migrating" /\ walk.copying = f
  /\ walk.root \in plugged
  /\ disk' = [disk EXCEPT ![f] = old[walk.root][f]]
  /\ walk' = [walk EXCEPT !.copying = None, !.left = @ \ {f}]
  /\ UNCHANGED <<old, plugged, marked, phase, starts, faults>>

\* Wrong on purpose: the marker is written all the same.
GivesUp_Marks == NextRoot /\ marked' = marked \cup {walk.root}

\* What follows an OSError: the root gets no marker.
GivesUp == NextRoot /\ UNCHANGED marked

\* A copy fails because the drive is gone, before the destination exists or
\* in the middle, or because this disk is full.
CopyFails ==
  /\ phase = "migrating" /\ walk.left # {}
  /\ \/ /\ walk.root \notin plugged
        /\ walk.copying # None \/ \E f \in walk.left : Needed(f)
        /\ UNCHANGED faults
     \/ walk.copying # None /\ walk.root \in plugged /\ Fault
  /\ GivesUp
  /\ UNCHANGED <<old, disk, starts>>

\* All directories are done: the marker is written, or cannot be.
Mark ==
  /\ phase = "migrating" /\ walk.left = {} /\ walk.dir = Len(Directories)
  /\ marked' = marked \cup {walk.root}
  /\ NextRoot
  /\ UNCHANGED <<old, disk, starts, faults>>

MarkFails ==
  /\ phase = "migrating" /\ walk.left = {} /\ walk.dir = Len(Directories)
  /\ Fault
  /\ GivesUp
  /\ UNCHANGED <<old, disk, starts>>

\* External: the drive of the root that is being copied goes away.
Unplug ==
  /\ phase = "migrating" /\ walk.dir > 0 /\ walk.root \in plugged
  /\ Fault
  /\ plugged' = plugged \ {walk.root}
  /\ walk' = [walk EXCEPT !.gone = TRUE]
  /\ UNCHANGED <<old, disk, marked, phase, starts>>

-----------------------------------------------------------------------------
(* _ensure_runtime_layout, as far as the metadata file is concerned.       *)

Valid == disk[Metadata] \in Dictionary

LayoutKeeps ==
  /\ phase = "layout" /\ Valid
  /\ phase' = "up"
  /\ UNCHANGED <<old, plugged, disk, marked, walk, starts, faults>>

\* A missing or damaged file is set aside and a new one is begun ...
LayoutRebuilds ==
  /\ phase = "layout" /\ ~Valid
  /\ phase' = "rebuilding"
  /\ disk' = [disk EXCEPT ![Metadata] = Torn]
  /\ UNCHANGED <<old, plugged, marked, walk, starts, faults>>

\* ... and so is a good one that cannot be read at this moment.
LayoutMisreads ==
  /\ phase = "layout" /\ Valid
  /\ Fault
  /\ phase' = "rebuilding"
  /\ disk' = [disk EXCEPT ![Metadata] = Torn]
  /\ UNCHANGED <<old, plugged, marked, walk, starts>>

LayoutEnds ==
  /\ phase = "rebuilding"
  /\ disk' = [disk EXCEPT ![Metadata] = NoTags]
  /\ phase' = "up"
  /\ UNCHANGED <<old, plugged, marked, walk, starts, faults>>

\* External: the program ends, in the middle of anything.
Stop ==
  /\ phase # "down"
  /\ phase' = "down"
  /\ plugged' = {}
  /\ walk' = AtRoot(1)
  /\ UNCHANGED <<old, disk, marked, starts, faults>>

-----------------------------------------------------------------------------
InitMigration ==
  /\ \E fs \in Holdings :
       old = [s \in 1 .. Roots |-> OldRoot(s, fs[s])]
  /\ plugged = {}
  /\ disk = [f \in Files |-> None]
  /\ marked = {}
  /\ phase = "down"
  /\ walk = AtRoot(1)
  /\ starts = 0
  /\ faults = 0

StartUp ==
  \/ Start \/ SkipRoot \/ OpenDirectory \/ CopyFails \/ Mark \/ MarkFails \/ Unplug
  \/ \E f \in Files : SkipFile(f) \/ CopyBegin(f) \/ CopyEnd(f)
  \/ LayoutKeeps \/ LayoutRebuilds \/ LayoutEnds

-----------------------------------------------------------------------------
(* A root is marked as migrated only when there is a file in the place of  *)
(* each of its files: the marker is what stops every later attempt.  The   *)
(* file may be newer, or one that an interrupted copy left torn, which the *)
(* next start takes for newer data.  A drive that goes away between two    *)
(* directories is left out: they are skipped as if they did not exist, and *)
(* the root is marked.                                                     *)
MigratedIsWhole ==
  [][\A s \in marked' \ marked :
       walk.gone \/ \A f \in Files : old[s][f] # None => disk[f] # None]_start
=============================================================================
