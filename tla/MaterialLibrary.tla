-------------------------- MODULE MaterialLibrary --------------------------
(***************************************************************************)
(* The material library (client/server.py): files below library/ and one   *)
(* metadata file with the tags of all of them.  Uploads choose a name and  *)
(* write without a lock and then enter their metadata under _library_lock; *)
(* /api/library/manage reads the metadata, works through the chosen        *)
(* materials and writes the metadata at the end, all under the lock; the   *)
(* single deletion takes no lock.  Composed with DataMigration, which      *)
(* starts the program on the same files.                                   *)
(*                                                                         *)
(* The file operations are those of Windows, for which the client is       *)
(* built: an open file can be neither deleted nor renamed, and a rename    *)
(* does not replace a file.                                                *)
(***************************************************************************)
EXTENDS DataMigration

CONSTANTS Uploads   \* the upload requests

VARIABLES
  upload,   \* per upload: its stage and the name it has chosen
  manage,   \* the manage request that holds _library_lock, or None
  blind,    \* history: uploads that found a file under the name they had chosen
  tags      \* history: per name, the tags the user may rely on, or None

library == <<upload, manage, blind, tags>>
vars == <<start, library>>

Begun(k) == <<"part", k>>
Whole(k) == <<"uploaded", k>>

\* What one request may do to materials.
Actions == {"delete", "tags", "rename"}

\* A manage request: the names it has still to work through, its copy of the
\* metadata, the name it has moved a material to, and those it has tagged.
Request == [action : Actions, left : SUBSET NameSet, meta : Dictionary,
            moved : SUBSET NameSet, tagged : SUBSET NameSet]

ASSUME LibraryAssumption ==
  /\ None \notin Request
  /\ \A k \in Uploads : {Begun(k), Whole(k)} \cap {None, Torn} = {}

Materials == {OldFile(s, n) : s \in 1 .. Roots, n \in NameSet} \cup {Whole(k) : k \in Uploads}

Present == {disk[n] : n \in NameSet} \cap Materials

At(k, stage, n) == upload' = [upload EXCEPT ![k] = [stage |-> stage, name |-> n]]

\* The file is being written at this moment.
Open(n) == \E k \in Uploads : upload[k].stage = "writing" /\ upload[k].name = n

Put(n, content) == disk' = [disk EXCEPT ![n] = content]

\* From now on the user relies on these tags of these materials ...
Rely(ns, t) == tags' = [n \in NameSet |-> IF n \in ns THEN t ELSE tags[n]]

\* ... or on nothing.
Forget(ns) == Rely(ns, None)

-----------------------------------------------------------------------------
(* POST /api/library/upload.                                               *)

\* Wrong on purpose: the name of the file is taken as it is.
Taken_Never(n) == FALSE

\* while target.exists()
Taken(n) == disk[n] # None

\* The first name that no file has.
Choose(k) ==
  /\ phase = "up" /\ upload[k].stage = "sent"
  /\ \E i \in 1 .. Len(Names) :
       /\ ~Taken(Names[i]) /\ \A j \in 1 .. i - 1 : Taken(Names[j])
       /\ At(k, "named", Names[i])
  /\ UNCHANGED <<start, manage, blind, tags>>

\* target.write_bytes opens the file, whatever is there by now ...
Write(k) ==
  LET n == upload[k].name
  IN  /\ phase = "up" /\ upload[k].stage = "named"
      /\ At(k, "writing", n)
      /\ Put(n, Begun(k))
      /\ blind' = IF disk[n] = None THEN blind ELSE blind \cup {k}
      /\ Forget({n})
      /\ UNCHANGED <<old, plugged, marked, phase, walk, starts, faults, manage>>

\* ... and fills it; two that write one file leave what either wrote, or both.
Written(k) ==
  LET n == upload[k].name
  IN  /\ phase = "up" /\ upload[k].stage = "writing"
      /\ IF disk[n] = Begun(k) THEN Put(n, Whole(k))
                               ELSE \E mix \in {disk[n], Begun(k)} : Put(n, mix)
      /\ At(k, "written", n)
      /\ UNCHANGED <<old, plugged, marked, phase, walk, starts, faults,
                     manage, blind, tags>>

\* The disk is full: what was written stays and the request fails.
WriteFails(k) ==
  /\ phase = "up" /\ upload[k].stage = "writing"
  /\ Fault
  /\ At(k, "over", upload[k].name)
  /\ UNCHANGED <<old, plugged, disk, marked, phase, walk, starts,
                 manage, blind, tags>>

\* Wrong on purpose: the metadata are entered without the lock.
LockFree_Ignored == TRUE

LockFree == manage = None

\* The new material enters with no tags.  Another material that has come
\* under the chosen name loses its tags here.
Enter(k) ==
  LET n == upload[k].name
  IN  /\ phase = "up" /\ upload[k].stage = "written"
      /\ LockFree
      /\ Put(Metadata, [disk[Metadata] EXCEPT ![n] = "plain"])
      /\ At(k, "over", n)
      /\ IF disk[n] = Whole(k) THEN Rely({n}, "plain") ELSE Forget({n})
      /\ UNCHANGED <<old, plugged, marked, phase, walk, starts, faults,
                     manage, blind>>

\* _read_json answers {} to a momentary error: the entry is all that is written.
EnterMisreads(k) ==
  LET n == upload[k].name
  IN  /\ phase = "up" /\ upload[k].stage = "written"
      /\ LockFree
      /\ Fault
      /\ Put(Metadata, [NoTags EXCEPT ![n] = "plain"])
      /\ At(k, "over", n)
      /\ Forget(NameSet)
      /\ UNCHANGED <<old, plugged, marked, phase, walk, starts,
                     manage, blind>>

\* The metadata cannot be replaced eight times: the request fails.
EnterFails(k) ==
  /\ phase = "up" /\ upload[k].stage = "written"
  /\ LockFree
  /\ Fault
  /\ At(k, "over", upload[k].name)
  /\ UNCHANGED <<old, plugged, disk, marked, phase, walk, starts,
                 manage, blind, tags>>

-----------------------------------------------------------------------------
(* DELETE /api/library/...                                                 *)

\* One of the materials the page lists; the handler would delete the metadata
\* file as well, which the list leaves out, and a later write would start it anew.
Delete(n) ==
  /\ phase = "up"
  /\ disk[n] # None /\ ~Open(n)
  /\ Put(n, None)
  /\ Forget({n})
  /\ UNCHANGED <<old, plugged, marked, phase, walk, starts, faults,
                 upload, manage, blind>>

-----------------------------------------------------------------------------
(* POST /api/library/manage.                                               *)

\* The lock is taken and the metadata are read; tags and renames come with
\* what the user typed.
Manage(action, ids) ==
  /\ phase = "up" /\ manage = None
  /\ ids # {} /\ \A n \in ids : disk[n] # None
  /\ action = "rename" => Cardinality(ids) = 1
  /\ manage' = [action |-> action, left |-> ids, meta |-> disk[Metadata],
                moved |-> {}, tagged |-> {}]
  /\ UNCHANGED <<start, upload, blind, tags>>

ManageMisreads(action, ids) ==
  /\ phase = "up" /\ manage = None
  /\ ids # {} /\ \A n \in ids : disk[n] # None
  /\ action = "rename" => Cardinality(ids) = 1
  /\ Fault
  /\ manage' = [action |-> action, left |-> ids, meta |-> NoTags, moved |-> {}, tagged |-> {}]
  /\ Forget(NameSet)
  /\ UNCHANGED <<old, plugged, disk, marked, phase, walk, starts,
                 upload, blind>>

\* A material that is gone by now is passed over.
Pass(n) ==
  /\ phase = "up" /\ manage # None /\ n \in manage.left /\ disk[n] = None
  /\ manage' = [manage EXCEPT !.left = @ \ {n}]
  /\ UNCHANGED <<start, upload, blind, tags>>

DeleteOne(n) ==
  /\ phase = "up" /\ manage # None /\ manage.action = "delete"
  /\ n \in manage.left /\ disk[n] # None /\ ~Open(n)
  /\ Put(n, None)
  /\ manage' = [manage EXCEPT !.left = @ \ {n}, !.meta[n] = None]
  /\ Forget({n})
  /\ UNCHANGED <<old, plugged, marked, phase, walk, starts, faults,
                 upload, blind>>

TagOne(n) ==
  /\ phase = "up" /\ manage # None /\ manage.action = "tags"
  /\ n \in manage.left /\ disk[n] # None
  /\ manage' = [manage EXCEPT !.left = @ \ {n}, !.meta[n] = "tagged",
                              !.tagged = @ \cup {n}]
  /\ UNCHANGED <<start, upload, blind, tags>>

\* metadata[new_id] = metadata.pop(current_id, no tags)
Renamed(meta, n, target) ==
  [meta EXCEPT ![n] = None, ![target] = IF meta[n] = None THEN "plain" ELSE meta[n]]

RenameOne(n, target) ==
  /\ phase = "up" /\ manage # None /\ manage.action = "rename"
  /\ n \in manage.left /\ disk[n] # None /\ ~Open(n)
  /\ ~Taken(target)
  /\ disk' = [disk EXCEPT ![n] = None, ![target] = disk[n]]
  /\ manage' = [manage EXCEPT !.left = {}, !.meta = Renamed(@, n, target),
                              !.moved = {target}]
  /\ tags' = [tags EXCEPT ![n] = None, ![target] = tags[n]]
  /\ UNCHANGED <<old, plugged, marked, phase, walk, starts, faults,
                 upload, blind>>

\* An open file, a file that goes away after is_file, a disk error, or a new
\* name that is taken: the request ends and the metadata are not written.
ManageRaises ==
  /\ phase = "up" /\ manage # None /\ manage.left # {}
  /\ \/ /\ manage.action # "tags" /\ \E n \in manage.left : Open(n)
        /\ UNCHANGED faults
     \/ manage.action = "rename" /\ UNCHANGED faults
     \/ Fault
  /\ manage' = None
  /\ UNCHANGED <<old, plugged, disk, marked, phase, walk, starts,
                 upload, blind, tags>>

\* The names of uploads that have not entered their metadata yet.
Pending == {upload[k].name : k \in {j \in Uploads : upload[j].stage \in {"writing", "written"}}}

\* The metadata are written and the lock is released.
ManageEnds ==
  /\ phase = "up" /\ manage # None /\ manage.left = {}
  /\ Put(Metadata, manage.meta)
  /\ manage' = None
  /\ tags' = [n \in NameSet |->
                CASE n \notin manage.tagged -> tags[n]
                  [] n \in Pending \/ disk[n] = None -> None
                  [] OTHER -> "tagged"]
  /\ UNCHANGED <<old, plugged, marked, phase, walk, starts, faults,
                 upload, blind>>

\* They cannot be written: the request fails with its files already moved.
ManageFails ==
  /\ phase = "up" /\ manage # None /\ manage.left = {}
  /\ Fault
  /\ manage' = None
  /\ Forget(manage.moved)
  /\ UNCHANGED <<old, plugged, disk, marked, phase, walk, starts,
                 upload, blind>>

-----------------------------------------------------------------------------
Init ==
  /\ InitMigration
  /\ upload = [k \in Uploads |-> [stage |-> "sent", name |-> Names[1]]]
  /\ manage = None
  /\ blind = {}
  /\ tags = [n \in NameSet |-> None]

\* The end of the program ends its requests.
Stops ==
  /\ Stop
  /\ upload' = [k \in Uploads |->
                  IF upload[k].stage = "sent" THEN upload[k] ELSE [upload[k] EXCEPT !.stage = "over"]]
  /\ manage' = None
  /\ Forget(IF manage = None THEN {} ELSE manage.moved)
  /\ UNCHANGED blind

Starts == StartUp /\ UNCHANGED library

Misreads == LayoutMisreads /\ Forget(NameSet) /\ UNCHANGED <<upload, manage, blind>>

Uploading ==
  \E k \in Uploads :
    Choose(k) \/ Write(k) \/ Written(k) \/ WriteFails(k)
      \/ Enter(k) \/ EnterMisreads(k) \/ EnterFails(k)

Managing ==
  \/ \E a \in Actions, ids \in SUBSET NameSet : Manage(a, ids) \/ ManageMisreads(a, ids)
  \/ \E n \in NameSet : Pass(n) \/ DeleteOne(n) \/ TagOne(n)
  \/ \E n, target \in NameSet : RenameOne(n, target)
  \/ ManageRaises \/ ManageEnds \/ ManageFails

Deleting == \E n \in NameSet : Delete(n)

Next == Starts \/ Misreads \/ Stops \/ Uploading \/ Deleting \/ Managing

Spec == Init /\ [][Next]_vars

-----------------------------------------------------------------------------
\* Two uploads, or an upload and a rename, have met under one name.
Collides(k) == \E j \in blind' : upload[j].name = upload[k].name

(* A material that was once stored whole goes away only because the user   *)
(* deletes it: no migration, restart, rename, other upload or end of the   *)
(* program destroys it.  The one exception the code has is an upload whose *)
(* name was free when it looked and is taken when it writes: two files of  *)
(* one name from one batch import can meet like that.                      *)
NothingLost ==
  [][\A c \in Present : c \in Present' \/ Deleting \/ (\E n \in NameSet : DeleteOne(n))
                          \/ \E k \in Uploads : Collides(k) /\ (Write(k) \/ Written(k))]_vars

(* While the program serves requests the metadata file is a dictionary:    *)
(* whatever was interrupted before, the next start has repaired it.  And   *)
(* the tags of a material follow it through renames, other requests,       *)
(* failures and restarts: when nobody holds the lock, a material the user  *)
(* has tagged has those tags, and one that has only been uploaded has      *)
(* none.  Nothing is promised after a metadata file that could not be read *)
(* for a moment (all tags are lost), of a material renamed by a request    *)
(* that failed or died before it wrote the metadata, and of one that was   *)
(* tagged, or moved away, before its upload had ended.                     *)
TagsFollow ==
  phase = "up" =>
    /\ disk[Metadata] \in Dictionary
    /\ manage = None => \A n \in NameSet :
         tags[n] # None => disk[n] # None /\ disk[Metadata][n] = tags[n]
=============================================================================
