------------------------- MODULE ArchivePublication -------------------------
(***************************************************************************)
(* execution/archive/archive_service.ml, publish: several publishers, each *)
(* of which may die anywhere, of one run's archive into one output         *)
(* directory, which its user also writes to.  A directory is the archive   *)
(* in it, if any, and the entries the archive does not own.                *)
(***************************************************************************)
EXTENDS Naturals, FiniteSets, FiniteSetsExt

CONSTANTS Publishers,
          Evidence,   \* the run's files, one per way of copying them
          Entries,    \* names the user may add to the output
          MaxChanges, \* bound: changes of one evidence file
          None

VARIABLES
  pc, force,
  source,   \* the version of each evidence file
  digest,   \* what each publisher's acquisition hashed
  output, staging, backup, \* directories, None when absent
  lock,
  made,     \* history: entries the user ever added,
  late      \* those added after a publisher's listing, before its swap

vars == <<pc, force, source, digest, output, staging, backup, lock, made, late>>
dirs == <<output, staging, backup>>

Empty == [archive |-> None, users |-> {}]

(* A private directory before its archive.json is written.                 *)
Versions == [Evidence -> 0..MaxChanges]
Archives == [digest : Versions, data : [Evidence -> 0..MaxChanges \cup {None}], listed : BOOLEAN]
Directories == [archive : Archives \cup {None}, users : SUBSET Entries]

Init ==
  /\ pc = [p \in Publishers |-> "acquire"]
  /\ force \in [Publishers -> BOOLEAN]
  /\ source = [f \in Evidence |-> 0]
  /\ digest = [p \in Publishers |-> source]
  /\ output = None
  /\ staging = [p \in Publishers |-> None]
  /\ backup = [p \in Publishers |-> None]
  /\ lock = None
  /\ made = {}
  /\ late = [p \in Publishers |-> {}]

-----------------------------------------------------------------------------
(* The surroundings.                                                       *)

Changes ==
  /\ \E f \in Evidence : source[f] < MaxChanges /\ source' = [source EXCEPT ![f] = @ + 1]
  /\ UNCHANGED <<pc, force, digest, output, staging, backup, lock, made, late>>

(* Nothing locks the output against other programs: its user makes the     *)
(* directory, or adds to it, at any time.                                  *)
MakeOutput ==
  /\ output = None
  /\ output' = Empty
  /\ UNCHANGED <<pc, force, source, digest, staging, backup, lock, made, late>>

AddEntry ==
  /\ output # None
  /\ \E e \in Entries \ made :
       /\ made' = made \cup {e}
       /\ output' = [output EXCEPT !.users = @ \cup {e}]
       /\ late' = [p \in Publishers |-> IF pc[p] = "swap" THEN late[p] \cup {e} ELSE late[p]]
  /\ UNCHANGED <<pc, force, source, digest, staging, backup, lock>>

(* A killed publisher runs no finalizer.                                   *)
Die(p) ==
  /\ pc[p] \notin {"acquire", "ended", "dead"}
  /\ pc' = [pc EXCEPT ![p] = "dead"]
  /\ UNCHANGED <<force, source, digest, dirs, lock, made, late>>

-----------------------------------------------------------------------------
(* One publication.                                                        *)

Go(p, from, to) == pc[p] = from /\ pc' = [pc EXCEPT ![p] = to] /\ UNCHANGED <<force, made, late>>

Populated == output # None /\ output # Empty

CheckOutput(p) == ~Populated \/ force[p]

(* acquire: select, verify and hash every file, or refuse.                 *)
Acquire(p) ==
  /\ \/ Go(p, "acquire", "lock") /\ CheckOutput(p)
     \/ Go(p, "acquire", "ended")
  /\ digest' = [digest EXCEPT ![p] = source]
  /\ UNCHANGED <<source, dirs, lock>>

(* Mutant: a lock directory that exists is taken over.                     *)
TakenOver == TRUE

(* mkdir is exclusive.                                                     *)
Unlocked == lock = None

Lock(p) ==
  /\ IF Unlocked THEN Go(p, "lock", "recheck") /\ lock' = p
                    ELSE Go(p, "lock", "ended") /\ UNCHANGED lock
  /\ UNCHANGED <<source, digest, dirs>>

Recheck(p) ==
  /\ Go(p, "recheck", "copy")
  /\ CheckOutput(p)
  /\ staging' = [staging EXCEPT ![p] =
       [Empty EXCEPT !.archive = [digest |-> digest[p], data |-> [f \in Evidence |-> None], listed |-> FALSE]]]
  /\ UNCHANGED <<source, digest, output, backup, lock>>

(* Mutant: copied and encoded without comparing the bytes' hash.           *)
AnyBytes(p, f) == TRUE

(* A copy is hashed again, an encoder hashes what it reads.                *)
SameBytes(p, f) == source[f] = digest[p][f]

Copy(p, f) ==
  /\ Go(p, "copy", "copy")
  /\ staging[p].archive.data[f] = None
  /\ SameBytes(p, f)
  /\ staging' = [staging EXCEPT ![p].archive.data[f] = source[f]]
  /\ UNCHANGED <<source, digest, output, backup, lock>>

(* Its json is written last.                                               *)
List(p) ==
  /\ Go(p, "copy", "preserve")
  /\ \A f \in Evidence : staging[p].archive.data[f] # None
  /\ staging' = [staging EXCEPT ![p].archive.listed = TRUE]
  /\ UNCHANGED <<source, digest, output, backup, lock>>

(* Mutant: the user's entries are left to the backup.                      *)
NoEntries(p) == {}

Preserved(p) == IF output = None THEN {} ELSE output.users

Preserve(p) ==
  /\ Go(p, "preserve", "swap")
  /\ CheckOutput(p)
  /\ staging' = [staging EXCEPT ![p].users = Preserved(p)]
  /\ UNCHANGED <<source, digest, output, backup, lock>>

(* Only an existing output moves; afterwards `moved' is backup # None.     *)
MoveAway(p) ==
  /\ Go(p, "swap", "promote")
  /\ backup' = [backup EXCEPT ![p] = output]
  /\ output' = None
  /\ UNCHANGED <<source, digest, staging, lock>>

(* rename replaces an empty directory, the no-replace promotion none.      *)
Promote(p) ==
  /\ Go(p, "promote", "clean")
  /\ output = None \/ (backup[p] # None /\ output = Empty)
  /\ output' = staging[p]
  /\ staging' = [staging EXCEPT ![p] = None]
  /\ UNCHANGED <<source, digest, backup, lock>>

(* It fails: the backup returns unless something else is there by now, or  *)
(* its own rename fails too.                                               *)
Rollback(p) ==
  /\ Go(p, "promote", "unstage")
  /\ \/ output = None /\ output' = backup[p] /\ backup' = [backup EXCEPT ![p] = None]
     \/ UNCHANGED <<output, backup>>
  /\ UNCHANGED <<source, digest, staging, lock>>

(* Removing the backup may fail, which is ignored.                         *)
Clean(p) ==
  /\ Go(p, "clean", "unstage")
  /\ backup' = [backup EXCEPT ![p] = None] \/ UNCHANGED backup
  /\ UNCHANGED <<source, digest, output, staging, lock>>

Raise(p) ==
  /\ \/ Go(p, "recheck", "unlock")
     \/ \E from \in {"copy", "preserve", "swap"} : Go(p, from, "unstage")
  /\ UNCHANGED <<source, digest, dirs, lock>>

Unstage(p) ==
  /\ Go(p, "unstage", "unlock")
  /\ staging' = [staging EXCEPT ![p] = None]
  /\ UNCHANGED <<source, digest, output, backup, lock>>

Unlock(p) ==
  /\ Go(p, "unlock", "ended")
  /\ lock' = None
  /\ UNCHANGED <<source, digest, dirs>>

Next ==
  \/ Changes \/ MakeOutput \/ AddEntry
  \/ \E p \in Publishers :
       \/ Acquire(p) \/ Lock(p) \/ Recheck(p) \/ (\E f \in Evidence : Copy(p, f)) \/ List(p)
       \/ Preserve(p) \/ MoveAway(p) \/ Promote(p) \/ Rollback(p) \/ Clean(p)
       \/ Raise(p) \/ Unstage(p) \/ Unlock(p) \/ Die(p)

Spec == Init /\ [][Next]_vars

-----------------------------------------------------------------------------
TypeOK ==
  /\ pc \in [Publishers -> {"acquire", "lock", "recheck", "copy", "preserve", "swap", "promote",
                            "clean", "unstage", "unlock", "ended", "dead"}]
  /\ force \in [Publishers -> BOOLEAN]
  /\ source \in Versions /\ digest \in [Publishers -> Versions]
  /\ output \in Directories \cup {None}
  /\ {staging, backup} \subseteq [Publishers -> Directories \cup {None}]
  /\ lock \in Publishers \cup {None}
  /\ made \subseteq Entries /\ late \in [Publishers -> SUBSET made]

Kept == ({output} \cup {backup[p] : p \in Publishers}) \ {None}

Users == UNION {d.users : d \in Kept}

(* Whoever dies or fails wherever, an entry of the user is still in the    *)
(* output or in a backup beside it, unless it was added between one        *)
(* publisher's listing of the output and its swap, where nothing looks.    *)
EntriesSurvive ==
  /\ TypeOK
  /\ made \ UNION {late[p] : p \in Publishers} \subseteq Users

(* What stands at the output, or waits in a backup, is one publisher's     *)
(* whole archive, with the bytes its own digests name.                     *)
ArchivesAreWhole ==
  \A d \in Kept : d.archive # None => d.archive.listed /\ d.archive.data = d.archive.digest

(* What a publisher moves away without being told to has nothing in it,    *)
(* but what was added since it looked.                                     *)
MovesUnlessForced ==
  \A p \in Publishers :
    pc[p] = "swap" /\ pc'[p] = "promote" /\ output # None =>
      force[p] \/ (output.archive = None /\ output.users \subseteq late[p])

(* An entry goes only when a publisher that has succeeded removes its      *)
(* backup, and only one that came late for that publisher: no failure and  *)
(* no rollback costs one.                                                  *)
OnlyLateEntriesGo ==
  Users \ Users' # {} =>
    \E p \in Publishers : pc[p] = "clean" /\ pc'[p] = "unstage" /\ Users \ Users' \subseteq late[p]

PublicationTakesNothing == [][MovesUnlessForced /\ OnlyLateEntriesGo]_vars
=============================================================================
