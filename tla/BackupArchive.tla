---------------------------- MODULE BackupArchive ----------------------------
(***************************************************************************)
(* What a backup directory with retention promises: a usable backup is     *)
(* removed only while a usable newer one is there.  The newest day from    *)
(* which data can be restored never moves back.                            *)
(***************************************************************************)
EXTENDS Naturals

CONSTANT Backups

VARIABLES usable,   \* the backups that are complete and verified
          madeOn    \* the day of each backup's data

archive == <<usable, madeOn>>

ArchiveInit == usable = {} /\ madeOn \in [Backups -> Nat]

(* Data are dumped; nothing is usable of them yet. *)
Dump(b) ==
    /\ b \notin usable
    /\ madeOn'[b] \in Nat
    /\ madeOn' = [madeOn EXCEPT ![b] = madeOn'[b]]
    /\ UNCHANGED usable

Add(b) ==
    /\ b \notin usable
    /\ usable' = usable \cup {b}
    /\ UNCHANGED madeOn

Remove(b) ==
    /\ \E c \in usable : madeOn[c] > madeOn[b]
    /\ usable' = usable \ {b}
    /\ UNCHANGED madeOn

ArchiveNext == \E b \in Backups : Dump(b) \/ Add(b) \/ Remove(b)

ArchiveSpec == ArchiveInit /\ [][ArchiveNext]_archive
=============================================================================
