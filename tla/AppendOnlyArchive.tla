-------------------------- MODULE AppendOnlyArchive --------------------------
(***************************************************************************)
(* What a writer that adds files to a zip archive in place promises: the     *)
(* archive is a list of files that only grows at its end, one file at a time. *)
(* It may be illegible for a while, or for good, but never holds anything    *)
(* but that list. Whoever owns the archive may remove it.                     *)
(***************************************************************************)
EXTENDS Sequences

CONSTANT Files

VARIABLES
  log,      \* the files in the archive
  legible   \* whether it can be read now

AddFile(f) == log' = Append(log, f) /\ legible' = TRUE
Blur       == legible' = FALSE /\ UNCHANGED log
Restore    == legible' = TRUE /\ UNCHANGED log
Remove     == log' = <<>> /\ legible' = TRUE

ArchiveInit == log = <<>> /\ legible = TRUE
ArchiveNext == (\E f \in Files : AddFile(f)) \/ Blur \/ Restore \/ Remove
ArchiveSpec == ArchiveInit /\ [][ArchiveNext]_<<log, legible>>
=============================================================================
