----------------------------- MODULE ZipArchive -----------------------------
(***************************************************************************)
(* mz_zip_add_mem_to_archive_file_in_place(): the new file is written over   *)
(* the central directory of the archive, which follows it, in memory only     *)
(* meanwhile. Each write may fail or be cut short, and the process may be     *)
(* killed between any two and inside each.                                    *)
(*                                                                         *)
(* The archive is a sequence of cells: a local header, the name and the       *)
(* pieces of the data of each file, one cell for each entry of the central    *)
(* directory, and the end record. Writes reach the disk in order and the last *)
(* flush is looked at, so a failure stdio notices late is that of an earlier  *)
(* write. File contents do not hold the signature of an end record.           *)
(***************************************************************************)
EXTENDS Integers, Sequences, FiniteSetsExt

CONSTANTS
  Files,       \* files to add
  Refused,     \* those whose names are no names for an archive
  Pieces,      \* cells of the (compressed) data of a file
  Absent,      \* no archive
  NoFile,
  MaxFiles,    \* files an archive has room for: 0xFFFF
  MaxCells,    \* size an offset can express: 0xFFFFFFFF
  Window,      \* cells at the end of the archive in which the end record is looked for
  MaxAdds      \* bound on the files added

ASSUME SizeAssumption ==
  /\ Refused \subseteq Files /\ Pieces \in [Files -> Nat] /\ NoFile \notin Files
  /\ MaxFiles \in Nat /\ MaxCells \in Nat /\ Window \in Nat \ {0} /\ MaxAdds \in Nat

VARIABLES
  disk,      \* the archive file
  pc,        \* the write that is next
  file,      \* the file being added
  central,   \* m_central_dir
  at,        \* m_archive_size: where the file, then the directory, is written
  done,      \* pieces of the data written
  status,    \* what is going to be returned
  created,   \* created_new_archive
  finalized, \* MZ_ZIP_MODE_WRITING_HAS_BEEN_FINALIZED
  before,    \* the files in the archive when the call started (history)
  adds

vars == <<disk, pc, file, central, at, done, status, created, finalized, before, adds>>

Stopped == {"idle", "killed"}
Steps   == {"open", "reader", "hole", "name", "data", "header", "directory", "end", "close", "delete"}

-----------------------------------------------------------------------------
(* Cells. *)

Hole          == <<"hole">>
Torn          == <<"torn">>
Local(f)      == <<"local", f>>
Name(f)       == <<"name", f>>
Piece(f, i)   == <<"data", f, i>>
Entry(f, ofs) == <<"entry", f, ofs>>
End(n, ofs)   == <<"end", n, ofs>>

Entries == {"entry"} \X Files \X Nat
Cells ==
  {Hole, Torn} \cup ({"local", "name"} \X Files) \cup ({"data"} \X Files \X Nat)
    \cup Entries \cup ({"end"} \X Nat \X Nat)

ASSUME AbsentAssumption == Absent \notin Seq(Cells)

\* The cells of d from the offset ofs on are written over.
Overlay(d, ofs, cells) ==
  [i \in 1..Max({Len(d), ofs + Len(cells)}) |->
     IF i - ofs \in DOMAIN cells THEN cells[i - ofs] ELSE d[i]]

\* A write that fails leaves a part of the cells behind, the last one perhaps
\* half written.
Partial(d, ofs, cells) ==
  {Overlay(d, ofs, SubSeq(cells, 1, n)) : n \in 0..Len(cells) - 1}
    \cup {Overlay(d, ofs, Append(SubSeq(cells, 1, n), Torn)) :
            n \in {m \in 0..Len(cells) - 1 :
                     ofs + m + 1 \in DOMAIN d => d[ofs + m + 1] # cells[m + 1]}}

Writes(ofs, cells) == disk' = Overlay(disk, ofs, cells)
Fails(ofs, cells)  == disk' \in Partial(disk, ofs, cells)

-----------------------------------------------------------------------------
(* Reading. *)

\* The place of the end record: the last one, if it is near enough to the end.
EndRecord(d) == {i \in DOMAIN d : d[i][1] = "end" /\ \A j \in i + 1..Len(d) : d[j][1] # "end"}

\* mz_zip_reader_read_central_dir
Legible(d) ==
  d # Absent /\ \E i \in EndRecord(d) :
    LET n == d[i][2] ofs == d[i][3] IN
    /\ Len(d) - i < Window
    /\ ofs + n <= Len(d)
    /\ \A k \in 1..n : /\ d[ofs + k][1] = "entry"
                       /\ d[ofs + k][3] + 1 + Pieces[d[ofs + k][2]] <= Len(d)

DirectoryAt(d) == d[CHOOSE i \in EndRecord(d) : TRUE][3]
DirectoryOf(d) ==
  LET e == d[CHOOSE i \in EndRecord(d) : TRUE] IN SubSeq(d, e[3] + 1, e[3] + e[2])

\* The files of an archive; one that does not exist has none.
Listing(d) == IF d = Absent THEN <<>> ELSE [i \in DOMAIN DirectoryOf(d) |-> DirectoryOf(d)[i][2]]

-----------------------------------------------------------------------------
Init ==
  /\ disk = Absent /\ pc = "idle" /\ file = NoFile
  /\ central = <<>> /\ at = 0 /\ done = 0
  /\ status = TRUE /\ created = FALSE /\ finalized = FALSE
  /\ before = <<>> /\ adds = 0

\* mz_zip_writer_validate_archive_name
ValidName(f) == f \notin Refused

\* The call; a name that is none is refused at once.
Begin(f) ==
  /\ pc \in Stopped /\ adds < MaxAdds
  /\ adds' = adds + 1 /\ file' = f
  /\ before' = (IF disk = Absent \/ Legible(disk) THEN Listing(disk) ELSE before)
  /\ pc' = (IF ValidName(f) THEN "open" ELSE "idle") /\ status' = ValidName(f)
  /\ created' = FALSE /\ finalized' = FALSE /\ central' = <<>> /\ at' = 0 /\ done' = 0
  /\ UNCHANGED disk

InitWriter(size) == at' = size /\ central' = <<>>
InitReader(size) == at' = size

\* mz_zip_writer_init_file
OpenNew ==
  /\ pc = "open" /\ disk = Absent
  /\ disk' = <<>> /\ InitWriter(0) /\ created' = TRUE /\ pc' = "hole"
  /\ UNCHANGED <<file, done, status, finalized, before, adds>>

\* Seeded bug: the directory that is there is not taken over.
OpenReaderAnew ==
  /\ pc = "open" /\ disk # Absent /\ Legible(disk)
  /\ InitReader(Len(disk)) /\ pc' = "reader"
  /\ UNCHANGED <<disk, file, central, done, status, created, finalized, before, adds>>

\* mz_zip_reader_init_file
OpenReader ==
  /\ pc = "open" /\ disk # Absent /\ Legible(disk)
  /\ InitReader(Len(disk)) /\ central' = DirectoryOf(disk) /\ pc' = "reader"
  /\ UNCHANGED <<disk, file, done, status, created, finalized, before, adds>>

\* mz_zip_writer_init_from_reader: new files start where the central directory is.
WriteOnFromReader ==
  /\ pc = "reader"
  /\ Len(central) < MaxFiles /\ at + 2 <= MaxCells
  /\ at' = DirectoryAt(disk) /\ pc' = "hole"
  /\ UNCHANGED <<disk, file, central, done, status, created, finalized, before, adds>>

\* The archive cannot be opened or read, is no archive, or is full.
OpenFails ==
  /\ pc \in {"open", "reader"}
  /\ pc' = "idle" /\ status' = FALSE
  /\ UNCHANGED <<disk, file, central, at, done, created, finalized, before, adds>>

-----------------------------------------------------------------------------
(* mz_zip_writer_add_mem_ex. However it ends, the archive is finalized.       *)

AddFails == status' = FALSE /\ pc' = "directory"

\* There is no memory, or no room: nothing is written.
CannotAdd ==
  /\ pc = "hole" /\ AddFails
  /\ UNCHANGED <<disk, file, central, at, done, created, finalized, before, adds>>

\* The place of the local header, over what was the central directory.
WriteHole ==
  /\ pc = "hole" /\ at + 3 <= MaxCells
  /\ \/ Writes(at, <<Hole>>) /\ pc' = "name" /\ UNCHANGED status
     \/ Fails(at, <<Hole>>) /\ AddFails
  /\ UNCHANGED <<file, central, at, done, created, finalized, before, adds>>

WriteName ==
  /\ pc = "name"
  /\ \/ Writes(at + 1, <<Name(file)>>) /\ pc' = "data" /\ UNCHANGED status
     \/ Fails(at + 1, <<Name(file)>>) /\ AddFails
  /\ UNCHANGED <<file, central, at, done, created, finalized, before, adds>>

\* What the compressor hands to its callback, piece by piece.
WriteData ==
  /\ pc = "data" /\ done < Pieces[file]
  /\ \/ Writes(at + 2 + done, <<Piece(file, done + 1)>>) /\ done' = done + 1
        /\ UNCHANGED <<pc, status>>
     \/ Fails(at + 2 + done, <<Piece(file, done + 1)>>) /\ AddFails /\ UNCHANGED done
  /\ UNCHANGED <<file, central, at, created, finalized, before, adds>>

DataComplete ==
  /\ pc = "data" /\ done = Pieces[file]
  /\ IF at + 2 + done <= MaxCells THEN pc' = "header" /\ UNCHANGED status ELSE AddFails
  /\ UNCHANGED <<disk, file, central, at, done, created, finalized, before, adds>>

\* mz_zip_writer_add_to_central_dir, for which memory was set aside before.
AddToDirectory(f, ofs) == central' = Append(central, Entry(f, ofs))

\* Seeded bug: the archive grows although the header could not be written.
WriteHeaderUnchecked ==
  /\ pc = "header"
  /\ AddToDirectory(file, at) /\ at' = at + 2 + Pieces[file]
  /\ pc' = "directory"
  /\ \/ Writes(at, <<Local(file)>>)
     \/ Fails(at, <<Local(file)>>)
  /\ UNCHANGED <<file, done, status, created, finalized, before, adds>>

\* Seeded bug: the new end of the archive is one off.
WriteHeaderOneOff ==
  /\ pc = "header"
  /\ Writes(at, <<Local(file)>>) /\ pc' = "directory"
  /\ AddToDirectory(file, at) /\ at' = at + 3 + Pieces[file]
  /\ UNCHANGED <<file, done, status, created, finalized, before, adds>>

WriteHeader ==
  /\ pc = "header"
  /\ \/ /\ Writes(at, <<Local(file)>>) /\ pc' = "directory" /\ UNCHANGED status
        /\ AddToDirectory(file, at) /\ at' = at + 2 + Pieces[file]
     \/ Fails(at, <<Local(file)>>) /\ AddFails /\ UNCHANGED <<central, at>>
  /\ UNCHANGED <<file, done, created, finalized, before, adds>>

-----------------------------------------------------------------------------
(* mz_zip_writer_finalize_archive and what follows. *)

\* The offsets must leave room for the directory; that of an archive without
\* files is not written.
WriteDirectory ==
  /\ pc = "directory"
  /\ \/ /\ at + Len(central) + 1 <= MaxCells
        /\ Writes(at, central) /\ pc' = "end" /\ UNCHANGED status
     \/ /\ at + Len(central) + 1 <= MaxCells
        /\ Fails(at, central) /\ pc' = "close" /\ status' = FALSE
     \/ /\ at + Len(central) + 1 > MaxCells
        /\ pc' = "close" /\ status' = FALSE /\ UNCHANGED disk
  /\ UNCHANGED <<file, central, at, done, created, finalized, before, adds>>

\* Seeded bug: the result of the flush is not looked at.
WriteEndUnflushed ==
  /\ pc = "end" /\ pc' = "close" /\ finalized' = TRUE
  /\ LET end == <<End(Len(central), IF central = <<>> THEN 0 ELSE at)>>
     IN Writes(at + Len(central), end) \/ Fails(at + Len(central), end)
  /\ UNCHANGED <<file, central, at, done, status, created, before, adds>>

\* Seeded bug: the record gives the offset behind the directory.
WriteEndBehind ==
  /\ pc = "end" /\ pc' = "close" /\ finalized' = TRUE
  /\ Writes(at + Len(central), <<End(Len(central), at + Len(central))>>)
  /\ UNCHANGED <<file, central, at, done, status, created, before, adds>>

\* The end record, which is flushed.
WriteEnd ==
  LET ofs == at + Len(central)
      end == <<End(Len(central), IF central = <<>> THEN 0 ELSE at)>> IN
  /\ pc = "end" /\ pc' = "close"
  /\ \/ Writes(ofs, end) /\ finalized' = TRUE /\ UNCHANGED status
     \/ Fails(ofs, end) /\ status' = FALSE /\ UNCHANGED finalized
  /\ UNCHANGED <<file, central, at, done, created, before, adds>>

\* mz_zip_writer_end: nobody looks whether the file could be closed.
EndWriter ==
  /\ pc = "close" /\ pc' = "delete"
  /\ UNCHANGED <<disk, file, central, at, done, status, created, finalized, before, adds>>

\* A new archive that went wrong is deleted, if that works.
DeleteNew ==
  /\ pc = "delete" /\ pc' = "idle"
  /\ \/ ~status /\ created /\ disk' = Absent
     \/ UNCHANGED disk
  /\ UNCHANGED <<file, central, at, done, status, created, finalized, before, adds>>

\* The process ends; inside a write that is the same as after a failing one.
Killed ==
  /\ pc \in Steps /\ pc' = "killed"
  /\ UNCHANGED <<disk, file, central, at, done, status, created, finalized, before, adds>>

\* The next run of the program removes the archive first, if it can.
RemoveArchive ==
  /\ pc \in Stopped /\ disk # Absent
  /\ disk' = Absent /\ before' = <<>> /\ pc' = "idle" /\ status' = FALSE
  /\ file' = NoFile
  /\ UNCHANGED <<central, at, done, created, finalized, adds>>

Next ==
  \/ \E f \in Files : Begin(f)
  \/ OpenNew \/ OpenReader \/ WriteOnFromReader \/ OpenFails
  \/ CannotAdd \/ WriteHole \/ WriteName \/ WriteData \/ DataComplete \/ WriteHeader
  \/ WriteDirectory \/ WriteEnd \/ EndWriter \/ DeleteNew \/ Killed \/ RemoveArchive

Spec == Init /\ [][Next]_vars

-----------------------------------------------------------------------------
(* Properties. *)

\* Every variable keeps to its type; nothing is written before the end of the
\* archive is known (mz_zip_archive).
ZipTypeOK ==
  /\ pc \in Stopped \cup Steps /\ file \in Files \cup {NoFile}
  /\ at \in Nat /\ done \in Nat /\ status \in BOOLEAN /\ created \in BOOLEAN
  /\ adds \in 0..MaxAdds
  /\ pc \in Steps \ {"open"} => disk # Absent /\ at <= Len(disk)

\* Whatever failed and wherever the process was killed, an archive that can be
\* read holds each file that it lists, whole: the directory and the data are
\* written at different times, the one over the other.
ListedIsWhole ==
  disk # Absent /\ Legible(disk) =>
    \A i \in DOMAIN DirectoryOf(disk) :
      LET f == DirectoryOf(disk)[i][2] ofs == DirectoryOf(disk)[i][3] IN
      /\ disk[ofs + 1] = Local(f) /\ disk[ofs + 2] = Name(f)
      /\ \A k \in 1..Pieces[f] : disk[ofs + 2 + k] = Piece(f, k)

\* A call that succeeds has added its file to what was there; one that failed
\* has added nothing (the status is put together from three functions, and a
\* late failure of the disk shows in the last flush).
ResultTruthful ==
  pc = "idle" /\ file # NoFile =>
    /\ status => disk # Absent /\ Legible(disk) /\ Listing(disk) = Append(before, file)
    /\ ~status /\ (disk = Absent \/ Legible(disk)) => Listing(disk) = before

\* "Always finalize, even if adding failed for some reason, so we have a valid
\* central directory": an archive that was finalized can be read, unless the
\* file that failed left more behind the end record than the reader looks at.
FinalizedIsLegible ==
  pc \in {"close", "delete"} /\ finalized =>
    \/ Len(disk) - (at + Len(central) + 1) >= Window
    \/ Legible(disk) /\ Listing(disk) = IF status THEN Append(before, file) ELSE before

\* The archive is the list that AppendOnlyArchive describes: at no time, in
\* the middle of an addition or after the end of the process, does it read as
\* anything but the files before or after that addition.
Archive ==
  INSTANCE AppendOnlyArchive WITH
    log     <- IF disk = Absent \/ Legible(disk) THEN Listing(disk) ELSE before,
    legible <- disk = Absent \/ Legible(disk)
AppendOnly == Archive!ArchiveSpec
=============================================================================
