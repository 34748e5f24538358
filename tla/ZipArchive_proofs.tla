--------------------------- MODULE ZipArchive_proofs ---------------------------
(***************************************************************************)
(* The archive that is extended in place, for every set of files, however     *)
(* many pieces they have, every limit of the format and any number of         *)
(* additions: wherever a write fails or the process is killed, what can be     *)
(* read is the files before or after the addition, each of them whole.         *)
(***************************************************************************)
EXTENDS ZipArchive, TLAPS

-----------------------------------------------------------------------------
(* Cells and writes.                                                         *)

\* What a write may leave behind: a longer file of old and of new cells, the
\* last of which may be torn; nothing before the place of the write changes.
Changed(ofs, cells) ==
  /\ disk' \in Seq(Cells) /\ Len(disk) <= Len(disk')
  /\ Len(disk') <= Len(disk) \/ Len(disk') <= ofs + Len(cells)
  /\ \A i \in 1..Len(disk') :
       \/ i \in 1..Len(disk) /\ disk'[i] = disk[i]
       \/ i - ofs \in 1..Len(cells) /\ disk'[i] \in {cells[i - ofs], Torn}

\* The larger of two numbers, as Max chooses it.
LEMMA MaxOfTwo ==
  ASSUME NEW a \in Nat, NEW b \in Nat
  PROVE  Max({a, b}) = IF a >= b THEN a ELSE b
  <1> DEFINE m == IF a >= b THEN a ELSE b
  <1>1. m \in {a, b} /\ \A y \in {a, b} : m >= y
    OBVIOUS
  <1>2. \A x \in {a, b} : (\A y \in {a, b} : x >= y) => x = m
    OBVIOUS
  <1>3. QED
    BY <1>1, <1>2 DEF Max

\* Writing over a file at a place in it, or at its end (mz_zip_file_write_func).
LEMMA OverlayType ==
  ASSUME NEW d \in Seq(Cells), NEW ofs \in 0..Len(d), NEW cells \in Seq(Cells)
  PROVE  LET w == Overlay(d, ofs, cells) IN
         /\ w \in Seq(Cells)
         /\ Len(w) = IF Len(d) >= ofs + Len(cells) THEN Len(d) ELSE ofs + Len(cells)
         /\ \A i \in 1..Len(w) :
              w[i] = IF i - ofs \in 1..Len(cells) THEN cells[i - ofs] ELSE d[i]
  <1> DEFINE n == IF Len(d) >= ofs + Len(cells) THEN Len(d) ELSE ofs + Len(cells)
             w == Overlay(d, ofs, cells)
  <1>1. n \in Nat /\ Max({Len(d), ofs + Len(cells)}) = n
    BY MaxOfTwo
  <1>2. DOMAIN cells = 1..Len(cells)
    OBVIOUS
  <1>3. w = [i \in 1..n |-> IF i - ofs \in 1..Len(cells) THEN cells[i - ofs] ELSE d[i]]
    BY <1>1, <1>2 DEF Overlay
  <1>4. \A i \in 1..n : (IF i - ofs \in 1..Len(cells) THEN cells[i - ofs] ELSE d[i]) \in Cells
    OBVIOUS
  <1>5. QED
    BY <1>1, <1>3, <1>4

\* A write that succeeds.
LEMMA WritesChange ==
  ASSUME disk \in Seq(Cells), NEW ofs \in 0..Len(disk), NEW cells \in Seq(Cells), Writes(ofs, cells)
  PROVE  /\ Changed(ofs, cells) /\ ofs + Len(cells) <= Len(disk')
         /\ \A k \in 1..Len(cells) : disk'[ofs + k] = cells[k]
  <1>1. /\ disk' \in Seq(Cells)
        /\ Len(disk') = IF Len(disk) >= ofs + Len(cells) THEN Len(disk) ELSE ofs + Len(cells)
        /\ \A i \in 1..Len(disk') :
             disk'[i] = IF i - ofs \in 1..Len(cells) THEN cells[i - ofs] ELSE disk[i]
    BY OverlayType DEF Writes
  <1>2. Len(disk) <= Len(disk') /\ ofs + Len(cells) <= Len(disk')
    BY <1>1
  <1>3. Len(disk') <= Len(disk) \/ Len(disk') <= ofs + Len(cells)
    BY <1>1
  <1>4. ASSUME NEW k \in 1..Len(cells) PROVE disk'[ofs + k] = cells[k]
    <2>1. ofs + k \in 1..Len(disk') /\ (ofs + k) - ofs = k
      BY <1>1, <1>2
    <2>2. QED
      BY <1>1, <2>1
  <1>5. ASSUME NEW i \in 1..Len(disk'), i - ofs \notin 1..Len(cells)
        PROVE  i \in 1..Len(disk) /\ disk'[i] = disk[i]
    BY <1>1, <1>5
  <1>6. ASSUME NEW i \in 1..Len(disk'), i - ofs \in 1..Len(cells)
        PROVE  disk'[i] \in {cells[i - ofs], Torn}
    BY <1>1, <1>6
  <1>7. QED
    BY <1>1, <1>2, <1>3, <1>4, <1>5, <1>6 DEF Changed

\* A write that fails.
LEMMA FailsChange ==
  ASSUME disk \in Seq(Cells), NEW ofs \in 0..Len(disk), NEW cells \in Seq(Cells), Fails(ofs, cells)
  PROVE  Changed(ofs, cells)
  <1>1. PICK n \in 0..Len(cells) - 1 :
          \E part \in {SubSeq(cells, 1, n), Append(SubSeq(cells, 1, n), Torn)} :
            disk' = Overlay(disk, ofs, part)
    BY DEF Fails, Partial
  <1> PICK part \in {SubSeq(cells, 1, n), Append(SubSeq(cells, 1, n), Torn)} :
         disk' = Overlay(disk, ofs, part)
    BY <1>1
  <1>2. Torn \in Cells
    BY DEF Cells
  <1>3. /\ part \in Seq(Cells) /\ Len(part) <= Len(cells)
        /\ \A k \in 1..Len(part) : part[k] \in {cells[k], Torn}
    <2> DEFINE first == SubSeq(cells, 1, n)
    <2>1. first \in Seq(Cells) /\ Len(first) = n /\ \A k \in 1..n : first[k] = cells[k]
      OBVIOUS
    <2> HIDE DEF first
    <2>2. /\ Append(first, Torn) \in Seq(Cells) /\ Len(Append(first, Torn)) = n + 1
          /\ \A k \in 1..n + 1 : Append(first, Torn)[k] \in {cells[k], Torn}
      BY <1>2, <2>1
    <2>3. part \in {first, Append(first, Torn)}
      BY DEF first
    <2>4. n \in Nat /\ n < Len(cells)
      OBVIOUS
    <2>5. CASE part = first
      BY <2>1, <2>4, <2>5
    <2>6. CASE part = Append(first, Torn)
      BY <2>2, <2>4, <2>6
    <2>7. QED
      BY <2>3, <2>5, <2>6
  <1>4. /\ disk' \in Seq(Cells)
        /\ Len(disk') = IF Len(disk) >= ofs + Len(part) THEN Len(disk) ELSE ofs + Len(part)
        /\ \A i \in 1..Len(disk') :
             disk'[i] = IF i - ofs \in 1..Len(part) THEN part[i - ofs] ELSE disk[i]
    BY <1>3, OverlayType
  <1>5. /\ Len(disk) <= Len(disk')
        /\ Len(disk') <= Len(disk) \/ Len(disk') <= ofs + Len(cells)
    BY <1>3, <1>4
  <1>6. ASSUME NEW i \in 1..Len(disk'), i - ofs \notin 1..Len(part)
        PROVE  i \in 1..Len(disk) /\ disk'[i] = disk[i]
    BY <1>3, <1>4, <1>6
  <1>7. ASSUME NEW i \in 1..Len(disk'), i - ofs \in 1..Len(part)
        PROVE  i - ofs \in 1..Len(cells) /\ disk'[i] \in {cells[i - ofs], Torn}
    <2>1. disk'[i] = part[i - ofs]
      BY <1>4, <1>7
    <2>2. part[i - ofs] \in {cells[i - ofs], Torn}
      BY <1>3, <1>7
    <2>3. i - ofs \in 1..Len(cells)
      BY <1>3, <1>7
    <2>4. QED
      BY <2>1, <2>2, <2>3
  <1>8. QED
    BY <1>4, <1>5, <1>6, <1>7 DEF Changed

-----------------------------------------------------------------------------
(* What an archive can be read as.                                           *)

Names(dir) == [k \in DOMAIN dir |-> dir[k][2]]

\* The file of the entry e lies in d, whole and before the offset o.
WholeAt(d, e, o) ==
  LET f == e[2] p == e[3] IN
  /\ p + 2 + Pieces[f] <= o
  /\ d[p + 1] = Local(f) /\ d[p + 2] = Name(f)
  /\ \A k \in 1..Pieces[f] : d[p + 2 + k] = Piece(f, k)

\* A directory at the offset o has its files before it.
Holds(d, dir, o) ==
  /\ d \in Seq(Cells) /\ dir \in Seq(Entries) /\ o \in 0..Len(d)
  /\ dir = <<>> => o = 0
  /\ \A k \in 1..Len(dir) : WholeAt(d, dir[k], o)

\* The only end record there may be is that of dir at the offset o.
EndOf(d, dir, o) ==
  \A i \in 1..Len(d) : d[i][1] = "end" => i = o + Len(dir) + 1 /\ d[i] = End(Len(dir), o)

\* If d can be read it reads as dir: where the directory was there are entries
\* of it, or cells that are no entries.
ReadsAs(d, dir, o) ==
  /\ Holds(d, dir, o) /\ EndOf(d, dir, o)
  /\ \A k \in 1..Len(dir) : o + k \in 1..Len(d) /\ d[o + k][1] = "entry" => d[o + k] = dir[k]

\* d cannot be read: a file begins where its end record says the directory is.
Spoilt(d, dir, o) ==
  Holds(d, dir, o) /\ EndOf(d, dir, o) /\ o + 1 \in 1..Len(d) /\ d[o + 1][1] = "local"

\* The directory at o is complete, with its end record.
Complete(d, dir, o) ==
  /\ ReadsAs(d, dir, o)
  /\ o + Len(dir) + 1 \in 1..Len(d) /\ d[o + Len(dir) + 1] = End(Len(dir), o)
  /\ \A k \in 1..Len(dir) : d[o + k] = dir[k]

\* A cell, and what its first component says of it.
LEMMA CellKinds ==
  /\ \A f, p : Entry(f, p)[1] = "entry" /\ Entry(f, p)[2] = f /\ Entry(f, p)[3] = p
  /\ \A n, p : End(n, p)[1] = "end" /\ End(n, p)[2] = n /\ End(n, p)[3] = p
  /\ \A f : Local(f)[1] = "local" /\ Name(f)[1] = "name"
  /\ \A f, i : Piece(f, i)[1] = "data"
  /\ Hole[1] = "hole" /\ Torn[1] = "torn"
  BY DEF Entry, End, Local, Name, Piece, Hole, Torn

\* Entries are cells.
LEMMA EntryType ==
  ASSUME NEW e \in Entries
  PROVE  /\ e \in Cells /\ e[1] = "entry" /\ e[2] \in Files /\ e[3] \in Nat
         /\ e = Entry(e[2], e[3]) /\ Pieces[e[2]] \in Nat
  <1>1. PICK f \in Files, p \in Nat : e = Entry(f, p)
    BY DEF Entries, Entry
  <1>2. QED
    BY <1>1, CellKinds, SizeAssumption DEF Cells

\* Where there is one end record at most, it is the one that is found.
LEMMA OneEndRecord ==
  ASSUME NEW d \in Seq(Cells), NEW e \in 1..Len(d), d[e][1] = "end",
         \A i \in 1..Len(d) : d[i][1] = "end" => i = e
  PROVE  EndRecord(d) = {e}
  BY DEF EndRecord

\* An archive that reads as dir, and can be read, lists dir, and every file it
\* lists is whole (mz_zip_reader_read_central_dir).
LEMMA Reading ==
  ASSUME NEW d, NEW dir, NEW o, ReadsAs(d, dir, o), Legible(d)
  PROVE  /\ DirectoryAt(d) = o /\ DirectoryOf(d) = dir /\ Listing(d) = Names(dir)
         /\ Complete(d, dir, o) /\ Len(d) < o + Len(dir) + 1 + Window
  <1> DEFINE e == o + Len(dir) + 1
  <1>0. /\ d \in Seq(Cells) /\ dir \in Seq(Entries) /\ o \in 0..Len(d) /\ d # Absent
    BY DEF ReadsAs, Holds, Legible
  <1>1. PICK i \in EndRecord(d) :
          LET n == d[i][2] ofs == d[i][3] IN
          /\ Len(d) - i < Window
          /\ ofs + n <= Len(d)
          /\ \A k \in 1..n : d[ofs + k][1] = "entry"
    BY DEF Legible
  <1>2. i \in 1..Len(d) /\ d[i][1] = "end"
    BY <1>0, <1>1 DEF EndRecord
  <1>3. i = e /\ d[e] = End(Len(dir), o)
    BY <1>2 DEF ReadsAs, EndOf
  <1>4. EndRecord(d) = {e}
    BY <1>0, <1>2, <1>3, OneEndRecord DEF ReadsAs, EndOf
  <1>5. \A k \in 1..Len(dir) : o + k \in 1..Len(d) /\ d[o + k] = dir[k]
    <2>1. o + Len(dir) <= Len(d) /\ \A k \in 1..Len(dir) : d[o + k][1] = "entry"
      BY <1>1, <1>3, CellKinds
    <2>2. QED
      BY <1>0, <2>1 DEF ReadsAs
  <1>6. d[CHOOSE j \in EndRecord(d) : TRUE] = End(Len(dir), o)
    BY <1>3, <1>4
  <1>7. DirectoryAt(d) = o
    BY <1>6, CellKinds DEF DirectoryAt
  <1>8. DirectoryOf(d) = dir
    <2> DEFINE r == d[CHOOSE j \in EndRecord(d) : TRUE]
    <2>0. DirectoryOf(d) = SubSeq(d, r[3] + 1, r[3] + r[2])
      BY DEF DirectoryOf
    <2>1. r[2] = Len(dir) /\ r[3] = o
      BY <1>6, CellKinds
    <2> HIDE DEF r
    <2>2. SubSeq(d, o + 1, o + Len(dir)) = dir
      BY <1>0, <1>5
    <2>3. QED
      BY <2>0, <2>1, <2>2
  <1>9. Listing(d) = Names(dir)
    BY <1>0, <1>8 DEF Listing, Names
  <1>10. Complete(d, dir, o)
    BY <1>2, <1>3, <1>5 DEF Complete
  <1>11. Len(d) < o + Len(dir) + 1 + Window
    <2>1. Len(d) - (o + Len(dir) + 1) < Window
      BY <1>1, <1>3
    <2>2. o \in Nat /\ Len(dir) \in Nat /\ Len(d) \in Nat /\ Window \in Nat
      BY <1>0, SizeAssumption
    <2>3. QED
      BY <2>1, <2>2
  <1>12. QED
    BY <1>7, <1>8, <1>9, <1>10, <1>11

\* A spoilt archive cannot be read.
LEMMA NotReading ==
  ASSUME NEW d, NEW dir, NEW o, Spoilt(d, dir, o)
  PROVE  ~Legible(d)
  <1> SUFFICES ASSUME Legible(d) PROVE FALSE
    OBVIOUS
  <1>0. /\ d \in Seq(Cells) /\ dir \in Seq(Entries) /\ o \in 0..Len(d) /\ d # Absent
    BY DEF Spoilt, Holds, Legible
  <1>1. PICK i \in EndRecord(d) :
          LET n == d[i][2] ofs == d[i][3] IN \A k \in 1..n : d[ofs + k][1] = "entry"
    BY DEF Legible
  <1>2. i \in 1..Len(d) /\ d[i][1] = "end"
    BY <1>0, <1>1 DEF EndRecord
  <1>3. i = o + Len(dir) + 1 /\ d[i] = End(Len(dir), o)
    BY <1>2 DEF Spoilt, EndOf
  <1>4. \A k \in 1..Len(dir) : d[o + k][1] = "entry"
    BY <1>1, <1>3, CellKinds
  <1>5. Len(dir) = 0
    BY <1>0, <1>4 DEF Spoilt
  <1>6. QED
    BY <1>0, <1>2, <1>3, <1>5 DEF Spoilt

\* A complete directory is read, if the end record is near enough to the end.
LEMMA CompleteReading ==
  ASSUME NEW d, NEW dir, NEW o, Complete(d, dir, o), d # Absent,
         Len(d) < o + Len(dir) + 1 + Window
  PROVE  Legible(d)
  <1> DEFINE e == o + Len(dir) + 1
  <1>0. d \in Seq(Cells) /\ dir \in Seq(Entries) /\ o \in 0..Len(d) /\ Window \in Nat
    BY SizeAssumption DEF Complete, ReadsAs, Holds
  <1>1. e \in 1..Len(d) /\ d[e] = End(Len(dir), o)
    BY DEF Complete
  <1>2. EndRecord(d) = {e}
    BY <1>0, <1>1, OneEndRecord, CellKinds, SMTT(30) DEF Complete, ReadsAs, EndOf
  <1>3. ASSUME NEW k \in 1..Len(dir)
        PROVE  d[o + k][1] = "entry" /\ d[o + k][3] + 1 + Pieces[d[o + k][2]] <= Len(d)
    <2>1. d[o + k] = dir[k] /\ dir[k] \in Entries /\ WholeAt(d, dir[k], o)
      BY <1>0, <1>3 DEF Complete, ReadsAs, Holds
    <2>2. dir[k][3] + 2 + Pieces[dir[k][2]] <= o
      BY <2>1 DEF WholeAt
    <2>3. QED
      BY <1>0, <2>1, <2>2, EntryType, SMTT(30)
  <1>4. Len(d) - e < Window /\ o + Len(dir) <= Len(d)
    BY <1>0, <1>1
  <1>5. QED
    BY <1>1, <1>2, <1>3, <1>4, CellKinds DEF Legible

-----------------------------------------------------------------------------
(* What a write does to what the archive can be read as.                     *)

\* A single cell that was not written whole is torn, or as it was.
LEMMA FailsOfOne ==
  ASSUME disk \in Seq(Cells), NEW ofs \in 0..Len(disk), NEW c \in Cells, Fails(ofs, <<c>>)
  PROVE  Changed(ofs, <<Torn>>)
  <1>1. Torn \in Cells
    BY DEF Cells
  <1>2. PICK n \in 0..Len(<<c>>) - 1 :
          \E part \in {SubSeq(<<c>>, 1, n), Append(SubSeq(<<c>>, 1, n), Torn)} :
            disk' = Overlay(disk, ofs, part)
    BY DEF Fails, Partial
  <1>3. SubSeq(<<c>>, 1, n) = <<>> /\ Append(SubSeq(<<c>>, 1, n), Torn) = <<Torn>>
    <2>1. n = 0
      <3>1. Len(<<c>>) = 1
        OBVIOUS
      <3>2. QED
        BY <3>1
    <2>2. SubSeq(<<c>>, 1, 0) = <<>>
      OBVIOUS
    <2>3. Append(<<>>, Torn) = <<Torn>>
      OBVIOUS
    <2>4. QED
      BY <2>1, <2>2, <2>3
  <1>4. PICK part \in {<<>>, <<Torn>>} : disk' = Overlay(disk, ofs, part)
    BY <1>2, <1>3
  <1>5. CASE part = <<Torn>>
    <2>1. Writes(ofs, <<Torn>>) /\ <<Torn>> \in Seq(Cells)
      BY <1>1, <1>4, <1>5 DEF Writes
    <2>2. QED
      BY <2>1, WritesChange
  <1>6. CASE part = <<>>
    <2>1. Writes(ofs, <<>>) /\ <<>> \in Seq(Cells)
      BY <1>4, <1>6 DEF Writes
    <2>2. Changed(ofs, <<>>)
      BY <2>1, WritesChange
    <2>3. Len(<<>>) = 0 /\ Len(<<Torn>>) = 1
      OBVIOUS
    <2>4. QED
      BY <2>2, <2>3 DEF Changed
  <1>7. QED
    BY <1>4, <1>5, <1>6

\* What lies before the place of a write is not touched.
LEMMA Untouched ==
  ASSUME disk \in Seq(Cells), NEW ofs \in 0..Len(disk), NEW cells \in Seq(Cells),
         Changed(ofs, cells), NEW i \in 1..ofs
  PROVE  i \in 1..Len(disk) /\ i \in 1..Len(disk') /\ disk'[i] = disk[i]
  BY DEF Changed

\* A directory keeps its files when something is written behind its offset.
LEMMA HoldsOn ==
  ASSUME NEW dir, NEW o, Holds(disk, dir, o), NEW ofs \in o..Len(disk),
         NEW cells \in Seq(Cells), Changed(ofs, cells)
  PROVE  Holds(disk', dir, o)
  <1>1. disk \in Seq(Cells) /\ dir \in Seq(Entries) /\ o \in 0..Len(disk) /\ ofs \in 0..Len(disk)
    BY DEF Holds
  <1>2. disk' \in Seq(Cells) /\ o \in 0..Len(disk')
    BY <1>1 DEF Changed
  <1>3. ASSUME NEW k \in 1..Len(dir) PROVE WholeAt(disk', dir[k], o)
    <2> DEFINE p == dir[k][3]
               n == Pieces[dir[k][2]]
    <2>1. WholeAt(disk, dir[k], o)
      BY DEF Holds
    <2>2. p \in Nat /\ n \in Nat
      BY <1>1, EntryType
    <2>3. p + 2 + n <= o
      BY <2>1 DEF WholeAt
    <2> HIDE DEF p, n
    <2>4. p + 1 \in 1..ofs /\ p + 2 \in 1..ofs /\ \A j \in 1..n : p + 2 + j \in 1..ofs
      BY <1>1, <2>2, <2>3
    <2>5. \A i \in 1..ofs : disk'[i] = disk[i]
      BY <1>1, Untouched
    <2>6. QED
      BY <2>1, <2>4, <2>5 DEF WholeAt, p, n
  <1>4. QED
    BY <1>1, <1>2, <1>3 DEF Holds

\* Cells that do not say anything but what dir at the offset o says.
Suited(ofs, cells, dir, o) ==
  \A k \in 1..Len(cells) :
    /\ cells[k][1] = "end" => ofs + k = o + Len(dir) + 1 /\ cells[k] = End(Len(dir), o)
    /\ cells[k][1] = "entry" =>
         \A j \in 1..Len(dir) : ofs + k = o + j => cells[k] = dir[j]

\* Suited cells leave the end record that there may be.
LEMMA EndsOn ==
  ASSUME disk \in Seq(Cells), NEW dir, NEW o, EndOf(disk, dir, o), NEW ofs \in 0..Len(disk),
         NEW cells \in Seq(Cells), Changed(ofs, cells), Suited(ofs, cells, dir, o)
  PROVE  EndOf(disk', dir, o)
  <1> SUFFICES ASSUME NEW i \in 1..Len(disk'), disk'[i][1] = "end"
               PROVE  i = o + Len(dir) + 1 /\ disk'[i] = End(Len(dir), o)
    BY DEF EndOf
  <1>1. CASE i \in 1..Len(disk) /\ disk'[i] = disk[i]
    BY <1>1 DEF EndOf
  <1>2. CASE i - ofs \in 1..Len(cells) /\ disk'[i] \in {cells[i - ofs], Torn}
    <2>1. disk'[i] = cells[i - ofs]
      BY <1>2, CellKinds
    <2>2. ofs + (i - ofs) = i
      OBVIOUS
    <2>3. QED
      BY <1>2, <2>1, <2>2 DEF Suited
  <1>3. QED
    BY <1>1, <1>2 DEF Changed

\* What is suited and lies behind the offset o does not change what can be read.
LEMMA ReadsOn ==
  ASSUME NEW dir, NEW o, ReadsAs(disk, dir, o), NEW ofs \in o..Len(disk),
         NEW cells \in Seq(Cells), Changed(ofs, cells), Suited(ofs, cells, dir, o)
  PROVE  ReadsAs(disk', dir, o)
  <1>1. disk \in Seq(Cells) /\ dir \in Seq(Entries) /\ o \in 0..Len(disk) /\ ofs \in 0..Len(disk)
    BY DEF Holds, ReadsAs
  <1>2. Holds(disk', dir, o) /\ EndOf(disk', dir, o)
    BY <1>1, HoldsOn, EndsOn DEF ReadsAs
  <1>3. ASSUME NEW k \in 1..Len(dir), NEW i \in 1..Len(disk'), i = o + k, disk'[i][1] = "entry"
        PROVE  disk'[i] = dir[k]
    <2>1. CASE i \in 1..Len(disk) /\ disk'[i] = disk[i]
      BY <1>3, <2>1 DEF ReadsAs
    <2>2. CASE i - ofs \in 1..Len(cells) /\ disk'[i] \in {cells[i - ofs], Torn}
      <3>1. disk'[i] = cells[i - ofs]
        BY <1>3, <2>2, CellKinds
      <3>2. ofs + (i - ofs) = o + k
        BY <1>1, <1>3
      <3>3. QED
        BY <1>3, <2>2, <3>1, <3>2 DEF Suited
    <2>3. QED
      BY <2>1, <2>2 DEF Changed
  <1>4. QED
    BY <1>2, <1>3 DEF ReadsAs

\* A spoilt archive stays so when no end record is written.
LEMMA SpoiltOn ==
  ASSUME NEW dir, NEW o, Spoilt(disk, dir, o), NEW ofs \in o + 1..Len(disk),
         NEW cells \in Seq(Cells), Changed(ofs, cells),
         \A k \in 1..Len(cells) : cells[k][1] # "end"
  PROVE  Spoilt(disk', dir, o)
  <1>1. disk \in Seq(Cells) /\ dir \in Seq(Entries) /\ o \in 0..Len(disk)
        /\ ofs \in 0..Len(disk) /\ ofs \in o..Len(disk)
    BY DEF Spoilt, Holds
  <1>2. Holds(disk', dir, o)
    BY <1>1, HoldsOn DEF Spoilt
  <1>3. EndOf(disk', dir, o)
    <2> SUFFICES ASSUME NEW i \in 1..Len(disk'), disk'[i][1] = "end"
                 PROVE  i = o + Len(dir) + 1 /\ disk'[i] = End(Len(dir), o)
      BY DEF EndOf
    <2>1. CASE i \in 1..Len(disk) /\ disk'[i] = disk[i]
      BY <2>1 DEF EndOf, Spoilt
    <2>2. CASE i - ofs \in 1..Len(cells) /\ disk'[i] \in {cells[i - ofs], Torn}
      BY <2>2, CellKinds
    <2>3. QED
      BY <2>1, <2>2 DEF Changed
  <1>4. o + 1 \in 1..Len(disk') /\ disk'[o + 1] = disk[o + 1]
    BY <1>1, Untouched
  <1>5. QED
    BY <1>2, <1>3, <1>4 DEF Spoilt

-----------------------------------------------------------------------------
(* The invariant.                                                            *)

\* The files that the archive holds, whether it can be read now or not.
Logged == IF finalized /\ status THEN Append(before, file) ELSE before

Types ==
  /\ disk \in Seq(Cells) \cup {Absent} /\ pc \in Stopped \cup Steps
  /\ file \in Files \cup {NoFile} /\ (pc \in Steps => file \in Files)
  /\ central \in Seq(Entries) /\ at \in Nat /\ done \in Nat
  /\ status \in BOOLEAN /\ created \in BOOLEAN /\ finalized \in BOOLEAN
  /\ before \in Seq(Files) /\ adds \in 0..MaxAdds
  /\ pc \in Steps \ {"open"} => disk \in Seq(Cells) /\ at <= Len(disk)

\* What is read, if anything, is what was logged.
Sound ==
  disk # Absent =>
    \E dir \in Seq(Entries), o \in Nat :
      (ReadsAs(disk, dir, o) /\ Names(dir) = Logged) \/ Spoilt(disk, dir, o)

\* How the flags go together, and what a new archive has.
Flags ==
  /\ disk = Absent => before = <<>> /\ ~(finalized /\ status)
  /\ created /\ pc \in Steps => before = <<>>
  /\ finalized /\ status => disk # Absent /\ Legible(disk) /\ file # NoFile
  /\ pc \in {"close", "delete", "idle"} /\ file # NoFile /\ status => finalized
  /\ pc \in Steps \ {"close", "delete"} => ~finalized
  /\ pc \in {"open", "reader", "hole", "name", "data", "header"} => status

\* The file is not in the directory yet, or never will be.
Unadded == pc \in {"hole", "name", "data", "header"} \/ (pc \in {"directory", "end"} /\ ~status)
Added   == pc \in {"directory", "end"} /\ status

\* The directory of the archive as it was, at o, and the file that follows it.
Extends(dir, o) ==
  /\ central = Append(dir, Entry(file, o)) /\ at = o + 2 + Pieces[file]
  /\ Names(dir) = before
  /\ Spoilt(disk, dir, o) /\ Holds(disk, central, at)
  /\ Len(disk) < at + Len(central) + 1 + Window

\* What each step of an addition has to go on with.
Stage ==
  /\ pc = "reader" => Legible(disk) /\ central = DirectoryOf(disk)
  /\ Unadded => ReadsAs(disk, central, at) /\ Names(central) = before
  /\ Added => \E dir \in Seq(Entries), o \in Nat : Extends(dir, o)
  /\ pc = "end" =>
       at + Len(central) <= Len(disk) /\ \A k \in 1..Len(central) : disk[at + k] = central[k]
  /\ pc \in {"close", "delete"} /\ finalized =>
       Complete(disk, central, at) /\ Names(central) = Logged

\* How far the file has been written.
Progress ==
  /\ pc \in {"open", "reader", "hole", "name"} => done = 0
  /\ pc \in {"name", "data", "header"} => at + 1 <= Len(disk)
  /\ pc \in {"data", "header"} =>
       /\ at + 2 + done <= Len(disk) /\ done <= Pieces[file] /\ disk[at + 2] = Name(file)
       /\ \A k \in 1..done : disk[at + 2 + k] = Piece(file, k)
  /\ pc = "header" => done = Pieces[file]
  /\ pc \in {"hole", "name", "data", "header"} =>
       \/ Len(disk) < at + Len(central) + 1 + Window
       \/ Len(disk) <= at + 2 + done

ZipInv == Types /\ Sound /\ Flags /\ Stage /\ Progress

\* The cells that are written.
LEMMA CellTypes ==
  /\ Hole \in Cells /\ Torn \in Cells
  /\ \A f \in Files : Local(f) \in Cells /\ Name(f) \in Cells
  /\ \A f \in Files, i \in Nat : Piece(f, i) \in Cells /\ Entry(f, i) \in Entries
  /\ \A n, p \in Nat : End(n, p) \in Cells
  BY DEF Cells, Entries, Hole, Torn, Local, Name, Piece, Entry, End

\* An archive that can be read lists what was logged.
LEMMA WhatIsRead ==
  ASSUME Sound, Legible(disk)
  PROVE  \E dir \in Seq(Entries), o \in Nat :
           /\ ReadsAs(disk, dir, o) /\ Complete(disk, dir, o)
           /\ DirectoryAt(disk) = o /\ DirectoryOf(disk) = dir
           /\ Names(dir) = Logged /\ Listing(disk) = Logged
           /\ Len(disk) < o + Len(dir) + 1 + Window
  <1>1. disk # Absent
    BY DEF Legible
  <1>2. PICK dir \in Seq(Entries) : \E o \in Nat :
          (ReadsAs(disk, dir, o) /\ Names(dir) = Logged) \/ Spoilt(disk, dir, o)
    BY <1>1 DEF Sound
  <1>3. PICK o \in Nat : (ReadsAs(disk, dir, o) /\ Names(dir) = Logged) \/ Spoilt(disk, dir, o)
    BY <1>2
  <1>4. ReadsAs(disk, dir, o) /\ Names(dir) = Logged
    BY <1>3, NotReading
  <1>5. QED
    BY <1>4, Reading

\* Initially there is no archive.
LEMMA ZipStarts == Init => ZipInv
  <1> SUFFICES ASSUME Init PROVE ZipInv
    OBVIOUS
  <1>1. Types
    <2>1. pc \in Stopped /\ pc \notin Steps
      BY DEF Init, Stopped, Steps
    <2>2. disk \in Seq(Cells) \cup {Absent} /\ file \in Files \cup {NoFile}
      BY DEF Init
    <2>3. central \in Seq(Entries) /\ before \in Seq(Files)
      BY DEF Init
    <2>4. adds \in 0..MaxAdds /\ at \in Nat /\ done \in Nat
      BY SizeAssumption DEF Init
    <2>5. status \in BOOLEAN /\ created \in BOOLEAN /\ finalized \in BOOLEAN
      BY DEF Init
    <2>6. QED
      BY <2>1, <2>2, <2>3, <2>4, <2>5 DEF Types
  <1>2. Sound /\ Flags /\ Stage /\ Progress
    BY DEF Init, Sound, Flags, Stage, Progress, Unadded, Added, Steps
  <1>3. QED
    BY <1>1, <1>2 DEF ZipInv

\* A step that leaves the archive and its list alone.
LEMMA SoundStays ==
  ASSUME Sound, UNCHANGED disk, Logged' = Logged
  PROVE  Sound'
  BY DEF Sound

\* Whoever asks for a file to be added finds what is in the archive.
LEMMA StepBegin ==
  ASSUME ZipInv, NEW f \in Files, Begin(f)
  PROVE  ZipInv' /\ Logged' = Logged
  <1>0. Types /\ Sound /\ Flags /\ UNCHANGED disk
    BY DEF ZipInv, Begin
  <1>1. before' = Logged
    <2>1. CASE disk = Absent
      BY <1>0, <2>1 DEF Begin, Listing, Flags, Logged
    <2>2. CASE disk # Absent /\ Legible(disk)
      BY <1>0, <2>2, WhatIsRead DEF Begin
    <2>3. CASE disk # Absent /\ ~Legible(disk)
      BY <1>0, <2>3 DEF Begin, Flags, Logged
    <2>4. QED
      BY <2>1, <2>2, <2>3
  <1>2. Logged' = Logged
    BY <1>1 DEF Begin, Logged
  <1>3. Logged \in Seq(Files)
    <2>1. finalized /\ status => file \in Files
      BY <1>0 DEF Types, Flags, Begin, Stopped, Steps
    <2>2. QED
      BY <1>0, <2>1 DEF Types, Logged
  <1>4. Types'
    <2>1. pc' \in Stopped \cup Steps /\ pc' \notin Steps \ {"open"}
      BY DEF Begin, Stopped, Steps
    <2>2. disk' \in Seq(Cells) \cup {Absent} /\ file' \in Files
      BY <1>0 DEF Types, Begin
    <2>3. central' \in Seq(Entries) /\ before' \in Seq(Files)
      BY <1>1, <1>3 DEF Begin
    <2>4. adds' \in 0..MaxAdds /\ at' \in Nat /\ done' \in Nat
      BY <1>0, SizeAssumption DEF Types, Begin
    <2>5. status' \in BOOLEAN /\ created' \in BOOLEAN /\ finalized' \in BOOLEAN
      BY DEF Begin, ValidName
    <2>6. QED
      BY <2>1, <2>2, <2>3, <2>4, <2>5 DEF Types
  <1>5. Sound'
    BY <1>0, <1>2, SoundStays
  <1>6. Flags'
    BY <1>0, <1>1 DEF Begin, Flags, Steps, ValidName, Logged
  <1>7. Stage' /\ Progress'
    BY DEF Begin, Stage, Progress, Unadded, Added
  <1>8. QED
    BY <1>2, <1>4, <1>5, <1>6, <1>7 DEF ZipInv

\* mz_zip_writer_init_file makes an archive without files.
LEMMA StepOpenNew ==
  ASSUME ZipInv, OpenNew
  PROVE  ZipInv' /\ Logged' = Logged
  <1>0. Types /\ Flags /\ Progress /\ pc = "open" /\ disk = Absent /\ disk' = <<>>
    BY DEF ZipInv, OpenNew
  <1>1. before = <<>> /\ ~finalized /\ Logged = <<>> /\ Logged' = Logged
    BY <1>0 DEF OpenNew, Flags, Logged, Steps
  <1>2. ReadsAs(<<>>, <<>>, 0)
    BY DEF ReadsAs, Holds, EndOf
  <1>3. Names(<<>>) = <<>>
    BY DEF Names
  <1>4. Sound'
    <2>1. <<>> \in Seq(Entries) /\ 0 \in Nat
      OBVIOUS
    <2>2. ReadsAs(disk', <<>>, 0) /\ Names(<<>>) = Logged'
      BY <1>0, <1>1, <1>2, <1>3
    <2>3. QED
      BY <2>1, <2>2 DEF Sound
  <1>5. Types'
    <2>1. pc' \in Steps /\ disk' \in Seq(Cells) /\ central' \in Seq(Entries)
          /\ at' = 0 /\ at' <= Len(disk') /\ created' = TRUE
      BY <1>0 DEF OpenNew, InitWriter, Steps
    <2>2. UNCHANGED <<file, done, status, finalized, before, adds>> /\ pc \in Steps
      BY <1>0 DEF OpenNew, Steps
    <2>3. QED
      BY <1>0, <2>1, <2>2 DEF Types
  <1>6. Flags'
    BY <1>0, <1>1, AbsentAssumption DEF OpenNew, Flags, Steps
  <1>7. Stage'
    BY <1>0, <1>1, <1>2, <1>3 DEF OpenNew, InitWriter, Stage, Unadded, Added
  <1>8. Progress'
    BY <1>0, SizeAssumption DEF OpenNew, InitWriter, Progress
  <1>9. QED
    BY <1>1, <1>4, <1>5, <1>6, <1>7, <1>8 DEF ZipInv

\* mz_zip_reader_init_file reads the directory.
LEMMA StepOpenReader ==
  ASSUME ZipInv, OpenReader
  PROVE  ZipInv' /\ Logged' = Logged
  <1>0. /\ Types /\ Sound /\ Flags /\ Progress /\ pc = "open" /\ pc' = "reader"
        /\ disk # Absent /\ Legible(disk) /\ disk' = disk /\ disk \in Seq(Cells)
    BY DEF ZipInv, OpenReader, Types
  <1>1. Logged' = Logged
    BY DEF OpenReader, Logged
  <1>2. central' = DirectoryOf(disk) /\ central' \in Seq(Entries)
    BY <1>0, WhatIsRead DEF OpenReader
  <1>3. Types'
    <2>1. pc' \in Steps /\ at' \in Nat /\ at' <= Len(disk')
      BY <1>0 DEF OpenReader, InitReader, Steps
    <2>2. UNCHANGED <<file, done, status, created, finalized, before, adds>> /\ pc \in Steps
      BY <1>0 DEF OpenReader, Steps
    <2>3. QED
      BY <1>0, <1>2, <2>1, <2>2 DEF Types
  <1>4. Sound'
    BY <1>0, <1>1, SoundStays
  <1>5. Flags'
    BY <1>0 DEF OpenReader, Flags, Steps
  <1>6. Stage' /\ Progress'
    BY <1>0, <1>2 DEF OpenReader, Stage, Progress, Unadded, Added
  <1>7. QED
    BY <1>1, <1>3, <1>4, <1>5, <1>6 DEF ZipInv

\* mz_zip_writer_init_from_reader goes on where the directory is.
LEMMA StepWriteOn ==
  ASSUME ZipInv, WriteOnFromReader
  PROVE  ZipInv' /\ Logged' = Logged
  <1>0. /\ Types /\ Sound /\ Flags /\ Progress /\ pc = "reader" /\ pc' = "hole"
        /\ Legible(disk) /\ disk' = disk /\ disk # Absent
        /\ central = DirectoryOf(disk) /\ central' = central /\ at' = DirectoryAt(disk)
        /\ UNCHANGED <<file, done, status, created, finalized, before, adds>>
    BY DEF ZipInv, WriteOnFromReader, Stage, Legible
  <1>1. Logged' = Logged /\ Logged = before
    BY <1>0 DEF Logged, Flags, Steps
  <1>2. PICK dir \in Seq(Entries), o \in Nat :
          /\ ReadsAs(disk, dir, o)
          /\ DirectoryAt(disk) = o /\ DirectoryOf(disk) = dir
          /\ Names(dir) = Logged
          /\ Len(disk) < o + Len(dir) + 1 + Window
    BY <1>0, WhatIsRead
  <1>3. Types'
    <2>1. pc' \in Steps /\ pc \in Steps
      BY <1>0 DEF Steps
    <2>2. disk' \in Seq(Cells) /\ at' \in Nat /\ at' <= Len(disk')
      BY <1>0, <1>2 DEF ReadsAs, Holds
    <2>3. QED
      BY <1>0, <2>1, <2>2 DEF Types
  <1>4. Sound'
    BY <1>0, <1>1, SoundStays
  <1>5. Flags'
    BY <1>0 DEF Flags, Steps
  <1>6. Stage'
    BY <1>0, <1>1, <1>2 DEF Stage, Unadded, Added
  <1>7. Progress'
    BY <1>0, <1>2 DEF Progress
  <1>8. QED
    BY <1>1, <1>3, <1>4, <1>5, <1>6, <1>7 DEF ZipInv

\* What ends the call, or the process, before or behind the writes.
LEMMA StepEnds ==
  ASSUME ZipInv, OpenFails \/ EndWriter \/ Killed
  PROVE  ZipInv' /\ Logged' = Logged
  <1>0. /\ Types /\ Sound /\ Flags /\ Stage /\ pc \in Steps
        /\ UNCHANGED <<disk, file, central, at, done, created, finalized, before, adds>>
    BY DEF ZipInv, OpenFails, EndWriter, Killed, Steps
  <1>1. \/ pc \in {"open", "reader"} /\ pc' = "idle" /\ status' = FALSE
        \/ pc = "close" /\ pc' = "delete" /\ status' = status
        \/ pc' = "killed" /\ status' = status
    BY DEF OpenFails, EndWriter, Killed
  <1>2. Logged' = Logged
    BY <1>0, <1>1 DEF Logged, Flags, Steps
  <1>3. Types'
    <2>1. pc' \in Stopped \cup Steps /\ status' \in BOOLEAN
      BY <1>0, <1>1 DEF Types, Stopped, Steps
    <2>2. pc' \in Steps \ {"open"} => pc \in Steps \ {"open"}
      BY <1>1 DEF Steps
    <2>3. QED
      BY <1>0, <2>1, <2>2 DEF Types
  <1>4. Sound'
    BY <1>0, <1>2, SoundStays
  <1>5. Flags'
    BY <1>0, <1>1 DEF Flags, Steps
  <1>6. Stage' /\ Progress'
    BY <1>0, <1>1, <1>2 DEF Stage, Progress, Unadded, Added, Steps
  <1>7. QED
    BY <1>2, <1>3, <1>4, <1>5, <1>6 DEF ZipInv

\* mz_zip_writer_add_mem_ex gives up before it writes, or has written the data.
LEMMA StepDecides ==
  ASSUME ZipInv, CannotAdd \/ DataComplete
  PROVE  ZipInv' /\ Logged' = Logged
  <1>0. /\ Types /\ Sound /\ Flags /\ Stage /\ Progress /\ pc \in {"hole", "data"}
        /\ UNCHANGED <<disk, file, central, at, done, created, finalized, before, adds>>
    BY DEF ZipInv, CannotAdd, DataComplete
  <1>1. \/ pc' = "directory" /\ status' = FALSE
        \/ pc = "data" /\ done = Pieces[file] /\ pc' = "header" /\ status' = status
    BY DEF CannotAdd, DataComplete, AddFails
  <1>2. Logged' = Logged
    BY <1>0, <1>1 DEF Logged, Flags, Steps
  <1>3. Types'
    <2>1. pc' \in Stopped \cup Steps /\ status' \in BOOLEAN
      BY <1>0, <1>1 DEF Types, Stopped, Steps
    <2>2. pc \in Steps \ {"open"}
      BY <1>0 DEF Steps
    <2>3. QED
      BY <1>0, <2>1, <2>2 DEF Types
  <1>4. Sound'
    BY <1>0, <1>2, SoundStays
  <1>5. Flags'
    BY <1>0, <1>1 DEF Flags, Steps
  <1>6. Stage' /\ Progress'
    BY <1>0, <1>1 DEF Stage, Progress, Unadded, Added
  <1>7. QED
    BY <1>2, <1>3, <1>4, <1>5, <1>6 DEF ZipInv

\* A new archive that is deleted had no files.
LEMMA StepDeleteNew ==
  ASSUME ZipInv, DeleteNew
  PROVE  ZipInv' /\ Logged' = Logged
  <1>0. /\ Types /\ Sound /\ Flags /\ pc = "delete" /\ pc' = "idle"
        /\ UNCHANGED <<file, central, at, done, status, created, finalized, before, adds>>
        /\ (~status /\ created /\ disk' = Absent) \/ disk' = disk
    BY DEF ZipInv, DeleteNew
  <1>1. Logged' = Logged
    BY <1>0 DEF Logged
  <1>2. Types'
    BY <1>0 DEF Types, Stopped, Steps
  <1>3. Sound'
    BY <1>0, <1>1, SoundStays DEF Sound
  <1>4. Flags'
    BY <1>0 DEF Flags, Steps
  <1>5. Stage' /\ Progress'
    BY <1>0 DEF Stage, Progress, Unadded, Added
  <1>6. QED
    BY <1>1, <1>2, <1>3, <1>4, <1>5 DEF ZipInv

\* The next run removes the archive: there is no list any more.
LEMMA StepRemoveArchive ==
  ASSUME ZipInv, RemoveArchive
  PROVE  ZipInv' /\ Logged' = <<>>
  <1>0. /\ Types /\ pc' = "idle" /\ disk' = Absent /\ before' = <<>> /\ status' = FALSE
        /\ file' = NoFile /\ UNCHANGED <<central, at, done, created, finalized, adds>>
    BY DEF ZipInv, RemoveArchive
  <1>1. Types'
    <2>1. pc' \in Stopped /\ pc' \notin Steps
      BY <1>0 DEF Stopped, Steps
    <2>2. before' \in Seq(Files)
      BY <1>0
    <2>3. disk' \in {Absent} /\ status' \in BOOLEAN
      BY <1>0
    <2>4. QED
      BY <1>0, <2>1, <2>2, <2>3 DEF Types
  <1>2. Sound' /\ Flags' /\ Stage' /\ Progress'
    BY <1>0 DEF Sound, Flags, Stage, Progress, Unadded, Added, Steps
  <1>3. QED
    BY <1>0, <1>1, <1>2 DEF ZipInv, Logged

-----------------------------------------------------------------------------
(* The writes of an addition.                                                *)

\* A cell of a file, written behind the offset of the directory.
LEMMA WriteOne ==
  ASSUME NEW dir, NEW o, ReadsAs(disk, dir, o), NEW ofs \in o..Len(disk),
         NEW c \in Cells, c[1] \notin {"end", "entry"}, Writes(ofs, <<c>>) \/ Fails(ofs, <<c>>)
  PROVE  /\ ReadsAs(disk', dir, o) /\ disk' \in Seq(Cells) /\ Len(disk) <= Len(disk')
         /\ Len(disk') <= Len(disk) \/ Len(disk') <= ofs + 1
         /\ \A i \in 1..ofs : disk'[i] = disk[i]
         /\ Writes(ofs, <<c>>) => ofs + 1 <= Len(disk') /\ disk'[ofs + 1] = c
  <1>0. /\ disk \in Seq(Cells) /\ o \in Nat /\ ofs \in 0..Len(disk)
        /\ Torn \in Cells /\ Torn[1] \notin {"end", "entry"}
    BY CellTypes, CellKinds DEF ReadsAs, Holds
  <1>1. ASSUME NEW x \in Cells, x[1] \notin {"end", "entry"}, Changed(ofs, <<x>>)
        PROVE  /\ ReadsAs(disk', dir, o) /\ disk' \in Seq(Cells) /\ Len(disk) <= Len(disk')
               /\ Len(disk') <= Len(disk) \/ Len(disk') <= ofs + 1
               /\ \A i \in 1..ofs : disk'[i] = disk[i]
    <2>1. <<x>> \in Seq(Cells) /\ Len(<<x>>) = 1 /\ <<x>>[1] = x
      OBVIOUS
    <2>2. Suited(ofs, <<x>>, dir, o)
      BY <1>1, <2>1 DEF Suited
    <2>3. ReadsAs(disk', dir, o)
      BY <1>1, <2>1, <2>2, ReadsOn
    <2>4. \A i \in 1..ofs : disk'[i] = disk[i]
      BY <1>0, <1>1, <2>1, Untouched
    <2>5. QED
      BY <1>1, <2>1, <2>3, <2>4 DEF Changed
  <1>2. CASE Writes(ofs, <<c>>)
    <2>1. <<c>> \in Seq(Cells) /\ Len(<<c>>) = 1 /\ <<c>>[1] = c /\ 1 \in 1..Len(<<c>>)
      OBVIOUS
    <2>2. /\ Changed(ofs, <<c>>) /\ ofs + Len(<<c>>) <= Len(disk')
          /\ \A k \in 1..Len(<<c>>) : disk'[ofs + k] = <<c>>[k]
      BY <1>0, <1>2, <2>1, WritesChange
    <2>3. ofs + 1 <= Len(disk') /\ disk'[ofs + 1] = c
      BY <2>1, <2>2
    <2>4. QED
      BY <1>1, <2>2, <2>3
  <1>3. CASE Fails(ofs, <<c>>) /\ ~Writes(ofs, <<c>>)
    BY <1>0, <1>1, <1>3, FailsOfOne
  <1>4. QED
    BY <1>2, <1>3

\* What holds after such a write, whether it went well or not.
LEMMA AfterCell ==
  ASSUME ZipInv, pc \in {"hole", "name", "data", "header"},
         NEW ofs \in at..Len(disk), NEW c \in Cells, c[1] \notin {"end", "entry"},
         Writes(ofs, <<c>>) \/ Fails(ofs, <<c>>),
         UNCHANGED <<file, central, at, created, finalized, before, adds>>, done' \in Nat,
         \/ pc' \in {"name", "data"} /\ status' = status
         \/ AddFails
  PROVE  Types' /\ Sound' /\ Flags' /\ Stage' /\ Logged' = Logged
  <1>0. /\ Types /\ Sound /\ Flags /\ pc \in Steps /\ pc \in Steps \ {"open"}
        /\ ReadsAs(disk, central, at) /\ Names(central) = before
    BY DEF ZipInv, Stage, Unadded, Steps
  <1>1. \/ pc' \in {"name", "data"} /\ status' = TRUE
        \/ pc' = "directory" /\ status' = FALSE
    BY <1>0 DEF AddFails, Flags
  <1>2. ReadsAs(disk', central, at) /\ disk' \in Seq(Cells) /\ Len(disk) <= Len(disk')
    BY <1>0, WriteOne
  <1>3. ~finalized /\ ~finalized'
    BY <1>0 DEF Flags, Steps
  <1>4. Logged = before /\ Logged' = before /\ before' = before
    BY <1>3 DEF Logged
  <1>5. Types'
    <2>1. pc' \in Steps /\ status' \in BOOLEAN
      BY <1>1 DEF Steps
    <2>2. at' <= Len(disk')
      <3>1. at <= Len(disk) /\ at \in Nat /\ disk \in Seq(Cells)
        BY <1>0 DEF Types
      <3>2. QED
        BY <1>2, <3>1
    <2>3. QED
      BY <1>0, <1>2, <2>1, <2>2 DEF Types
  <1>6. Sound'
    <2>1. central \in Seq(Entries) /\ at \in Nat
      BY <1>0 DEF Types
    <2>2. ReadsAs(disk', central, at) /\ Names(central) = Logged'
      BY <1>0, <1>2, <1>4
    <2>3. QED
      BY <2>1, <2>2 DEF Sound
  <1>7. Flags'
    <2>1. disk' # Absent
      BY <1>2, AbsentAssumption
    <2>2. QED
      BY <1>0, <1>1, <1>3, <2>1 DEF Flags, Steps
  <1>8. Stage'
    BY <1>0, <1>1, <1>2 DEF Stage, Unadded, Added
  <1>9. QED
    BY <1>4, <1>5, <1>6, <1>7, <1>8

\* The place of the local header.
LEMMA StepWriteHole ==
  ASSUME ZipInv, WriteHole
  PROVE  ZipInv' /\ Logged' = Logged
  <1>0. /\ Types /\ Progress /\ pc = "hole" /\ ReadsAs(disk, central, at)
        /\ UNCHANGED <<file, central, at, done, created, finalized, before, adds>>
    BY DEF ZipInv, Stage, Unadded, WriteHole
  <1>1. at \in at..Len(disk) /\ at \in Nat /\ done = 0 /\ disk \in Seq(Cells)
    BY <1>0 DEF Types, Progress, Steps
  <1>2. Hole \in Cells /\ Hole[1] \notin {"end", "entry"}
    BY CellTypes, CellKinds
  <1>3. \/ Writes(at, <<Hole>>) /\ pc' = "name" /\ status' = status
        \/ Fails(at, <<Hole>>) /\ AddFails
    BY DEF WriteHole
  <1>4. Types' /\ Sound' /\ Flags' /\ Stage' /\ Logged' = Logged
    BY <1>0, <1>1, <1>2, <1>3, AfterCell
  <1>5. Progress'
    <2>1. CASE AddFails
      BY <2>1 DEF AddFails, Progress
    <2>2. CASE Writes(at, <<Hole>>) /\ pc' = "name"
      <3>1. /\ at + 1 <= Len(disk') /\ disk' \in Seq(Cells)
            /\ Len(disk') <= Len(disk) \/ Len(disk') <= at + 1
        BY <1>0, <1>1, <1>2, <2>2, WriteOne
      <3>2. Len(disk) < at + Len(central) + 1 + Window \/ Len(disk) <= at + 2 + done
        BY <1>0 DEF Progress
      <3>3. central \in Seq(Entries) /\ Window \in Nat
        BY <1>0, SizeAssumption DEF Types
      <3>4. \/ Len(disk') < at + Len(central) + 1 + Window
            \/ Len(disk') <= at + 2 + done
        BY <1>1, <3>1, <3>2, <3>3
      <3>5. QED
        BY <1>0, <1>1, <2>2, <3>1, <3>4 DEF Progress
    <2>3. QED
      BY <1>3, <2>1, <2>2
  <1>6. QED
    BY <1>4, <1>5 DEF ZipInv

\* The name of the file.
LEMMA StepWriteName ==
  ASSUME ZipInv, WriteName
  PROVE  ZipInv' /\ Logged' = Logged
  <1>0. /\ Types /\ Progress /\ pc = "name" /\ ReadsAs(disk, central, at)
        /\ UNCHANGED <<file, central, at, done, created, finalized, before, adds>>
    BY DEF ZipInv, Stage, Unadded, WriteName
  <1>1. /\ at + 1 \in at..Len(disk) /\ at \in Nat /\ done = 0 /\ disk \in Seq(Cells)
        /\ file \in Files /\ Pieces[file] \in Nat
    BY <1>0, SizeAssumption DEF Types, Progress, Steps
  <1>2. Name(file) \in Cells /\ Name(file)[1] \notin {"end", "entry"}
    BY <1>1, CellTypes, CellKinds
  <1>3. \/ Writes(at + 1, <<Name(file)>>) /\ pc' = "data" /\ status' = status
        \/ Fails(at + 1, <<Name(file)>>) /\ AddFails
    BY DEF WriteName
  <1>4. Types' /\ Sound' /\ Flags' /\ Stage' /\ Logged' = Logged
    BY <1>0, <1>1, <1>2, <1>3, AfterCell
  <1>5. Progress'
    <2>1. CASE AddFails
      BY <2>1 DEF AddFails, Progress
    <2>2. CASE Writes(at + 1, <<Name(file)>>) /\ pc' = "data"
      <3>1. /\ at + 1 + 1 <= Len(disk') /\ disk' \in Seq(Cells)
            /\ disk'[at + 1 + 1] = Name(file)
            /\ Len(disk') <= Len(disk) \/ Len(disk') <= at + 1 + 1
        BY <1>0, <1>1, <1>2, <2>2, WriteOne
      <3>2. Len(disk) < at + Len(central) + 1 + Window \/ Len(disk) <= at + 2 + done
        BY <1>0 DEF Progress
      <3>3. central \in Seq(Entries) /\ Window \in Nat /\ at + 1 + 1 = at + 2
        BY <1>0, <1>1, SizeAssumption DEF Types
      <3>4. \/ Len(disk') < at + Len(central) + 1 + Window
            \/ Len(disk') <= at + 2 + done
        BY <1>1, <3>1, <3>2, <3>3
      <3>5. at + 1 <= Len(disk') /\ at + 2 + done <= Len(disk') /\ done <= Pieces[file]
        BY <1>1, <3>1
      <3>6. disk'[at + 2] = Name(file) /\ 1..done = {}
        BY <1>1, <3>1, <3>3
      <3>7. QED
        BY <1>0, <2>2, <3>4, <3>5, <3>6 DEF Progress
    <2>3. QED
      BY <1>3, <2>1, <2>2
  <1>6. QED
    BY <1>4, <1>5 DEF ZipInv

\* A file that lies before an offset lies before every later one.
LEMMA WholeBefore ==
  ASSUME NEW d, NEW e \in Entries, NEW o \in Nat, NEW later \in Nat, o <= later, WholeAt(d, e, o)
  PROVE  WholeAt(d, e, later)
  <1> DEFINE n == e[3] + 2 + Pieces[e[2]]
  <1>1. n \in Nat /\ n <= o
    BY EntryType DEF WholeAt
  <1>2. n <= later
    <2> HIDE DEF n
    <2>1. QED
      BY <1>1
  <1>3. QED
    BY <1>2 DEF WholeAt

\* The next piece of the data.
LEMMA StepWriteData ==
  ASSUME ZipInv, WriteData
  PROVE  ZipInv' /\ Logged' = Logged
  <1> DEFINE ofs == at + 2 + done
             c == Piece(file, done + 1)
  <1>0. /\ Types /\ Progress /\ pc = "data" /\ ReadsAs(disk, central, at)
        /\ UNCHANGED <<file, central, at, created, finalized, before, adds>>
        /\ done < Pieces[file]
    BY DEF ZipInv, Stage, Unadded, WriteData
  <1>1. /\ at \in Nat /\ done \in Nat /\ disk \in Seq(Cells) /\ ofs <= Len(disk)
        /\ file \in Files /\ Pieces[file] \in Nat
    BY <1>0, SizeAssumption DEF Types, Progress, Steps
  <1>2. c \in Cells /\ c[1] \notin {"end", "entry"}
    BY <1>1, CellTypes, CellKinds
  <1>3. \/ Writes(ofs, <<c>>) /\ done' = done + 1 /\ pc' = pc /\ status' = status
        \/ Fails(ofs, <<c>>) /\ AddFails /\ done' = done
    BY DEF WriteData
  <1> HIDE DEF ofs, c
  <1>4. ofs \in at..Len(disk) /\ ofs = at + 2 + done
    BY <1>1 DEF ofs
  <1>5. done' \in Nat
    BY <1>1, <1>3
  <1>6. (pc' \in {"name", "data"} /\ status' = status) \/ AddFails
    BY <1>0, <1>3
  <1>7. Types' /\ Sound' /\ Flags' /\ Stage' /\ Logged' = Logged
    BY <1>0, <1>2, <1>3, <1>4, <1>5, <1>6, AfterCell
  <1>8. Progress'
    <2>1. CASE AddFails
      BY <2>1 DEF AddFails, Progress
    <2>2. CASE Writes(ofs, <<c>>) /\ done' = done + 1 /\ pc' = pc
      <3>1. /\ ofs + 1 <= Len(disk') /\ disk' \in Seq(Cells) /\ disk'[ofs + 1] = c
            /\ Len(disk) <= Len(disk') /\ (Len(disk') <= Len(disk) \/ Len(disk') <= ofs + 1)
            /\ \A i \in 1..ofs : disk'[i] = disk[i]
        BY <1>0, <1>2, <1>4, <2>2, WriteOne
      <3>2. /\ Len(disk) < at + Len(central) + 1 + Window \/ Len(disk) <= at + 2 + done
            /\ disk[at + 2] = Name(file)
            /\ \A k \in 1..done : disk[at + 2 + k] = Piece(file, k)
        BY <1>0 DEF Progress
      <3>3. central \in Seq(Entries) /\ Window \in Nat
        BY <1>0, SizeAssumption DEF Types
      <3>4. \/ Len(disk') < at + Len(central) + 1 + Window
            \/ Len(disk') <= at + 2 + done'
        BY <1>1, <1>4, <2>2, <3>1, <3>2, <3>3
      <3>5. at + 1 <= Len(disk') /\ at + 2 + done' <= Len(disk') /\ done' <= Pieces[file]
        BY <1>0, <1>1, <1>4, <2>2, <3>1
      <3>6. disk'[at + 2] = Name(file)
        <4>1. at + 2 \in 1..ofs
          BY <1>1, <1>4
        <4>2. QED
          BY <3>1, <3>2, <4>1
      <3>7. ASSUME NEW k \in 1..done' PROVE disk'[at + 2 + k] = Piece(file, k)
        <4>1. CASE k = done + 1
          <5>1. at + 2 + k = ofs + 1
            BY <1>1, <1>4, <4>1
          <5>2. QED
            BY <3>1, <4>1, <5>1 DEF c
        <4>2. CASE k # done + 1
          <5>1. k \in 1..done /\ at + 2 + k \in 1..ofs
            BY <1>1, <1>4, <2>2, <4>2
          <5>2. QED
            BY <3>1, <3>2, <5>1
        <4>3. QED
          BY <4>1, <4>2
      <3>8. QED
        BY <1>0, <2>2, <3>4, <3>5, <3>6, <3>7 DEF Progress
    <2>3. QED
      BY <1>3, <2>1, <2>2
  <1>9. QED
    BY <1>7, <1>8 DEF ZipInv

\* The local header is the last of the file: it is in the directory now, which
\* is not written yet, and the old one is gone.
LEMMA StepWriteHeader ==
  ASSUME ZipInv, WriteHeader
  PROVE  ZipInv' /\ Logged' = Logged
  <1> DEFINE c == Local(file)
             o == at + 2 + Pieces[file]
  <1>0. /\ Types /\ Sound /\ Flags /\ Progress /\ pc = "header"
        /\ ReadsAs(disk, central, at) /\ Names(central) = before
        /\ UNCHANGED <<file, done, created, finalized, before, adds>>
    BY DEF ZipInv, Stage, Unadded, WriteHeader
  <1>1. /\ at \in Nat /\ disk \in Seq(Cells) /\ central \in Seq(Entries)
        /\ file \in Files /\ Pieces[file] \in Nat /\ Window \in Nat
    BY <1>0, SizeAssumption DEF Types, Steps
  <1>2. c \in Cells /\ c[1] = "local"
    BY <1>1, CellTypes, CellKinds
  <1>3. at \in at..Len(disk) /\ o <= Len(disk)
    BY <1>0, <1>1 DEF Types, Progress, Steps
  <1>4. CASE Fails(at, <<c>>) /\ AddFails /\ UNCHANGED <<central, at>>
    <2>1. Types' /\ Sound' /\ Flags' /\ Stage' /\ Logged' = Logged
      <3>1. done' \in Nat
        BY <1>0 DEF Types
      <3>2. c[1] \notin {"end", "entry"}
        BY <1>2
      <3>3. QED
        BY <1>0, <1>2, <1>3, <1>4, <3>1, <3>2, AfterCell
    <2>2. Progress'
      BY <1>4 DEF AddFails, Progress
    <2>3. QED
      BY <2>1, <2>2 DEF ZipInv
  <1>5. CASE /\ Writes(at, <<c>>) /\ pc' = "directory" /\ status' = status
             /\ AddToDirectory(file, at) /\ at' = o
    <2>1. /\ ReadsAs(disk', central, at) /\ disk' \in Seq(Cells) /\ Len(disk') = Len(disk)
          /\ at + 1 <= Len(disk') /\ disk'[at + 1] = c
      <3>1. /\ ReadsAs(disk', central, at) /\ disk' \in Seq(Cells) /\ Len(disk) <= Len(disk')
            /\ Len(disk') <= Len(disk) \/ Len(disk') <= at + 1
            /\ at + 1 <= Len(disk') /\ disk'[at + 1] = c
        BY <1>0, <1>2, <1>3, <1>5, WriteOne
      <3>2. QED
        BY <1>1, <1>3, <3>1
    <2>2. Spoilt(disk', central, at)
      <3>1. at + 1 \in 1..Len(disk')
        BY <1>1, <2>1
      <3>2. QED
        BY <1>2, <2>1, <3>1 DEF ReadsAs, Spoilt
    <2>3. central' = Append(central, Entry(file, at)) /\ Entry(file, at) \in Entries
      BY <1>1, <1>5, CellTypes DEF AddToDirectory
    <2>4. /\ central' \in Seq(Entries) /\ Len(central') = Len(central) + 1
          /\ \A k \in 1..Len(central) : central'[k] = central[k]
          /\ central'[Len(central) + 1] = Entry(file, at)
      BY <1>1, <2>3
    <2>5. \A i \in 1..Len(disk) : i # at + 1 => disk'[i] = disk[i]
      <3>1. <<c>> \in Seq(Cells) /\ Len(<<c>>) = 1 /\ at \in 0..Len(disk)
        BY <1>1, <1>2, <1>3
      <3>2. Changed(at, <<c>>)
        BY <1>1, <1>5, <3>1, WritesChange
      <3>3. \A i \in 1..Len(disk') : disk'[i] = disk[i] \/ i - at \in 1..Len(<<c>>)
        BY <3>2 DEF Changed
      <3>4. \A i \in 1..Len(disk) : i # at + 1 => i - at \notin 1..Len(<<c>>)
        BY <1>1, <3>1
      <3>5. QED
        BY <2>1, <3>3, <3>4
    <2>6. WholeAt(disk', Entry(file, at), o)
      <3>1. /\ disk[at + 2] = Name(file)
            /\ \A k \in 1..Pieces[file] : disk[at + 2 + k] = Piece(file, k)
        BY <1>0 DEF Progress
      <3>2. at + 2 \in 1..Len(disk) /\ at + 2 # at + 1
            /\ \A k \in 1..Pieces[file] : at + 2 + k \in 1..Len(disk) /\ at + 2 + k # at + 1
        BY <1>1, <1>3
      <3>3. disk'[at + 2] = Name(file)
        BY <2>5, <3>1, <3>2
      <3>4. \A k \in 1..Pieces[file] : disk'[at + 2 + k] = Piece(file, k)
        BY <2>5, <3>1, <3>2
      <3>5. at + 2 + Pieces[file] <= o
        BY <1>1
      <3>6. QED
        BY <2>1, <3>3, <3>4, <3>5, CellKinds DEF WholeAt
    <2>7. Holds(disk', central', o)
      <3>1. ASSUME NEW k \in 1..Len(central') PROVE WholeAt(disk', central'[k], o)
        <4>1. CASE k \in 1..Len(central)
          <5>1. WholeAt(disk', central[k], at) /\ central[k] \in Entries
            BY <1>1, <2>1, <4>1 DEF ReadsAs, Holds
          <5>2. at <= o /\ central[k][3] \in Nat /\ Pieces[central[k][2]] \in Nat
            BY <1>1, <5>1, EntryType
          <5>3. WholeAt(disk', central[k], o)
            BY <1>1, <5>1, <5>2, WholeBefore
          <5>4. QED
            BY <2>4, <4>1, <5>3
        <4>2. CASE k = Len(central) + 1
          BY <2>4, <2>6, <4>2
        <4>3. QED
          BY <1>1, <2>4, <4>1, <4>2
      <3>2. o \in 0..Len(disk') /\ central' # <<>>
        BY <1>1, <1>3, <2>1, <2>4
      <3>3. QED
        BY <2>1, <2>4, <3>1, <3>2 DEF Holds
    <2>8. Len(disk') < o + Len(central') + 1 + Window
      <3>1. Len(disk) < at + Len(central) + 1 + Window \/ Len(disk) <= at + 2 + Pieces[file]
        BY <1>0 DEF Progress
      <3>2. QED
        BY <1>1, <2>1, <2>4, <3>1
    <2>9. status' = TRUE /\ ~finalized' /\ Logged' = Logged
      BY <1>0, <1>5 DEF Flags, Steps, Logged
    <2>10. Types'
      <3>1. pc' \in Steps /\ pc \in Steps
        BY <1>0, <1>5 DEF Steps
      <3>2. at' \in Nat /\ at' <= Len(disk')
        BY <1>1, <1>3, <1>5, <2>1
      <3>3. QED
        BY <1>0, <2>1, <2>4, <2>9, <3>1, <3>2 DEF Types
    <2>11. Sound'
      BY <1>1, <2>2 DEF Sound
    <2>12. Flags'
      <3>1. disk' # Absent
        BY <2>1, AbsentAssumption
      <3>2. QED
        BY <1>0, <1>5, <2>9, <3>1 DEF Flags, Steps
    <2>13. Stage'
      <3>1. \E dir \in Seq(Entries), p \in Nat :
              /\ central' = Append(dir, Entry(file', p)) /\ at' = p + 2 + Pieces[file']
              /\ Names(dir) = before' /\ Spoilt(disk', dir, p) /\ Holds(disk', central', at')
              /\ Len(disk') < at' + Len(central') + 1 + Window
        BY <1>0, <1>1, <1>5, <2>2, <2>3, <2>7, <2>8
      <3>2. QED
        BY <1>5, <2>9, <3>1 DEF Stage, Unadded, Added, Extends
    <2>14. Progress'
      BY <1>5 DEF Progress
    <2>15. QED
      BY <2>9, <2>10, <2>11, <2>12, <2>13, <2>14 DEF ZipInv
  <1>6. QED
    BY <1>4, <1>5 DEF WriteHeader

\* Something that is written from the new directory on and is no end record.
LEMMA AfterAdding ==
  ASSUME ZipInv, pc \in {"directory", "end"}, NEW ofs \in at..Len(disk),
         NEW cells \in Seq(Cells), Changed(ofs, cells),
         \A k \in 1..Len(cells) : cells[k][1] # "end", Suited(ofs, cells, central, at)
  PROVE  /\ ~status => ReadsAs(disk', central, at) /\ Names(central) = before
         /\ status => \E dir \in Seq(Entries), o \in Nat :
              /\ central = Append(dir, Entry(file, o)) /\ at = o + 2 + Pieces[file]
              /\ Names(dir) = before /\ Spoilt(disk', dir, o) /\ Holds(disk', central, at)
              /\ \/ Len(disk') < at + Len(central) + 1 + Window
                 \/ Len(disk') <= ofs + Len(cells)
  <1>0. Types /\ Stage
    BY DEF ZipInv
  <1>1. ASSUME ~status PROVE ReadsAs(disk', central, at) /\ Names(central) = before
    <2>1. ReadsAs(disk, central, at) /\ Names(central) = before
      BY <1>0, <1>1 DEF Stage, Unadded
    <2>2. QED
      BY <2>1, ReadsOn
  <1>2. ASSUME status
        PROVE  \E dir \in Seq(Entries), o \in Nat :
                 /\ central = Append(dir, Entry(file, o)) /\ at = o + 2 + Pieces[file]
                 /\ Names(dir) = before /\ Spoilt(disk', dir, o) /\ Holds(disk', central, at)
                 /\ \/ Len(disk') < at + Len(central) + 1 + Window
                    \/ Len(disk') <= ofs + Len(cells)
    <2>1. PICK dir \in Seq(Entries), o \in Nat : Extends(dir, o)
      BY <1>0, <1>2 DEF Stage, Added
    <2>2. /\ central = Append(dir, Entry(file, o)) /\ at = o + 2 + Pieces[file]
          /\ Names(dir) = before /\ Spoilt(disk, dir, o) /\ Holds(disk, central, at)
          /\ Len(disk) < at + Len(central) + 1 + Window
      BY <2>1 DEF Extends
    <2>3. Pieces[file] \in Nat /\ disk \in Seq(Cells)
      BY <1>0, SizeAssumption DEF Types, Steps
    <2>4. ofs \in o + 1..Len(disk)
      BY <2>2, <2>3
    <2>5. Spoilt(disk', dir, o)
      BY <2>2, <2>4, SpoiltOn
    <2>6. Holds(disk', central, at)
      BY <2>2, HoldsOn
    <2>7. Len(disk') < at + Len(central) + 1 + Window \/ Len(disk') <= ofs + Len(cells)
      <3>1. Len(disk') = Len(disk) \/ Len(disk') <= ofs + Len(cells)
        BY <2>3 DEF Changed
      <3>2. QED
        BY <2>2, <3>1
    <2>8. QED
      BY <2>2, <2>5, <2>6, <2>7
  <1>3. QED
    BY <1>1, <1>2

\* The directory is written behind the new file.
LEMMA StepWriteDirectory ==
  ASSUME ZipInv, WriteDirectory
  PROVE  ZipInv' /\ Logged' = Logged
  <1>0. /\ Types /\ Sound /\ Flags /\ Stage /\ pc = "directory"
        /\ UNCHANGED <<file, central, at, done, created, finalized, before, adds>>
    BY DEF ZipInv, WriteDirectory
  <1>1. /\ at \in Nat /\ disk \in Seq(Cells) /\ central \in Seq(Entries)
        /\ at \in at..Len(disk) /\ at \in 0..Len(disk) /\ Window \in Nat
    BY <1>0, SizeAssumption DEF Types, Steps
  <1>2. ~finalized /\ ~finalized' /\ Logged = before /\ Logged' = before /\ before' = before
    BY <1>0 DEF Flags, Steps, Logged
  <1>3. central \in Seq(Cells) /\ \A k \in 1..Len(central) : central[k][1] = "entry"
    <2>1. \A k \in 1..Len(central) : central[k] \in Cells /\ central[k][1] = "entry"
      BY <1>1, EntryType
    <2>2. QED
      BY <1>1, <2>1
  <1>4. (\A k \in 1..Len(central) : central[k][1] # "end") /\ Suited(at, central, central, at)
    BY <1>1, <1>3 DEF Suited
  <1>5. CASE at + Len(central) + 1 > MaxCells /\ pc' = "close" /\ status' = FALSE /\ UNCHANGED disk
    <2>1. Types'
      BY <1>0, <1>5 DEF Types, Steps
    <2>2. Sound'
      BY <1>0, <1>2, <1>5, SoundStays
    <2>3. Flags'
      BY <1>0, <1>5 DEF Flags, Steps
    <2>4. Stage' /\ Progress'
      BY <1>2, <1>5 DEF Stage, Progress, Unadded, Added
    <2>5. QED
      BY <1>2, <2>1, <2>2, <2>3, <2>4 DEF ZipInv
  <1>6. CASE \/ Writes(at, central) /\ pc' = "end" /\ status' = status
             \/ Fails(at, central) /\ pc' = "close" /\ status' = FALSE
    <2>1. Changed(at, central)
      BY <1>1, <1>3, <1>6, WritesChange, FailsChange
    <2>2. disk' \in Seq(Cells) /\ Len(disk) <= Len(disk') /\ disk' # Absent
      BY <2>1, AbsentAssumption DEF Changed
    <2>3. ~status => ReadsAs(disk', central, at) /\ Names(central) = before
      BY <1>0, <1>1, <1>3, <1>4, <2>1, AfterAdding
    <2>4. status => \E dir \in Seq(Entries), o \in Nat :
            /\ central = Append(dir, Entry(file, o)) /\ at = o + 2 + Pieces[file]
            /\ Names(dir) = before /\ Spoilt(disk', dir, o) /\ Holds(disk', central, at)
            /\ \/ Len(disk') < at + Len(central) + 1 + Window
               \/ Len(disk') <= at + Len(central)
      BY <1>0, <1>1, <1>3, <1>4, <2>1, AfterAdding
    <2>5. Len(disk') <= at + Len(central) => Len(disk') < at + Len(central) + 1 + Window
      BY <1>1, <2>2
    <2>6. Types'
      <3>1. pc' \in Steps /\ pc \in Steps /\ status' \in BOOLEAN
        BY <1>0, <1>6 DEF Types, Steps
      <3>2. at' <= Len(disk')
        BY <1>0, <1>1, <2>2
      <3>3. QED
        BY <1>0, <2>2, <3>1, <3>2 DEF Types
    <2>7. Sound'
      <3>1. CASE ~status
        BY <1>1, <1>2, <2>3, <3>1 DEF Sound
      <3>2. CASE status
        <4>1. PICK dir \in Seq(Entries), o \in Nat : Spoilt(disk', dir, o)
          BY <2>4, <3>2
        <4>2. QED
          BY <4>1 DEF Sound
      <3>3. QED
        BY <3>1, <3>2
    <2>8. Flags'
      BY <1>0, <1>2, <1>6, <2>2 DEF Flags, Steps
    <2>9. Progress'
      BY <1>6 DEF Progress
    <2>10. Stage'
      <3>1. CASE Fails(at, central) /\ pc' = "close" /\ status' = FALSE
        BY <1>2, <3>1 DEF Stage, Unadded, Added
      <3>2. CASE Writes(at, central) /\ pc' = "end" /\ status' = status
        <4>1. at + Len(central) <= Len(disk') /\ \A k \in 1..Len(central) : disk'[at + k] = central[k]
          BY <1>1, <1>3, <3>2, WritesChange
        <4>2. Unadded' => ReadsAs(disk', central', at') /\ Names(central') = before'
          BY <1>0, <2>3, <3>2 DEF Unadded
        <4>3. status => \E dir \in Seq(Entries), o \in Nat :
                /\ central' = Append(dir, Entry(file', o)) /\ at' = o + 2 + Pieces[file']
                /\ Names(dir) = before' /\ Spoilt(disk', dir, o) /\ Holds(disk', central', at')
                /\ Len(disk') < at' + Len(central') + 1 + Window
          BY <1>0, <2>4, <2>5
        <4>4. QED
          BY <1>0, <3>2, <4>1, <4>2, <4>3 DEF Stage, Added, Extends
      <3>3. QED
        BY <1>6, <3>1, <3>2
    <2>11. QED
      BY <1>2, <2>6, <2>7, <2>8, <2>9, <2>10 DEF ZipInv
  <1>7. QED
    BY <1>5, <1>6 DEF WriteDirectory

\* The names in a directory that has grown by one entry.
LEMMA NamesOfMore ==
  ASSUME NEW dir \in Seq(Entries), NEW f \in Files, NEW o \in Nat
  PROVE  Names(Append(dir, Entry(f, o))) = Append(Names(dir), f)
  <1> DEFINE more == Append(dir, Entry(f, o))
  <1>1. Entry(f, o) \in Entries /\ Entry(f, o)[2] = f
    BY CellTypes, CellKinds
  <1>2. /\ more \in Seq(Entries) /\ Len(more) = Len(dir) + 1
        /\ \A k \in 1..Len(dir) : more[k] = dir[k]
        /\ more[Len(dir) + 1] = Entry(f, o)
    BY <1>1
  <1> HIDE DEF more
  <1>3. Names(dir) = [k \in 1..Len(dir) |-> dir[k][2]]
    BY DEF Names
  <1>4. Names(more) = [k \in 1..Len(dir) + 1 |-> more[k][2]]
    BY <1>2 DEF Names
  <1>5. Names(dir) \in Seq(Files) /\ Len(Names(dir)) = Len(dir)
    <2>1. \A k \in 1..Len(dir) : dir[k][2] \in Files
      BY EntryType
    <2>2. QED
      BY <1>3, <2>1
  <1>6. Append(Names(dir), f) = [k \in 1..Len(dir) + 1 |-> IF k \in 1..Len(dir) THEN dir[k][2] ELSE f]
    BY <1>3, <1>5
  <1>7. Names(more) = Append(Names(dir), f)
    BY <1>1, <1>2, <1>4, <1>6
  <1>8. QED
    BY <1>7 DEF more

\* The end record of the directory before lies where the new file is: once that
\* is there, the new end record is the only one.
LEMMA OneEnd ==
  ASSUME NEW dir \in Seq(Entries), NEW o \in Nat, file \in Files,
         central \in Seq(Entries), disk \in Seq(Cells), disk' \in Seq(Cells),
         central = Append(dir, Entry(file, o)), at = o + 2 + Pieces[file],
         Spoilt(disk, dir, o), Holds(disk', central, at),
         NEW e, e = at + Len(central) + 1,
         \A i \in 1..Len(disk') : i # e => i \in 1..Len(disk) /\ disk'[i] = disk[i],
         \A k \in 1..Len(central) : disk'[at + k] = central[k],
         disk'[e] = End(Len(central), at)
  PROVE  EndOf(disk', central, at)
  <1> SUFFICES ASSUME NEW i \in 1..Len(disk'), disk'[i][1] = "end", i # e
               PROVE  FALSE
    BY DEF EndOf
  <1> DEFINE n == Pieces[file]
  <1>1. n \in Nat /\ Entry(file, o) \in Entries
    BY SizeAssumption, CellTypes
  <1>2. Len(central) = Len(dir) + 1 /\ central[Len(central)] = Entry(file, o)
    BY <1>1
  <1>3. i = o + Len(dir) + 1
    BY DEF Spoilt, EndOf
  <1>4. /\ disk'[o + 1] = Local(file) /\ disk'[o + 2] = Name(file)
        /\ \A k \in 1..n : disk'[o + 2 + k] = Piece(file, k)
    <2>1. Len(central) \in 1..Len(central)
      BY <1>2
    <2>2. WholeAt(disk', central[Len(central)], at)
      BY <2>1 DEF Holds
    <2>3. WholeAt(disk', Entry(file, o), at)
      BY <1>2, <2>2
    <2>4. Entry(file, o)[2] = file /\ Entry(file, o)[3] = o
      BY CellKinds
    <2>5. QED
      BY <2>3, <2>4 DEF WholeAt
  <1> HIDE DEF n
  <1>5. at = o + 2 + n
    BY DEF n
  <1>6. CASE i <= at
    <2>1. \/ i = o + 1 \/ i = o + 2
          \/ \E k \in 1..n : i = o + 2 + k
      <3>1. CASE i > o + 2
        <4>1. i - (o + 2) \in 1..n /\ i = o + 2 + (i - (o + 2))
          BY <1>1, <1>5, <1>6, <3>1
        <4>2. QED
          BY <4>1
      <3>2. CASE i <= o + 2
        BY <1>3, <3>2, SMTT(30)
      <3>3. QED
        BY <1>3, <3>1, <3>2
    <2>2. QED
      BY <1>4, <2>1, CellKinds
  <1>7. CASE i > at
    <2> DEFINE k == i - at
    <2>1. k \in 1..Len(central) /\ at + k = i
      BY <1>1, <1>2, <1>3, <1>5, <1>7
    <2>2. disk'[i] = central[k] /\ central[k] \in Entries
      BY <2>1, SMTT(30)
    <2>3. QED
      BY <2>2, EntryType
  <1>8. QED
    BY <1>3, <1>5, <1>1, <1>6, <1>7

\* The end record makes the directory the one that is read.
LEMMA StepWriteEnd ==
  ASSUME ZipInv, WriteEnd
  PROVE  /\ ZipInv'
         /\ \/ Logged' = Logged
            \/ /\ file \in Files /\ Logged' = Append(Logged, file)
               /\ disk' # Absent /\ Legible(disk')
  <1> DEFINE ofs == at + Len(central)
             c == End(Len(central), at)
  <1>0. /\ Types /\ Sound /\ Flags /\ Stage /\ pc = "end" /\ pc' = "close"
        /\ UNCHANGED <<file, central, at, done, created, before, adds>>
        /\ ~finalized /\ Logged = before /\ before' = before
    BY DEF ZipInv, WriteEnd, Flags, Steps, Logged
  <1>1. /\ at \in Nat /\ disk \in Seq(Cells) /\ central \in Seq(Entries) /\ file \in Files
        /\ ofs \in at..Len(disk) /\ ofs \in 0..Len(disk) /\ Window \in Nat \ {0}
        /\ \A k \in 1..Len(central) : disk[at + k] = central[k]
    BY <1>0, SizeAssumption DEF Types, Stage, Steps
  <1>2. Holds(disk, central, at)
    <2>1. CASE status
      BY <1>0, <2>1 DEF Stage, Added, Extends
    <2>2. CASE ~status
      BY <1>0, <2>2 DEF Stage, Unadded, ReadsAs
    <2>3. QED
      BY <2>1, <2>2
  <1>3. End(Len(central), IF central = <<>> THEN 0 ELSE at) = c
    BY <1>2 DEF Holds
  <1>4. c \in Cells /\ c[1] = "end" /\ Torn \in Cells /\ Torn[1] = "torn"
    <2>1. Len(central) \in Nat /\ at \in Nat
      BY <1>1
    <2>2. c \in Cells
      BY <2>1, CellTypes
    <2>3. QED
      BY <2>2, CellTypes, CellKinds
  <1>5. \/ Writes(ofs, <<c>>) /\ finalized' = TRUE /\ status' = status
        \/ Fails(ofs, <<c>>) /\ status' = FALSE /\ finalized' = finalized
    BY <1>3 DEF WriteEnd
  <1> HIDE DEF c, ofs
  <1>6. CASE Fails(ofs, <<c>>) /\ status' = FALSE /\ finalized' = finalized
    <2>1. <<Torn>> \in Seq(Cells) /\ Len(<<Torn>>) = 1 /\ <<Torn>>[1] = Torn
      BY <1>4
    <2>2. Changed(ofs, <<Torn>>)
      BY <1>1, <1>4, <1>6, FailsOfOne
    <2>3. disk' \in Seq(Cells) /\ Len(disk) <= Len(disk') /\ disk' # Absent
      BY <2>2, AbsentAssumption DEF Changed
    <2>4. Suited(ofs, <<Torn>>, central, at) /\ \A k \in 1..Len(<<Torn>>) : <<Torn>>[k][1] # "end"
      BY <1>4, <2>1 DEF Suited
    <2>5. ~status => ReadsAs(disk', central, at) /\ Names(central) = before
      BY <1>0, <1>1, <2>1, <2>2, <2>4, AfterAdding
    <2>6. status => \E dir \in Seq(Entries), o \in Nat : Spoilt(disk', dir, o)
      BY <1>0, <1>1, <2>1, <2>2, <2>4, AfterAdding
    <2>7. Logged' = before
      BY <1>0, <1>6 DEF Logged
    <2>8. Sound'
      BY <1>1, <2>5, <2>6, <2>7 DEF Sound
    <2>9. Types'
      <3>1. at' <= Len(disk') /\ pc' \in Steps
        BY <1>0, <1>1, <2>3 DEF Steps
      <3>2. status' \in BOOLEAN /\ finalized' \in BOOLEAN
        BY <1>0, <1>6 DEF Types
      <3>3. QED
        BY <1>0, <1>1, <2>3, <3>1, <3>2 DEF Types
    <2>10. Flags'
      BY <1>0, <1>6, <2>3 DEF Flags, Steps
    <2>11. Stage' /\ Progress'
      BY <1>0, <1>6 DEF Stage, Progress, Unadded, Added
    <2>12. QED
      BY <1>0, <2>7, <2>8, <2>9, <2>10, <2>11 DEF ZipInv
  <1>7. CASE Writes(ofs, <<c>>) /\ finalized' = TRUE /\ status' = status
    <2> DEFINE e == at + Len(central) + 1
    <2>1. <<c>> \in Seq(Cells) /\ Len(<<c>>) = 1 /\ <<c>>[1] = c /\ 1 \in 1..Len(<<c>>)
      BY <1>4
    <2>2. /\ Changed(ofs, <<c>>) /\ ofs + 1 <= Len(disk') /\ disk'[ofs + 1] = c
      BY <1>1, <1>7, <2>1, WritesChange
    <2>3. ofs + 1 = e /\ e \in Nat
      BY <1>1 DEF ofs
    <2>4. /\ disk' \in Seq(Cells) /\ Len(disk) <= Len(disk') /\ disk' # Absent
          /\ Len(disk') <= Len(disk) \/ Len(disk') <= e
      BY <2>1, <2>2, <2>3, AbsentAssumption DEF Changed
    <2>5. \A i \in 1..Len(disk') : i # e => i \in 1..Len(disk) /\ disk'[i] = disk[i]
      <3>1. \A i \in 1..Len(disk') :
              (i \in 1..Len(disk) /\ disk'[i] = disk[i]) \/ i - ofs \in 1..Len(<<c>>)
        BY <2>2 DEF Changed
      <3>2. \A i \in 1..Len(disk') : i # e => i - ofs \notin 1..Len(<<c>>)
        BY <1>1, <2>1, <2>3
      <3>3. QED
        BY <3>1, <3>2
    <2>6. e \in 1..Len(disk') /\ disk'[e] = End(Len(central), at)
      BY <1>1, <2>2, <2>3 DEF c
    <2>7. \A k \in 1..Len(central) : at + k \in 1..Len(disk') /\ disk'[at + k] = central[k]
      <3>1. \A k \in 1..Len(central) : at + k \in 1..Len(disk') /\ at + k # e
        BY <1>1, <2>3, <2>6
      <3>2. QED
        BY <1>1, <2>5, <3>1
    <2>8. Holds(disk', central, at)
      BY <1>1, <1>2, <2>1, <2>2, HoldsOn
    <2>9. EndOf(disk', central, at) /\ (status => Names(central) = Append(before, file))
                                    /\ (~status => Names(central) = before)
                                    /\ (status => Len(disk') < at + Len(central) + 1 + Window)
      <3>1. CASE ~status
        <4>1. ReadsAs(disk, central, at) /\ Names(central) = before
          BY <1>0, <3>1 DEF Stage, Unadded
        <4>2. Suited(ofs, <<c>>, central, at)
          BY <1>4, <2>1, <2>3, CellKinds DEF Suited, c
        <4>3. EndOf(disk', central, at)
          BY <1>1, <2>1, <2>2, <4>1, <4>2, EndsOn DEF ReadsAs
        <4>4. QED
          BY <3>1, <4>1, <4>3
      <3>2. CASE status
        <4>1. PICK dir \in Seq(Entries), o \in Nat : Extends(dir, o)
          BY <1>0, <3>2 DEF Stage, Added
        <4>2. /\ central = Append(dir, Entry(file, o)) /\ at = o + 2 + Pieces[file]
              /\ Names(dir) = before /\ Spoilt(disk, dir, o)
              /\ Len(disk) < at + Len(central) + 1 + Window
          BY <4>1 DEF Extends
        <4>3. EndOf(disk', central, at)
          BY <1>1, <2>4, <2>5, <2>6, <2>7, <2>8, <4>2, OneEnd
        <4>4. Names(central) = Append(before, file)
          BY <1>1, <4>2, NamesOfMore
        <4>5. Len(disk') < at + Len(central) + 1 + Window
          BY <1>1, <2>4, <4>2
        <4>6. QED
          BY <3>2, <4>3, <4>4, <4>5
      <3>3. QED
        BY <3>1, <3>2
    <2>10. Complete(disk', central, at)
      BY <2>6, <2>7, <2>8, <2>9 DEF Complete, ReadsAs
    <2>11. Logged' = IF status THEN Append(before, file) ELSE before
      BY <1>0, <1>7 DEF Logged
    <2>12. Names(central) = Logged'
      BY <1>0, <2>9, <2>11 DEF Types
    <2>13. status => Legible(disk')
      BY <2>4, <2>9, <2>10, CompleteReading
    <2>14. Sound'
      BY <1>1, <2>10, <2>12 DEF Sound, Complete
    <2>15. Types'
      <3>1. at' <= Len(disk') /\ pc' \in Steps
        BY <1>0, <1>1, <2>4 DEF Steps
      <3>2. status' \in BOOLEAN /\ finalized' \in BOOLEAN
        BY <1>0, <1>7 DEF Types
      <3>3. QED
        BY <1>0, <1>1, <2>4, <3>1, <3>2 DEF Types
    <2>16. Flags'
      <3>1. file # NoFile
        BY <1>1, SizeAssumption
      <3>2. QED
        BY <1>0, <1>7, <2>4, <2>13, <3>1 DEF Flags, Steps
    <2>17. Stage' /\ Progress'
      BY <1>0, <2>10, <2>12 DEF Stage, Progress, Unadded, Added
    <2>18. QED
      BY <1>0, <1>1, <2>4, <2>11, <2>13, <2>14, <2>15, <2>16, <2>17 DEF ZipInv, Types
  <1>8. QED
    BY <1>5, <1>6, <1>7

-----------------------------------------------------------------------------
(* What follows.                                                             *)

\* Each step keeps the invariant, and the list of files grows as it should.
LEMMA ZipStep ==
  ASSUME ZipInv, [Next]_vars
  PROVE  /\ ZipInv'
         /\ \/ Logged' = Logged
            \/ disk' = Absent /\ Logged' = <<>>
            \/ /\ file \in Files /\ Logged' = Append(Logged, file)
               /\ disk' # Absent /\ Legible(disk')
  <1>1. CASE UNCHANGED vars
    <2>1. UNCHANGED <<disk, pc, file, central, at, done, status, created, finalized, before, adds>>
      BY <1>1 DEF vars
    <2>2. Types' /\ Flags' /\ Stage' /\ Progress' /\ Logged' = Logged
      BY <2>1 DEF ZipInv, Types, Flags, Stage, Progress, Unadded, Added, Extends, Logged
    <2>3. Sound'
      BY <2>1, <2>2, SoundStays DEF ZipInv
    <2>4. QED
      BY <2>2, <2>3 DEF ZipInv
  <1>2. CASE \E f \in Files : Begin(f)
    BY <1>2, StepBegin
  <1>3. CASE OpenNew \/ OpenReader \/ WriteOnFromReader
    BY <1>3, StepOpenNew, StepOpenReader, StepWriteOn
  <1>4. CASE OpenFails \/ EndWriter \/ Killed
    BY <1>4, StepEnds
  <1>5. CASE CannotAdd \/ DataComplete
    BY <1>5, StepDecides
  <1>6. CASE WriteHole \/ WriteName \/ WriteData \/ WriteHeader
    BY <1>6, StepWriteHole, StepWriteName, StepWriteData, StepWriteHeader
  <1>7. CASE WriteDirectory
    BY <1>7, StepWriteDirectory
  <1>8. CASE WriteEnd
    BY <1>8, StepWriteEnd
  <1>9. CASE DeleteNew
    BY <1>9, StepDeleteNew
  <1>10. CASE RemoveArchive
    <2>1. disk' = Absent
      BY <1>10 DEF RemoveArchive
    <2>2. QED
      BY <1>10, <2>1, StepRemoveArchive
  <1>11. QED
    BY <1>1, <1>2, <1>3, <1>4, <1>5, <1>6, <1>7, <1>8, <1>9, <1>10 DEF Next

\* The invariant holds in every behaviour.
LEMMA ZipInvariant == Spec => []ZipInv
  <1>1. ZipInv /\ [Next]_vars => ZipInv'
    BY ZipStep
  <1>2. QED
    BY ZipStarts, <1>1, PTL DEF Spec

\* Every variable keeps to its type, and nothing is written behind the end of
\* the archive (mz_zip_archive).
THEOREM ArchiveTypeCorrect == Spec => []ZipTypeOK
  <1>1. ZipInv => ZipTypeOK
    <2>1. pc \in Steps \ {"open"} /\ ZipInv => disk # Absent /\ at <= Len(disk)
      BY AbsentAssumption DEF ZipInv, Types
    <2>2. QED
      BY <2>1 DEF ZipInv, Types, ZipTypeOK
  <1>2. QED
    BY <1>1, ZipInvariant, PTL

\* Whatever failed and wherever the process was killed, an archive that can be
\* read holds each file that it lists, whole
\* (mz_zip_add_mem_to_archive_file_in_place).
THEOREM WholeFiles == Spec => []ListedIsWhole
  <1>1. ZipInv => ListedIsWhole
    <2> SUFFICES ASSUME ZipInv, disk # Absent, Legible(disk), NEW i \in DOMAIN DirectoryOf(disk)
                 PROVE  LET f == DirectoryOf(disk)[i][2] ofs == DirectoryOf(disk)[i][3] IN
                        /\ disk[ofs + 1] = Local(f) /\ disk[ofs + 2] = Name(f)
                        /\ \A k \in 1..Pieces[f] : disk[ofs + 2 + k] = Piece(f, k)
      BY DEF ListedIsWhole
    <2>1. PICK dir \in Seq(Entries), o \in Nat :
            ReadsAs(disk, dir, o) /\ DirectoryOf(disk) = dir
      BY WhatIsRead DEF ZipInv
    <2>2. WholeAt(disk, DirectoryOf(disk)[i], o)
      BY <2>1 DEF ReadsAs, Holds
    <2>3. QED
      BY <2>2 DEF WholeAt
  <1>2. QED
    BY <1>1, ZipInvariant, PTL

\* An addition that succeeded is in the archive, and one that failed is not
\* (the result of mz_zip_add_mem_to_archive_file_in_place).
THEOREM TruthfulResult == Spec => []ResultTruthful
  <1>1. ZipInv => ResultTruthful
    <2> SUFFICES ASSUME ZipInv, pc = "idle", file # NoFile PROVE
          /\ status => disk # Absent /\ Legible(disk) /\ Listing(disk) = Append(before, file)
          /\ ~status /\ (disk = Absent \/ Legible(disk)) => Listing(disk) = before
      BY DEF ResultTruthful
    <2>1. disk = Absent => Listing(disk) = before
      BY DEF ZipInv, Flags, Listing
    <2>2. Legible(disk) => Listing(disk) = Logged
      BY WhatIsRead DEF ZipInv
    <2>3. status => finalized /\ disk # Absent /\ Legible(disk)
      BY DEF ZipInv, Flags
    <2>4. QED
      BY <2>1, <2>2, <2>3 DEF Logged
  <1>2. QED
    BY <1>1, ZipInvariant, PTL

\* However an addition ends, an archive that was finalized can be read, unless
\* more than the reader looks at is left behind its end record.
THEOREM LegibleWhenFinalized == Spec => []FinalizedIsLegible
  <1>1. ZipInv => FinalizedIsLegible
    <2> SUFFICES ASSUME ZipInv, pc \in {"close", "delete"}, finalized,
                        ~(Len(disk) - (at + Len(central) + 1) >= Window)
                 PROVE  /\ Legible(disk)
                        /\ Listing(disk) = IF status THEN Append(before, file) ELSE before
      BY DEF FinalizedIsLegible
    <2>1. /\ disk \in Seq(Cells) /\ disk # Absent /\ at \in Nat /\ central \in Seq(Entries)
          /\ Window \in Nat /\ Complete(disk, central, at)
      BY AbsentAssumption, SizeAssumption DEF ZipInv, Types, Stage, Steps
    <2>2. Len(disk) < at + Len(central) + 1 + Window
      BY <2>1
    <2>3. Legible(disk)
      BY <2>1, <2>2, CompleteReading
    <2>4. Listing(disk) = Logged
      BY <2>3, WhatIsRead DEF ZipInv
    <2>5. QED
      BY <2>3, <2>4 DEF Logged
  <1>2. QED
    BY <1>1, ZipInvariant, PTL

\* The archive is an append-only list of files: at no time does it read as
\* anything but the files before or after the addition that is under way.
THEOREM ArchiveGrowsAtItsEnd == Spec => AppendOnly
  <1> DEFINE log == IF disk = Absent \/ Legible(disk) THEN Listing(disk) ELSE before
             legible == disk = Absent \/ Legible(disk)
  <1>1. ZipInv => log = Logged
    <2> SUFFICES ASSUME ZipInv PROVE log = Logged
      OBVIOUS
    <2>1. CASE disk = Absent
      BY <2>1 DEF ZipInv, Flags, Logged, Listing
    <2>2. CASE disk # Absent /\ Legible(disk)
      BY <2>2, WhatIsRead DEF ZipInv
    <2>3. CASE disk # Absent /\ ~Legible(disk)
      BY <2>3 DEF ZipInv, Flags, Logged
    <2>4. QED
      BY <2>1, <2>2, <2>3
  <1>2. (ZipInv => log = Logged)'
    BY <1>1, PTL
  <1>3. Init => Archive!ArchiveInit
    BY DEF Init, Archive!ArchiveInit, Listing
  <1>4. ZipInv /\ ZipInv' /\ [Next]_vars => [Archive!ArchiveNext]_<<log, legible>>
    <2> SUFFICES ASSUME ZipInv, ZipInv', [Next]_vars
                 PROVE  [Archive!ArchiveNext]_<<log, legible>>
      OBVIOUS
    <2>1. log = Logged /\ log' = Logged'
      BY <1>1, <1>2
    <2>2. legible' \in BOOLEAN
      OBVIOUS
    <2>3. \/ log' = log
          \/ legible' = TRUE /\ log' = <<>>
          \/ file \in Files /\ log' = Append(log, file) /\ legible' = TRUE
      BY <2>1, ZipStep
    <2> HIDE DEF log, legible
    <2>4. QED
      BY <2>2, <2>3 DEF Archive!ArchiveNext, Archive!AddFile, Archive!Blur, Archive!Restore,
         Archive!Remove, log, legible
  <1>5. QED
    BY <1>3, <1>4, ZipInvariant, PTL DEF Spec, AppendOnly, Archive!ArchiveSpec
================================================================================
