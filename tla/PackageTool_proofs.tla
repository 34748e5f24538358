--------------------------- MODULE PackageTool_proofs ---------------------------
(***************************************************************************)
(* What holds of the packaging tool of either build for every library, every  *)
(* command line, any number of runs and any number of faults in each: the       *)
(* command line is taken as given, faults are told, failures have a reason, the  *)
(* previous container is kept as long as it should be, an encrypted container   *)
(* holds no Modelica file in clear, its manifest names what is there, and a run  *)
(* without faults packs exactly the container of its library.                   *)
(***************************************************************************)
EXTENDS PackageTool, FiniteSetTheorems, WellFoundedInduction, TLAPS

-----------------------------------------------------------------------------
(* Faults and exit codes.                                                    *)

\* On the way, and at a success, only faults nobody looks at have happened.
OnlyUnnoticed ==
  pc \in Steps \/ (pc = "exited" /\ exitCode = 0) => faults \subseteq Unnoticed

\* What becomes of a step: it meets only faults nobody looks at, or it ends the
\* process with a code other than 0.
Told == \/ faults' \subseteq faults \cup Unnoticed
        \/ pc' = "crashed" \/ (pc' = "exited" /\ exitCode' # 0)

\* The faults whose results nobody looks at do not keep a step from being told.
LEMMA ToldUnnoticed ==
  /\ Well => Told
  /\ Fails("a copy") => Told
  /\ Fails("a write") => Told
  /\ Fails("the previous archive") => Told
  /\ Fails("closing the archive") => Told
  /\ Fails("removing") => Told
  <1>1. ASSUME NEW what \in Unnoticed, Fails(what) PROVE Told
    BY <1>1 DEF Fails, Told
  <1>2. Well => Told
    BY DEF Well, Told
  <1>3. QED
    BY <1>1, <1>2 DEF Unnoticed

\* An exit code other than 0 tells, and so does a crash.
LEMMA ToldByExit ==
  /\ Crash => Told
  /\ Exit(1) => Told
  /\ Exit(2) => Told
  /\ Exit(3) => Told
  /\ Exit(4) => Told
  /\ Exit(5) => Told
  /\ Exit(6) => Told
  /\ Exit(8) => Told
  /\ Exit(9) => Told
  BY DEF Crash, Exit, Told

\* Every step of doWork is such a step: where it looks at a result that is a
\* failure, it does not go on.
LEMMA StepIsTold ==
  ASSUME Step, ~Start, ~Killed
  PROVE  Told /\ pc \in Steps
  <1>1. CASE ValidateArguments
    <2>1. Told
      BY <1>1, ToldUnnoticed, ToldByExit DEF ValidateArguments
    <2>2. QED
      BY <1>1, <2>1 DEF ValidateArguments, Steps
  <1>2. CASE CopyFolderStructure
    <2>1. Told
      BY <1>2, ToldUnnoticed, ToldByExit
         DEF CopyFolderStructure, CopyTree, CopyTreeWindows, NoStagingFolder
    <2>2. QED
      BY <1>2, <2>1 DEF CopyFolderStructure, Steps
  <1>3. CASE CreateLibraryFolder
    <2>1. Told
      BY <1>3, ToldUnnoticed, ToldByExit DEF CreateLibraryFolder
    <2>2. QED
      BY <1>3, <2>1 DEF CreateLibraryFolder, Steps
  <1>4. CASE PrepareIconFile
    <2>1. Told
      BY <1>4, ToldUnnoticed, ToldByExit DEF PrepareIconFile
    <2>2. QED
      BY <1>4, <2>1 DEF PrepareIconFile, Steps
  <1>5. CASE CopyLve
    <2>1. Told
      BY <1>5, ToldUnnoticed, ToldByExit DEF CopyLve
    <2>2. QED
      BY <1>5, <2>1 DEF CopyLve, Steps
  <1>6. CASE CopyExtraFiles
    <2>1. Told
      BY <1>6, ToldUnnoticed, ToldByExit DEF CopyExtraFiles, CopyTree, CopyTreeWindows
    <2>2. QED
      BY <1>6, <2>1 DEF CopyExtraFiles, Steps
  <1>7. CASE CreateManifestFile
    <2>1. Told
      BY <1>7, ToldUnnoticed, ToldByExit DEF CreateManifestFile, Writes
    <2>2. QED
      BY <1>7, <2>1 DEF CreateManifestFile, Steps
  <1>8. CASE EncryptFiles
    <2>1. Told
      BY <1>8, ToldUnnoticed, ToldByExit DEF EncryptFiles
    <2>2. QED
      BY <1>8, <2>1 DEF EncryptFiles, Steps
  <1>9. CASE CreateZipArchive
    <2>1. Told
      BY <1>9, ToldUnnoticed, ToldByExit
         DEF CreateZipArchive, CreateZipArchivePosix, CreateZipArchiveWindows
    <2>2. QED
      BY <1>9, <2>1 DEF CreateZipArchive, Steps
  <1>10. CASE DeleteTemporaryStagingFolder
    <2>1. Told
      BY <1>10, ToldUnnoticed, ToldByExit DEF DeleteTemporaryStagingFolder
    <2>2. QED
      BY <1>10, <2>1 DEF DeleteTemporaryStagingFolder, Steps
  <1>11. QED
    BY <1>1, <1>2, <1>3, <1>4, <1>5, <1>6, <1>7, <1>8, <1>9, <1>10 DEF Step

\* Every step keeps to that.
LEMMA FaultsStep == OnlyUnnoticed /\ [Next]_vars => OnlyUnnoticed'
  <1> SUFFICES ASSUME OnlyUnnoticed, [Next]_vars PROVE OnlyUnnoticed'
    OBVIOUS
  <1>1. CASE Start
    BY <1>1 DEF Start, OnlyUnnoticed
  <1>2. CASE Killed
    BY <1>2 DEF Killed, OnlyUnnoticed, Steps
  <1>3. CASE UNCHANGED vars
    BY <1>3 DEF vars, OnlyUnnoticed
  <1>4. CASE Step /\ ~Start /\ ~Killed
    <2>1. Told /\ pc \in Steps
      BY <1>4, StepIsTold
    <2>2. QED
      BY <2>1 DEF Told, OnlyUnnoticed, Steps
  <1>5. QED
    BY <1>1, <1>2, <1>3, <1>4 DEF Next

\* Exit code 0 says that nothing failed but what the code never looks at.
THEOREM SuccessIsSound == Spec => []FaultsAreTold
  <1>1. Init => OnlyUnnoticed
    BY DEF Init, OnlyUnnoticed
  <1>2. OnlyUnnoticed => FaultsAreTold
    BY DEF OnlyUnnoticed, FaultsAreTold, Succeeded
  <1>3. QED
    BY <1>1, <1>2, FaultsStep, PTL DEF Spec

-----------------------------------------------------------------------------
(* The previous container.                                                   *)

\* Before zipping has begun the archive is the one the run found; where the
\* process ended before, it still is.
Untouched ==
  /\ pc \in Steps \ {"remove"} => archive = before
  /\ pc = "exited" /\ exitCode \notin {0, 9} => archive = before

\* Only zipping, and what ends the process in the middle of it, touches the
\* archive.
LEMMA UntouchedStep == Untouched /\ [Next]_vars => Untouched'
  <1> SUFFICES ASSUME Untouched, [Next]_vars PROVE Untouched'
    OBVIOUS
  <1> USE DEF Untouched, Steps
  <1>1. CASE Start
    BY <1>1 DEF Start
  <1>2. CASE Killed
    BY <1>2 DEF Killed
  <1>3. CASE UNCHANGED vars
    BY <1>3 DEF vars
  <1>4. ASSUME pc \in Steps \ {"remove"}, UNCHANGED <<archive, before>> PROVE Untouched'
    BY <1>4
  <1>5. CASE ValidateArguments
    BY <1>4, <1>5 DEF ValidateArguments
  <1>6. CASE CopyFolderStructure \/ CreateLibraryFolder \/ PrepareIconFile
    BY <1>4, <1>6 DEF CopyFolderStructure, CreateLibraryFolder, PrepareIconFile
  <1>7. CASE CopyLve \/ CopyExtraFiles \/ CreateManifestFile
    BY <1>4, <1>7 DEF CopyLve, CopyExtraFiles, CreateManifestFile
  <1>8. CASE EncryptFiles
    BY <1>4, <1>8 DEF EncryptFiles
  <1>9. CASE CreateZipArchive
    <2>1. pc' \in {"remove", "crashed"} \/ (pc' = "exited" /\ exitCode' = 9)
      BY <1>9 DEF CreateZipArchive, CreateZipArchivePosix, CreateZipArchiveWindows, Go, Exit, Crash
    <2>2. QED
      BY <2>1
  <1>10. CASE DeleteTemporaryStagingFolder
    BY <1>10 DEF DeleteTemporaryStagingFolder, Exit
  <1>11. QED
    BY <1>1, <1>2, <1>3, <1>5, <1>6, <1>7, <1>8, <1>9, <1>10 DEF Next, Step

\* There is no archive at first.
LEMMA UntouchedInit == Init => Untouched
  BY DEF Init, Untouched, Steps

\* A run that fails before everything is ready to be zipped leaves the previous
\* container alone.
THEOREM ContainerKept == Spec => []OldArchiveKept
  <1>1. Untouched => OldArchiveKept
    BY DEF Untouched, OldArchiveKept, FailedCleanly
  <1>2. QED
    BY <1>1, UntouchedInit, UntouchedStep, PTL DEF Spec

-----------------------------------------------------------------------------
(* The clear text.                                                           *)

ClearInv == Untouched /\ NothingInClear

\* Whatever part of the files to archive gets into the archive, the Modelica
\* files are not among them (zipDirectoryLinux, zipDirectoryWin32).
LEMMA ArchivedIsNotClear ==
  ASSUME UsingEncryption, NEW S \in {ToArchive} \cup Begun,
         archive' = Archive([f \in S |-> staged[f]])
  PROVE  \A f \in DOMAIN archive'.files : ~IsModelica(f)
  <1>1. S \subseteq ToArchive
    BY DEF Begun, kSubset
  <1>2. QED
    BY <1>1 DEF Archive, ToArchive

\* No step puts clear text into an archive: zipping leaves it out, all others
\* leave the archive alone, and only the first decides on encryption.
LEMMA ClearStep == ClearInv /\ [Next]_vars => ClearInv'
  <1> SUFFICES ASSUME ClearInv, [Next]_vars PROVE NothingInClear'
    BY UntouchedStep DEF ClearInv
  <1> USE DEF ClearInv
  <1>1. CASE Start
    BY <1>1 DEF Start, NothingInClear, UsingEncryption, UsesEncryption
  <1>2. ASSUME UNCHANGED <<archive, before>>, archive = before PROVE NothingInClear'
    BY <1>2 DEF NothingInClear
  <1>3. CASE ValidateArguments \/ CopyFolderStructure \/ CreateLibraryFolder \/ PrepareIconFile
    BY <1>2, <1>3 DEF Untouched, Steps, ValidateArguments, CopyFolderStructure,
       CreateLibraryFolder, PrepareIconFile
  <1>4. CASE CopyLve \/ CopyExtraFiles \/ CreateManifestFile \/ EncryptFiles
    BY <1>2, <1>4 DEF Untouched, Steps, CopyLve, CopyExtraFiles, CreateManifestFile, EncryptFiles
  <1>5. ASSUME UNCHANGED <<archive, before, options>>, faults \subseteq faults'
        PROVE  NothingInClear'
    BY <1>5 DEF NothingInClear, UsingEncryption, UsesEncryption, IsModelica
  <1>6. CASE DeleteTemporaryStagingFolder
    BY <1>5, <1>6 DEF DeleteTemporaryStagingFolder, Well, Fails
  <1>7. CASE UNCHANGED vars
    BY <1>5, <1>7 DEF vars
  <1>8. ASSUME UsingEncryption => \A f \in DOMAIN archive'.files : ~IsModelica(f),
               UNCHANGED options
        PROVE  NothingInClear'
    BY <1>8 DEF NothingInClear, UsingEncryption, UsesEncryption, IsModelica
  <1>9. ASSUME archive' = NoArchive, UNCHANGED options PROVE NothingInClear'
    BY <1>8, <1>9 DEF NoArchive, NoFolder
  <1>10. ASSUME NEW S \in {ToArchive} \cup Begun, archive' = Archive([f \in S |-> staged[f]]),
                UNCHANGED options
         PROVE  NothingInClear'
    BY <1>8, <1>10, ArchivedIsNotClear
  <1>11. CASE Killed
    <2>1. CASE UNCHANGED archive
      BY <1>5, <1>11, <2>1 DEF Killed
    <2>2. CASE ~UNCHANGED archive
      BY <1>9, <1>10, <1>11, <2>2 DEF Killed
    <2>3. QED
      BY <2>1, <2>2
  <1>12. CASE CreateZipArchive /\ ~windows
    BY <1>9, <1>10, <1>12 DEF CreateZipArchive, CreateZipArchivePosix
  <1>13. CASE CreateZipArchive /\ windows
    <2>1. CASE Fails("the previous archive")
      BY <2>1 DEF Fails, NothingInClear
    <2>2. CASE ~Fails("the previous archive")
      <3>1. \/ archive' = NoArchive
            \/ \E S \in {ToArchive} \cup Begun :
                 archive' = Archive([f \in S |-> staged[f]])
        <4>1. \A S : Over([f \in S |-> staged[f]], NoArchive.files) = [f \in S |-> staged[f]]
          BY DEF Over, NoArchive, NoFolder
        <4>2. \/ archive' = NoArchive
              \/ \E S \in {ToArchive} \cup Begun :
                   archive' = Archive(Over([f \in S |-> staged[f]], NoArchive.files))
          BY <1>13, <2>2 DEF CreateZipArchive, CreateZipArchiveWindows
        <4>3. QED
          BY <4>1, <4>2
      <3>2. UNCHANGED options
        BY <1>13 DEF CreateZipArchive
      <3>3. QED
        BY <1>9, <1>10, <3>1, <3>2
    <2>3. QED
      BY <2>1, <2>2
  <1>14. QED
    BY <1>1, <1>3, <1>4, <1>6, <1>7, <1>11, <1>12, <1>13 DEF Next, Step

\* An encrypted container holds no Modelica file in clear, for every library and
\* every way a run can end, unless the previous archive could not be removed.
THEOREM NoClearText == Spec => []NothingInClear
  <1>1. Init => ClearInv
    BY UntouchedInit DEF Init, ClearInv, NothingInClear
  <1>2. ClearInv => NothingInClear
    BY DEF ClearInv
  <1>3. QED
    BY <1>1, <1>2, ClearStep, PTL DEF Spec

-----------------------------------------------------------------------------
(* Arguments. *)

\* The order of the natural numbers as a relation.
LEMMA LessThan == OpToRel(<, Nat) = {ss \in Nat \X Nat : ss[1] < ss[2]}
  BY DEF OpToRel

\* A set of numbers that is not empty has a least one.
LEMMA LeastNumber ==
  ASSUME NEW S \in SUBSET Nat, S # {}
  PROVE  \E m \in S : \A x \in S : m <= x
  <1> DEFINE R == {ss \in Nat \X Nat : ss[1] < ss[2]}
  <1>1. IsWellFoundedOn(R, Nat)
    BY LessThan, NatLessThanWellFounded, Zenon
  <1>2. PICK m \in S : \A x \in S : ~(<<x, m>> \in R)
    BY <1>1, WFMin
  <1>3. ASSUME NEW x \in S PROVE m <= x
    <2>1. m \in Nat /\ x \in Nat /\ <<x, m>> \in Nat \X Nat /\ <<x, m>>[1] = x /\ <<x, m>>[2] = m
      OBVIOUS
    <2>2. ~(x < m)
      BY <1>2, <2>1
    <2>3. QED
      BY <2>1, <2>2
  <1>4. QED
    BY <1>3

\* One pair of an option and its value read, on top of what was read before it.
ReadOne(args, last, n) ==
  [ok      |-> /\ last.ok /\ args[2*n - 1] \in Options /\ args[2*n] # ""
               /\ args[2*n - 1] \notin DOMAIN last.options,
   options |-> Over(last.options, File(args[2*n - 1], args[2*n]))]
NothingRead == [ok |-> TRUE, options |-> [o \in {} |-> ""]]
ReadSoFar(args, g, k) == [n \in 0..k |-> IF n = 0 THEN NothingRead ELSE ReadOne(args, g[n-1], n)]

\* The walk over argv of validateArguments can be made, however long it is.
LEMMA WalkExists ==
  ASSUME NEW args, NEW k \in Nat
  PROVE  \E g : g = ReadSoFar(args, g, k)
  <1> DEFINE Walks(m) == \E g : g = ReadSoFar(args, g, m)
             S == {m \in Nat : ~Walks(m)}
  <1>1. SUFFICES S = {}
    OBVIOUS
  <1>2. SUFFICES ASSUME S # {} PROVE FALSE
    OBVIOUS
  <1>3. PICK m \in S : \A x \in S : m <= x
    BY <1>2, LeastNumber
  <1>4. m # 0
    <2>1. Walks(0)
      <3> DEFINE g == [n \in 0..0 |-> NothingRead]
      <3>1. g = ReadSoFar(args, g, 0)
        BY DEF ReadSoFar
      <3>2. QED
        BY <3>1
    <2>2. QED
      BY <2>1, <1>3
  <1>5. m - 1 \in Nat /\ m - 1 \notin S
    BY <1>3, <1>4
  <1>6. Walks(m - 1)
    BY <1>5
  <1>7. PICK g : g = ReadSoFar(args, g, m - 1)
    BY <1>6
  <1> DEFINE h == [n \in 0..m |-> IF n = m THEN ReadOne(args, g[m-1], m) ELSE g[n]]
  <1>8. h = ReadSoFar(args, h, m)
    <2>1. ASSUME NEW n \in 0..m
          PROVE  h[n] = IF n = 0 THEN NothingRead ELSE ReadOne(args, h[n-1], n)
      <3>1. CASE n = 0
        BY <1>4, <1>5, <1>7, <3>1 DEF ReadSoFar
      <3>2. CASE n = m
        BY <1>4, <1>5, <3>2
      <3>3. CASE n # 0 /\ n # m
        <4>1. n \in 0..m-1 /\ n - 1 \in 0..m /\ n - 1 # m
          BY <3>3, <1>5
        <4>2. g[n] = ReadOne(args, g[n-1], n)
          BY <1>7, <3>3, <4>1 DEF ReadSoFar
        <4>3. QED
          BY <3>3, <4>1, <4>2
      <3>4. QED
        BY <3>1, <3>2, <3>3
    <2>2. QED
      BY <2>1 DEF ReadSoFar
  <1>9. Walks(m)
    BY <1>8
  <1>10. QED
    BY <1>3, <1>9

TheWalk(args) == CHOOSE g : g = ReadSoFar(args, g, Len(args) \div 2)

\* Where a pair of arguments is found on the command line.
LEMMA HalfLength ==
  ASSUME NEW args \in Seq(STRING)
  PROVE  /\ Len(args) \div 2 \in Nat
         /\ \A n \in 1..(Len(args) \div 2) : 2*n - 1 \in DOMAIN args /\ 2*n \in DOMAIN args
         /\ Len(args) % 2 = 0 => Len(args) = 2 * (Len(args) \div 2)
  <1>1. Len(args) \in Nat /\ DOMAIN args = 1..Len(args)
    OBVIOUS
  <1> DEFINE l == Len(args)
             k == l \div 2
  <1>2. l \in Nat
    OBVIOUS
  <1> HIDE DEF l
  <1>3. k \in Nat /\ 2 * k <= l /\ (l % 2 = 0 => l = 2 * k)
    BY <1>2
  <1> HIDE DEF k
  <1>4. ASSUME NEW n \in 1..k PROVE 2*n - 1 \in 1..l /\ 2*n \in 1..l
    BY <1>2, <1>3
  <1>5. QED
    BY <1>1, <1>3, <1>4 DEF k, l

\* What the tool takes from a command line is that walk.
LEMMA ParsedIsTheWalk ==
  ASSUME NEW args \in Seq(STRING)
  PROVE  LET k == Len(args) \div 2 IN
         /\ TheWalk(args) = ReadSoFar(args, TheWalk(args), k)
         /\ Parsed(args) = [TheWalk(args)[k] EXCEPT !.ok = @ /\ Len(args) % 2 = 0]
  <1> DEFINE k == Len(args) \div 2
  <1>1. k \in Nat
    BY HalfLength
  <1>2. TheWalk(args) = ReadSoFar(args, TheWalk(args), k)
    BY <1>1, WalkExists DEF TheWalk
  <1>3. Parsed(args) = [TheWalk(args)[k] EXCEPT !.ok = @ /\ Len(args) % 2 = 0]
    BY DEF Parsed, TheWalk, ReadSoFar, ReadOne, NothingRead
  <1>4. QED
    BY <1>2, <1>3
\* What has been read after n pairs, as far as all of it was good: n options the
\* tool knows, each with the value that follows it.
ReadWell(args, r, n) ==
  r.ok =>
    /\ DOMAIN r.options \subseteq Options
    /\ IsFiniteSet(DOMAIN r.options) /\ Cardinality(DOMAIN r.options) = n
    /\ \A o \in DOMAIN r.options :
         \E j \in 1..n : args[2*j - 1] = o /\ args[2*j] = r.options[o]

\* Reading one more option keeps to that.
LEMMA OneMoreRead ==
  ASSUME NEW args \in Seq(STRING), NEW last, NEW n \in Nat, ReadWell(args, last, n)
  PROVE  ReadWell(args, ReadOne(args, last, n + 1), n + 1)
  <1> DEFINE r == ReadOne(args, last, n + 1)
             key == args[2*(n + 1) - 1]
             value == args[2*(n + 1)]
  <1> SUFFICES ASSUME r.ok
               PROVE  /\ DOMAIN r.options \subseteq Options
                      /\ IsFiniteSet(DOMAIN r.options) /\ Cardinality(DOMAIN r.options) = n + 1
                      /\ \A o \in DOMAIN r.options :
                           \E j \in 1..n+1 : args[2*j - 1] = o /\ args[2*j] = r.options[o]
    BY DEF ReadWell
  <1>1. /\ last.ok /\ key \in Options /\ key \notin DOMAIN last.options
        /\ r.options = Over(last.options, File(key, value))
    BY DEF ReadOne
  <1> HIDE DEF r
  <1>2. /\ DOMAIN last.options \subseteq Options
        /\ IsFiniteSet(DOMAIN last.options) /\ Cardinality(DOMAIN last.options) = n
        /\ \A o \in DOMAIN last.options :
             \E j \in 1..n : args[2*j - 1] = o /\ args[2*j] = last.options[o]
    BY <1>1 DEF ReadWell
  <1>3. /\ DOMAIN r.options = DOMAIN last.options \cup {key}
        /\ r.options[key] = value
        /\ \A o \in DOMAIN last.options : r.options[o] = last.options[o]
    BY <1>1 DEF Over, File
  <1>4. IsFiniteSet(DOMAIN r.options) /\ Cardinality(DOMAIN r.options) = n + 1
    <2>1. IsFiniteSet(DOMAIN last.options \cup {key}) /\ Cardinality(DOMAIN last.options \cup {key}) = n + 1
      <3> HIDE DEF key
      <3>1. IsFiniteSet(DOMAIN last.options) /\ key \notin DOMAIN last.options
        BY <1>1, <1>2
      <3>2. QED
        BY <1>2, <3>1, FS_AddElement
    <2>2. QED
      BY <1>3, <2>1
  <1>5. ASSUME NEW o \in DOMAIN r.options
        PROVE  \E j \in 1..n+1 : args[2*j - 1] = o /\ args[2*j] = r.options[o]
    <2>1. CASE o = key
      <3>1. n + 1 \in 1..n+1
        OBVIOUS
      <3>2. QED
        BY <2>1, <1>3, <3>1
    <2>2. CASE o # key
      <3>1. o \in DOMAIN last.options
        BY <1>3, <2>2
      <3>2. PICK j \in 1..n : args[2*j - 1] = o /\ args[2*j] = last.options[o]
        BY <1>2, <3>1
      <3>3. j \in 1..n+1
        OBVIOUS
      <3>4. QED
        BY <1>3, <3>1, <3>2, <3>3
    <2>3. QED
      BY <2>1, <2>2
  <1>6. QED
    BY <1>1, <1>2, <1>3, <1>4, <1>5

\* Every stretch of the walk has that property.
LEMMA WalkReadsWell ==
  ASSUME NEW args \in Seq(STRING), NEW g, NEW k \in Nat, g = ReadSoFar(args, g, k)
  PROVE  ReadWell(args, g[k], k)
  <1> DEFINE S == {n \in 0..k : ~ReadWell(args, g[n], n)}
  <1>1. SUFFICES ASSUME S # {} PROVE FALSE
    OBVIOUS
  <1>2. PICK m \in S : \A x \in S : m <= x
    <2>1. S \in SUBSET Nat
      OBVIOUS
    <2>2. QED
      BY <1>1, <2>1, LeastNumber
  <1>3. ReadWell(args, g[0], 0)
    <2>1. g[0] = NothingRead
      BY DEF ReadSoFar
    <2>2. DOMAIN NothingRead.options = {}
      BY DEF NothingRead
    <2>3. IsFiniteSet({}) /\ Cardinality({}) = 0
      BY FS_EmptySet
    <2>4. QED
      BY <2>1, <2>2, <2>3 DEF ReadWell
  <1>4. m \in 0..k /\ m # 0
    BY <1>2, <1>3
  <1>5. m - 1 \in 0..k /\ m - 1 \in Nat /\ ReadWell(args, g[m-1], m-1)
    BY <1>2, <1>4
  <1>6. g[m] = ReadOne(args, g[m-1], m)
    BY <1>4 DEF ReadSoFar
  <1> DEFINE p == m - 1
  <1>7. ReadWell(args, ReadOne(args, g[p], p+1), p+1)
    <2> HIDE DEF p
    <2>1. p \in Nat /\ ReadWell(args, g[p], p)
      BY <1>5 DEF p
    <2>2. QED
      BY <2>1, OneMoreRead
  <1>8. p + 1 = m
    BY <1>4
  <1>9. ReadWell(args, g[m], m)
    BY <1>6, <1>7, <1>8
  <1>10. QED
    BY <1>2, <1>9

\* A command line that is accepted is read in full, two arguments for an option.
LEMMA AcceptedIsReadWell ==
  ASSUME NEW args \in Seq(STRING), Parsed(args).ok
  PROVE  LET g == Parsed(args).options IN
         /\ DOMAIN g \subseteq Options
         /\ Len(args) = 2 * Cardinality(DOMAIN g)
         /\ \A o \in DOMAIN g : \E i \in DOMAIN args : i % 2 = 1 /\ args[i] = o /\ args[i + 1] = g[o]
  <1> DEFINE k == Len(args) \div 2
             r == TheWalk(args)[k]
             g == Parsed(args).options
  <1>1. k \in Nat
    BY HalfLength
  <1>2. ReadWell(args, r, k)
    BY <1>1, ParsedIsTheWalk, WalkReadsWell
  <1>3. r.ok /\ Len(args) % 2 = 0 /\ g = r.options
    <2>1. Parsed(args) = [r EXCEPT !.ok = @ /\ Len(args) % 2 = 0]
      BY ParsedIsTheWalk
    <2>2. r = IF k = 0 THEN NothingRead ELSE ReadOne(args, TheWalk(args)[k-1], k)
      <3> HIDE DEF k
      <3>1. TheWalk(args) = ReadSoFar(args, TheWalk(args), k)
        BY ParsedIsTheWalk DEF k
      <3>2. QED
        BY <1>1, <3>1 DEF ReadSoFar
    <2>3. DOMAIN r = {"ok", "options"}
      BY <2>2 DEF NothingRead, ReadOne
    <2> HIDE DEF r
    <2>4. g = r.options
      BY <2>1, <2>3
    <2>5. r.ok /\ Len(args) % 2 = 0
      BY <2>1, <2>3
    <2>6. QED
      BY <2>4, <2>5
  <1> HIDE DEF r, k, g
  <1>4. /\ DOMAIN g \subseteq Options /\ Cardinality(DOMAIN g) = k
        /\ \A o \in DOMAIN g : \E j \in 1..k : args[2*j - 1] = o /\ args[2*j] = g[o]
    BY <1>2, <1>3 DEF ReadWell
  <1>5. Len(args) = 2 * Cardinality(DOMAIN g)
    BY <1>3, <1>4, HalfLength DEF k
  <1>6. ASSUME NEW o \in DOMAIN g
        PROVE  \E i \in DOMAIN args : i % 2 = 1 /\ args[i] = o /\ args[i + 1] = g[o]
    <2>1. PICK j \in 1..k : args[2*j - 1] = o /\ args[2*j] = g[o]
      BY <1>4
    <2>2. 2*j - 1 \in DOMAIN args
      BY HalfLength DEF k
    <2>3. (2*j - 1) % 2 = 1 /\ (2*j - 1) + 1 = 2*j
      BY <1>1
    <2>4. QED
      BY <2>1, <2>2, <2>3
  <1>7. QED
    BY <1>4, <1>5, <1>6 DEF g

\* The command line was accepted, and the options are what was read from it.
Accepted ==
  /\ ~HelpRequested(argv) /\ Parsed(argv).ok
  /\ options = Parsed(argv).options /\ Valid(options)

ArgInv ==
  /\ argv \in Seq(STRING)
  /\ pc = "validate" => options = [o \in {} |-> ""]
  /\ pc \in Steps \ {"validate"} \/ Succeeded => Accepted

\* The steps past the validation.
Later ==
  \/ CopyFolderStructure \/ CreateLibraryFolder \/ PrepareIconFile \/ CopyLve \/ CopyExtraFiles
  \/ CreateManifestFile \/ EncryptFiles \/ CreateZipArchive \/ DeleteTemporaryStagingFolder

\* They keep what was read, and come after it.
LEMMA LaterKeepsArguments ==
  Later => UNCHANGED <<run, argv, options>> /\ pc \in Steps \ {"validate"}
  <1>1. CASE CopyFolderStructure \/ CreateLibraryFolder \/ PrepareIconFile
    BY <1>1 DEF CopyFolderStructure, CreateLibraryFolder, PrepareIconFile, Steps
  <1>2. CASE CopyLve \/ CopyExtraFiles \/ CreateManifestFile
    BY <1>2 DEF CopyLve, CopyExtraFiles, CreateManifestFile, Steps
  <1>3. CASE EncryptFiles \/ CreateZipArchive \/ DeleteTemporaryStagingFolder
    BY <1>3 DEF EncryptFiles, CreateZipArchive, DeleteTemporaryStagingFolder, Steps
  <1>4. QED
    BY <1>1, <1>2, <1>3 DEF Later

\* Nothing has been read at first.
LEMMA ArgInit == Init => ArgInv
  BY DEF Init, ArgInv, Steps, Succeeded

\* Only the validation changes the options, and goes on only with options it
\* accepts.
LEMMA ArgStep == ArgInv /\ [Next]_vars => ArgInv'
  <1> SUFFICES ASSUME ArgInv, [Next]_vars PROVE ArgInv'
    OBVIOUS
  <1>1. CASE Start
    <2>1. argv' \in Seq(STRING)
      BY <1>1, ArgumentAssumption DEF Start
    <2>2. pc' = "validate" /\ options' = [o \in {} |-> ""]
      BY <1>1 DEF Start
    <2>3. QED
      BY <2>1, <2>2 DEF ArgInv, Succeeded, Steps
  <1>2. CASE ValidateArguments
    <2>1. UNCHANGED argv /\ pc' # "validate"
      BY <1>2 DEF ValidateArguments, Exit, Go
    <2>2. CASE HelpRequested(argv)
      <3>1. pc' = "exited"
        BY <1>2, <2>2 DEF ValidateArguments, Exit
      <3>2. QED
        BY <2>1, <2>2, <3>1 DEF ArgInv, Succeeded, Steps, HelpRequested
    <2>3. CASE ~HelpRequested(argv) /\ pc' = "copy"
      <3>1. Accepted'
        BY <1>2, <2>1, <2>3 DEF ValidateArguments, Exit, Accepted
      <3>2. QED
        BY <2>1, <3>1 DEF ArgInv
    <2>4. CASE ~HelpRequested(argv) /\ pc' # "copy"
      <3>1. pc' = "exited" /\ exitCode' = 1
        BY <1>2, <2>4 DEF ValidateArguments, Exit, Go
      <3>2. QED
        BY <2>1, <3>1 DEF ArgInv, Succeeded, Steps
    <2>5. QED
      BY <2>2, <2>3, <2>4
  <1>3. CASE Later
    <2>1. UNCHANGED <<argv, options>> /\ Accepted /\ pc \in Steps \ {"validate"}
      BY <1>3, LaterKeepsArguments DEF ArgInv
    <2>2. Accepted'
      BY <2>1 DEF Accepted
    <2>3. pc' # "validate"
      <3>1. CASE CopyFolderStructure \/ CreateLibraryFolder \/ PrepareIconFile
        BY <3>1 DEF CopyFolderStructure, CreateLibraryFolder, PrepareIconFile, CopyTreeWindows,
           NoStagingFolder, Go, Exit, Crash
      <3>2. CASE CopyLve \/ CopyExtraFiles \/ CreateManifestFile
        BY <3>2 DEF CopyLve, CopyExtraFiles, CreateManifestFile, CopyTreeWindows, Go, Exit, Crash
      <3>3. CASE EncryptFiles \/ CreateZipArchive \/ DeleteTemporaryStagingFolder
        BY <3>3 DEF EncryptFiles, CreateZipArchive, CreateZipArchivePosix, CreateZipArchiveWindows,
           DeleteTemporaryStagingFolder, Go, Exit, Crash
      <3>4. QED
        BY <1>3, <3>1, <3>2, <3>3 DEF Later
    <2>4. QED
      BY <2>1, <2>2, <2>3 DEF ArgInv
  <1>4. CASE Killed
    BY <1>4 DEF Killed, ArgInv, Succeeded, Steps
  <1>5. CASE UNCHANGED vars
    <2>1. UNCHANGED <<argv, options, pc, exitCode>>
      BY <1>5 DEF vars
    <2>2. Accepted' = Accepted /\ Succeeded' = Succeeded
      BY <2>1 DEF Accepted, Succeeded
    <2>3. QED
      BY <2>1, <2>2 DEF ArgInv
  <1>6. QED
    BY <1>1, <1>2, <1>3, <1>4, <1>5 DEF Next, Step, Later

\* Only what the command line says is worked with, in every state.
THEOREM ArgumentsHold == Spec => []ArgInv
  BY ArgInit, ArgStep, PTL DEF Spec

\* What the later steps work with is what the command line says, whatever its
\* length: each option with the value that follows it, none twice, nothing left
\* over (the walk over argv of validateArguments).
THEOREM CommandLineTakenAsGiven == Spec => []OptionsAsGiven
  <1>1. ArgInv => OptionsAsGiven
    <2> SUFFICES ASSUME ArgInv, pc \in Steps \ {"validate"}
                 PROVE  /\ Len(argv) = 2 * Cardinality(DOMAIN options)
                        /\ \A o \in DOMAIN options :
                             \E i \in DOMAIN argv : i % 2 = 1 /\ argv[i] = o /\ argv[i + 1] = options[o]
      BY DEF OptionsAsGiven
    <2>1. argv \in Seq(STRING) /\ Parsed(argv).ok /\ options = Parsed(argv).options
      BY DEF ArgInv, Accepted
    <2>2. QED
      BY <2>1, AcceptedIsReadWell
  <1>2. QED
    BY <1>1, ArgumentsHold, PTL

-----------------------------------------------------------------------------
(* Types. *)

\* The names that occur in paths.
FileNames == STRING \cup {DotLibrary, "manifest.xml"} \cup Lves \cup {Moc[n] : n \in Modelica}
FilePaths == Seq(FileNames) \ {<<>>}

FolderTypes ==
  /\ run \in 0..MaxRuns
  /\ pc \in Stopped \cup Steps
  /\ exitCode \in -1..9
  /\ DOMAIN staged \subseteq FilePaths
  /\ DOMAIN archive.files \subseteq FilePaths
  /\ archive.usable \in BOOLEAN
  /\ lveList \subseteq Lves

\* The files of a folder others are written into.
LEMMA DomainOver == \A new, old : DOMAIN Over(new, old) = DOMAIN new \cup DOMAIN old
  BY DEF Over

\* A file is a folder of one.
LEMMA DomainFile == \A f, c : DOMAIN File(f, c) = {f}
  BY DEF File

\* Sequences.
LEMMA SeqMonotone ==
  ASSUME NEW S, NEW T, S \subseteq T, NEW f \in Seq(S)
  PROVE  f \in Seq(T)
  <1>1. Len(f) \in Nat /\ f \in [1..Len(f) -> T]
    OBVIOUS
  <1>2. QED
    BY <1>1

\* Paths of one and of two names.
LEMMA ShortSeqs ==
  ASSUME NEW S, NEW m \in S, NEW n \in S
  PROVE  <<m>> \in Seq(S) \ {<<>>} /\ <<m, n>> \in Seq(S) \ {<<>>}
  <1>1. <<m>> \in Seq(S) /\ <<m, n>> \in Seq(S)
    OBVIOUS
  <1>2. <<m>> # <<>> /\ <<m, n>> # <<>>
    OBVIOUS
  <1>3. QED
    BY <1>1, <1>2

\* A path below a folder, and the path without that folder.
LEMMA PrefixedSeqs ==
  ASSUME NEW S, NEW m \in S, NEW f \in Seq(S)
  PROVE  /\ <<m>> \o f \in Seq(S) \ {<<>>}
         /\ Tail(<<m>> \o f) = f
  <1>1. <<m>> \in Seq(S) /\ Len(<<m>>) = 1
    OBVIOUS
  <1>2. <<m>> \o f \in Seq(S) /\ Len(<<m>> \o f) = 1 + Len(f)
    BY <1>1
  <1>3. <<m>> \o f # <<>>
    BY <1>2
  <1>4. Tail(<<m>> \o f) = f
    <2> DEFINE t == Tail(<<m>> \o f)
    <2>1. t \in Seq(S) /\ Len(t) = Len(f)
      BY <1>2, <1>3
    <2>2. \A i \in 1..Len(f) : t[i] = f[i]
      BY <1>1, <1>2, <1>3
    <2>3. QED
      BY <2>1, <2>2
  <1>5. QED
    BY <1>2, <1>3, <1>4

\* A path whose last name is replaced.
LEMMA ReplacedLast ==
  ASSUME NEW S, NEW n \in S, NEW f \in Seq(S) \ {<<>>}
  PROVE  /\ Append(Front(f), n) \in Seq(S) \ {<<>>}
         /\ Last(Append(Front(f), n)) = n
  <1> DEFINE p == Front(f)
             m == Append(p, n)
  <1>1. Len(f) \in Nat /\ Len(f) # 0
    OBVIOUS
  <1>2. p \in Seq(S)
    BY <1>1 DEF Front
  <1> HIDE DEF p
  <1>3. m \in Seq(S) /\ Len(m) = Len(p) + 1 /\ m[Len(p) + 1] = n /\ Len(p) \in Nat
    BY <1>2
  <1> HIDE DEF m
  <1>4. Len(m) # 0
    BY <1>3
  <1>5. m # <<>>
    BY <1>4
  <1>6. QED
    BY <1>3, <1>5 DEF Last, m, p

\* A path below .library is a path.
LEMMA BelowDotLibrary == \A f \in FilePaths : <<DotLibrary>> \o f \in FilePaths
  <1>1. DotLibrary \in FileNames
    BY DEF FileNames
  <1>2. QED
    BY <1>1, PrefixedSeqs DEF FilePaths

\* The paths the assumption speaks of.
LEMMA GivenPaths == Library \cup Extras \subseteq FilePaths
  <1>1. ASSUME NEW f \in Library \cup Extras PROVE f \in FilePaths
    <2>1. f \in Seq(STRING) /\ f # <<>>
      BY FileAssumption
    <2>2. STRING \subseteq FileNames
      BY DEF FileNames
    <2>3. f \in Seq(FileNames)
      BY <2>1, <2>2, SeqMonotone
    <2>4. QED
      BY <2>1, <2>3 DEF FilePaths
  <1>2. QED
    BY <1>1

\* Every folder the tool copies from holds files with proper paths.
LEMMA TreesAreFolders ==
  /\ DOMAIN LibraryTree \subseteq FilePaths
  /\ DOMAIN ExtraTree \subseteq FilePaths
  /\ DOMAIN LveTree \subseteq FilePaths
  /\ ManifestFile \in FilePaths
  <1>1. DOMAIN LibraryTree \subseteq FilePaths
    BY GivenPaths DEF LibraryTree
  <1>2. DOMAIN ExtraTree \subseteq FilePaths
    BY GivenPaths, BelowDotLibrary DEF ExtraTree
  <1>3. ASSUME NEW n \in FileNames PROVE <<DotLibrary, n>> \in FilePaths
    <2>1. DotLibrary \in FileNames
      BY DEF FileNames
    <2>2. QED
      BY <2>1, ShortSeqs DEF FilePaths
  <1>4. DOMAIN LveTree \subseteq FilePaths
    <2>1. Lves \subseteq FileNames
      BY DEF FileNames
    <2>2. QED
      BY <1>3, <2>1 DEF LveTree
  <1>5. ManifestFile \in FilePaths
    <2>1. "manifest.xml" \in FileNames
      BY DEF FileNames
    <2>2. QED
      BY <1>3, <2>1 DEF ManifestFile
  <1>6. QED
    BY <1>1, <1>2, <1>4, <1>5

\* The name of an encrypted file is a proper one, and not that of a Modelica file.
LEMMA MocFileIsPath ==
  ASSUME NEW f \in FilePaths, IsModelica(f)
  PROVE  /\ MocFile(f) \in FilePaths /\ ~IsModelica(MocFile(f))
  <1> DEFINE x == IF windows /\ Last(f) \in PackageNames THEN "package.mo" ELSE Last(f)
             n == Moc[x]
  <1>1. x \in Modelica
    BY FileAssumption DEF IsModelica
  <1> HIDE DEF x
  <1>2. n \in FileNames /\ n \notin Modelica
    BY <1>1, FileAssumption DEF FileNames
  <1>3. MocFile(f) = Append(Front(f), n)
    BY DEF MocFile, x
  <1> HIDE DEF n
  <1>4. MocFile(f) \in FilePaths /\ Last(MocFile(f)) = n
    BY <1>2, <1>3, ReplacedLast DEF FilePaths
  <1>5. QED
    BY <1>2, <1>4 DEF IsModelica

\* Staging adds files and takes none away.
Stages(tree) ==
  /\ DOMAIN staged \subseteq DOMAIN staged'
  /\ DOMAIN staged' \subseteq DOMAIN staged \cup DOMAIN tree

\* Writing part of a tree into the staging folder stages it.
LEMMA OverStages ==
  ASSUME NEW tree, NEW part, DOMAIN part \subseteq DOMAIN tree, staged' = Over(part, staged)
  PROVE  Stages(tree)
  BY DomainOver DEF Stages

\* The files of a folder that one is written into.
LEMMA DomainOverFile == \A f, c, old : DOMAIN Over(File(f, c), old) = {f} \cup DOMAIN old
  <1>1. ASSUME NEW f, NEW c, NEW old PROVE DOMAIN Over(File(f, c), old) = {f} \cup DOMAIN old
    <2>1. DOMAIN Over(File(f, c), old) = DOMAIN File(f, c) \cup DOMAIN old
      BY DomainOver
    <2>2. DOMAIN File(f, c) = {f}
      BY DomainFile
    <2>3. QED
      BY <2>1, <2>2
  <1>2. QED
    BY <1>1

\* So does writing all of it and damaging one of its files.
LEMMA DamagedStages ==
  ASSUME NEW tree, NEW f \in DOMAIN tree, NEW c, staged' = Over(File(f, c), Over(tree, staged))
  PROVE  Stages(tree)
  <1>1. DOMAIN staged' = {f} \cup DOMAIN Over(tree, staged)
    BY DomainOverFile
  <1>2. DOMAIN Over(tree, staged) = DOMAIN tree \cup DOMAIN staged
    BY DomainOver
  <1>3. QED
    BY <1>1, <1>2 DEF Stages

\* Copying stages, whatever is lost (copyDirectoryLinux).
LEMMA CopyTreeStages ==
  ASSUME NEW tree, CopyTree(tree)
  PROVE  Stages(tree)
  <1>1. CASE staged' = Over(tree, staged)
    BY <1>1, OverStages
  <1>2. ASSUME NEW f \in DOMAIN tree, staged' = Over(File(f, Damaged(tree[f])), Over(tree, staged))
        PROVE  Stages(tree)
    BY <1>2, DamagedStages
  <1>3. ASSUME NEW lost, staged' = Over([g \in DOMAIN tree \ lost |-> tree[g]], staged)
        PROVE  Stages(tree)
    <2> DEFINE part == [g \in DOMAIN tree \ lost |-> tree[g]]
    <2>1. DOMAIN part \subseteq DOMAIN tree
      OBVIOUS
    <2> HIDE DEF part
    <2>2. staged' = Over(part, staged)
      BY <1>3 DEF part
    <2>3. QED
      BY <2>1, <2>2, OverStages
  <1>4. QED
    BY <1>1, <1>2, <1>3 DEF CopyTree

\* ... and so in the other build (copyDirectoryWin32).
LEMMA CopyTreeWindowsStages ==
  ASSUME NEW tree, NEW top, NEW step, NEW code, CopyTreeWindows(tree, top, step, code)
  PROVE  Stages(tree)
  <1>1. CASE staged' = Over(tree, staged)
    BY <1>1, OverStages
  <1>2. ASSUME NEW f \in DOMAIN tree, staged' = Over(File(f, Damaged(tree[f])), Over(tree, staged))
        PROVE  Stages(tree)
    BY <1>2, DamagedStages
  <1>3. ASSUME NEW missed, staged' = Over([g \in DOMAIN tree \ missed |-> tree[g]], staged)
        PROVE  Stages(tree)
    <2> DEFINE part == [g \in DOMAIN tree \ missed |-> tree[g]]
    <2>1. DOMAIN part \subseteq DOMAIN tree
      OBVIOUS
    <2> HIDE DEF part
    <2>2. staged' = Over(part, staged)
      BY <1>3 DEF part
    <2>3. QED
      BY <2>1, <2>2, OverStages
  <1>4. CASE UNCHANGED staged
    BY <1>4 DEF Stages
  <1>5. QED
    BY <1>1, <1>2, <1>3, <1>4 DEF CopyTreeWindows

\* So do all steps up to zipping.
StagingStep ==
  \/ CopyFolderStructure \/ CreateLibraryFolder \/ PrepareIconFile \/ CopyLve \/ CopyExtraFiles
  \/ CreateManifestFile \/ EncryptFiles

Kept == DOMAIN staged \subseteq DOMAIN staged' /\ DOMAIN staged' \subseteq FilePaths

\* Staging a proper tree keeps what was staged and the types.
LEMMA StagesKeeps ==
  ASSUME NEW tree, DOMAIN tree \subseteq FilePaths, DOMAIN staged \subseteq FilePaths, Stages(tree)
  PROVE  Kept
  BY DEF Stages, Kept

\* The files encryption adds.
LEMMA MocFilesArePaths ==
  ASSUME NEW clear, clear \subseteq FilePaths, \A f \in clear : IsModelica(f)
  PROVE  /\ DOMAIN MocFiles(clear) = {MocFile(g) : g \in clear}
         /\ DOMAIN MocFiles(clear) \subseteq FilePaths
         /\ \A f \in DOMAIN MocFiles(clear) : ~IsModelica(f)
  <1>1. DOMAIN MocFiles(clear) = {MocFile(g) : g \in clear}
    BY DEF MocFiles
  <1>2. \A g \in clear : MocFile(g) \in FilePaths /\ ~IsModelica(MocFile(g))
    BY MocFileIsPath
  <1>3. QED
    BY <1>1, <1>2

\* Only staged Modelica files are encrypted, in both builds.
LEMMA ToEncryptIsModelica ==
  ToEncrypt \subseteq DOMAIN staged /\ \A f \in ToEncrypt : IsModelica(f)
  BY DEF ToEncrypt, ToEncryptLinux, ToEncryptWindows

\* All steps up to zipping do so, whatever fails.
LEMMA StagingKeeps ==
  ASSUME DOMAIN staged \subseteq FilePaths, StagingStep
  PROVE  Kept
  <1> USE TreesAreFolders
  <1>1. ASSUME UNCHANGED staged PROVE Kept
    BY <1>1 DEF Kept
  <1>2. CASE CopyFolderStructure
    <2>1. CASE CopyTree(LibraryTree)
      BY <2>1, CopyTreeStages, StagesKeeps
    <2>2. CASE CopyTreeWindows(LibraryTree, 0, "library", 2)
      BY <2>2, CopyTreeWindowsStages, StagesKeeps
    <2>3. CASE NoStagingFolder
      BY <1>1, <2>3 DEF NoStagingFolder
    <2>4. QED
      BY <1>2, <2>1, <2>2, <2>3 DEF CopyFolderStructure
  <1>3. CASE CreateLibraryFolder \/ PrepareIconFile
    BY <1>1, <1>3 DEF CreateLibraryFolder, PrepareIconFile
  <1>4. CASE CopyLve
    <2>1. CASE UNCHANGED staged
      BY <1>1, <2>1
    <2>2. CASE staged' = Over(LveTree, staged)
      BY <2>2, OverStages, StagesKeeps
    <2>3. ASSUME NEW f \in DOMAIN LveTree,
                 staged' = Over(File(f, Damaged(LveTree[f])), Over(LveTree, staged))
          PROVE  Kept
      BY <2>3, DamagedStages, StagesKeeps
    <2>4. ASSUME NEW done \in SUBSET DOMAIN LveTree,
                 staged' = Over([f \in done |-> LveTree[f]], staged)
          PROVE  Kept
      <3> DEFINE part == [f \in done |-> LveTree[f]]
      <3>1. DOMAIN part \subseteq DOMAIN LveTree
        OBVIOUS
      <3> HIDE DEF part
      <3>2. staged' = Over(part, staged)
        BY <2>4 DEF part
      <3>3. Stages(LveTree)
        BY <3>1, <3>2, OverStages
      <3>4. QED
        BY <3>3, StagesKeeps
    <2>5. QED
      BY <1>4, <2>1, <2>2, <2>3, <2>4 DEF CopyLve
  <1>5. CASE CopyExtraFiles
    <2>1. CASE CopyTree(ExtraTree)
      BY <2>1, CopyTreeStages, StagesKeeps
    <2>2. CASE CopyTreeWindows(ExtraTree, 1, "manifest", 6)
      BY <2>2, CopyTreeWindowsStages, StagesKeeps
    <2>3. CASE UNCHANGED staged
      BY <1>1, <2>3
    <2>4. QED
      BY <1>5, <2>1, <2>2, <2>3 DEF CopyExtraFiles
  <1>6. CASE CreateManifestFile
    <2>1. ASSUME NEW c, staged' = Over(File(ManifestFile, c), staged) PROVE Kept
      <3>1. DOMAIN staged' = {ManifestFile} \cup DOMAIN staged
        BY <2>1, DomainOverFile
      <3>2. ManifestFile \in FilePaths
        BY TreesAreFolders
      <3>3. QED
        BY <3>1, <3>2 DEF Kept
    <2>2. QED
      BY <1>1, <1>6, <2>1 DEF CreateManifestFile, Writes
  <1>7. CASE EncryptFiles
    <2>1. ASSUME NEW done \in SUBSET ToEncrypt, staged' = Over(MocFiles(done), staged)
          PROVE  Kept
      <3>1. DOMAIN MocFiles(done) \subseteq FilePaths
        BY MocFilesArePaths, ToEncryptIsModelica
      <3>2. QED
        BY <2>1, <3>1, DomainOver DEF Kept
    <2>2. ASSUME NEW f \in DOMAIN MocFiles(ToEncrypt), NEW c,
                 staged' = Over(File(f, c), Over(MocFiles(ToEncrypt), staged))
          PROVE  Kept
      <3>1. DOMAIN MocFiles(ToEncrypt) \subseteq FilePaths
        BY MocFilesArePaths, ToEncryptIsModelica
      <3>2. DOMAIN staged' = {f} \cup DOMAIN Over(MocFiles(ToEncrypt), staged)
        BY <2>2, DomainOverFile
      <3>3. DOMAIN Over(MocFiles(ToEncrypt), staged) = DOMAIN MocFiles(ToEncrypt) \cup DOMAIN staged
        BY DomainOver
      <3>4. QED
        BY <3>1, <3>2, <3>3 DEF Kept
    <2>3. QED
      BY <1>1, <1>7, <2>1, <2>2 DEF EncryptFiles
  <1>8. QED
    BY <1>2, <1>3, <1>4, <1>5, <1>6, <1>7 DEF StagingStep

\* Where a step leads, and with which exit code.
Leads == pc' \in Stopped \cup Steps /\ (exitCode' = exitCode \/ exitCode' \in 0..9)

\* Every step of doWork leads to a step or ends the process with a code it has.
LEMMA StepsLead == Later \/ ValidateArguments => Leads
  <1>1. \A s \in Steps : Go(s) => Leads
    BY DEF Go, Leads
  <1>2. \A c \in 0..9 : Exit(c) => Leads
    BY DEF Exit, Leads, Stopped
  <1>3. Crash => Leads
    BY DEF Crash, Leads, Stopped
  <1>4. /\ Go("copy") => Leads
        /\ Go("library") => Leads
        /\ Go("icon") => Leads
        /\ Go("lves") => Leads
        /\ Go("extras") => Leads
        /\ Go("manifest") => Leads
        /\ Go("encrypt") => Leads
        /\ Go("zip") => Leads
        /\ Go("remove") => Leads
    BY <1>1 DEF Steps
  <1>5. /\ Exit(0) => Leads
        /\ Exit(1) => Leads
        /\ Exit(2) => Leads
        /\ Exit(3) => Leads
        /\ Exit(4) => Leads
        /\ Exit(5) => Leads
        /\ Exit(6) => Leads
        /\ Exit(8) => Leads
        /\ Exit(9) => Leads
    BY <1>2
  <1>6. CASE ValidateArguments
    BY <1>4, <1>5, <1>6 DEF ValidateArguments
  <1>7. CASE CopyFolderStructure \/ CreateLibraryFolder
    BY <1>3, <1>4, <1>5, <1>7
       DEF CopyFolderStructure, CreateLibraryFolder, CopyTreeWindows, NoStagingFolder
  <1>8. CASE PrepareIconFile
    BY <1>4, <1>5, <1>8 DEF PrepareIconFile
  <1>9. CASE CopyLve \/ CopyExtraFiles \/ CreateManifestFile
    BY <1>3, <1>4, <1>5, <1>9 DEF CopyLve, CopyExtraFiles, CreateManifestFile, CopyTreeWindows
  <1>10. CASE EncryptFiles
    BY <1>3, <1>4, <1>5, <1>10 DEF EncryptFiles
  <1>11. CASE CreateZipArchive \/ DeleteTemporaryStagingFolder
    BY <1>3, <1>4, <1>5, <1>11
       DEF CreateZipArchive, CreateZipArchivePosix, CreateZipArchiveWindows,
           DeleteTemporaryStagingFolder
  <1>12. QED
    BY <1>6, <1>7, <1>8, <1>9, <1>10, <1>11 DEF Later

-----------------------------------------------------------------------------
\* Whatever zipping leaves behind holds files that were staged, or files that
\* were there before.
PackedFrom(S) ==
  \/ archive' = NoArchive
  \/ archive' = Archive([f \in S |-> staged[f]])
  \/ archive' = Archive(Over([f \in S |-> staged[f]], NoFolder))
  \/ archive' = Archive(Over([f \in S |-> staged[f]], archive.files))

\* That is so however zipping ends (zipDirectoryLinux, zipDirectoryWin32).
LEMMA ZippingPacks ==
  ASSUME CreateZipArchive \/ Killed
  PROVE  UNCHANGED archive \/ \E S \in SUBSET DOMAIN staged : PackedFrom(S)
  <1>1. ToArchive \in SUBSET DOMAIN staged /\ Begun \subseteq SUBSET DOMAIN staged
    BY DEF ToArchive, Begun, kSubset
  <1>2. NoArchive.files = NoFolder
    BY DEF NoArchive
  <1>3. \A S \in SUBSET DOMAIN staged : PackedFrom(S) => \E T \in SUBSET DOMAIN staged : PackedFrom(T)
    OBVIOUS
  <1>4. archive' = NoArchive => PackedFrom({})
    BY DEF PackedFrom
  <1>5. CASE CreateZipArchive /\ ~windows
    BY <1>1, <1>4, <1>5 DEF CreateZipArchive, CreateZipArchivePosix, PackedFrom
  <1>6. CASE CreateZipArchive /\ windows
    BY <1>1, <1>2, <1>4, <1>6 DEF CreateZipArchive, CreateZipArchiveWindows, PackedFrom
  <1>7. CASE Killed
    BY <1>1, <1>4, <1>7 DEF Killed, PackedFrom
  <1>8. QED
    BY <1>5, <1>6, <1>7

\* Such an archive has a proper type.
LEMMA PackedIsFolder ==
  ASSUME NEW S \in SUBSET DOMAIN staged, PackedFrom(S),
         DOMAIN staged \subseteq FilePaths, DOMAIN archive.files \subseteq FilePaths
  PROVE  archive'.usable \in BOOLEAN /\ DOMAIN archive'.files \subseteq FilePaths
  <1> DEFINE packed == [f \in S |-> staged[f]]
  <1>1. DOMAIN packed \subseteq FilePaths /\ DOMAIN NoFolder \subseteq FilePaths
    BY DEF NoFolder
  <1>2. PackedFrom(S) => \/ archive' = NoArchive
                        \/ archive' = Archive(packed)
                        \/ archive' = Archive(Over(packed, NoFolder))
                        \/ archive' = Archive(Over(packed, archive.files))
    BY DEF PackedFrom
  <1> HIDE DEF packed
  <1>3. DOMAIN Over(packed, NoFolder) \subseteq FilePaths
    BY <1>1, DomainOver
  <1>4. DOMAIN Over(packed, archive.files) \subseteq FilePaths
    BY <1>1, DomainOver
  <1>5. \A files : Archive(files).usable /\ Archive(files).files = files
    BY DEF Archive
  <1>6. ~NoArchive.usable /\ NoArchive.files = NoFolder
    BY DEF NoArchive
  <1>7. DOMAIN archive'.files \subseteq FilePaths
    BY <1>1, <1>2, <1>3, <1>4, <1>5, <1>6
  <1>8. archive'.usable \in BOOLEAN
    <2>1. \A files : Archive(files).usable \in BOOLEAN
      BY DEF Archive
    <2>2. NoArchive.usable \in BOOLEAN
      BY DEF NoArchive
    <2>3. QED
      BY <1>2, <2>1, <2>2
  <1>9. QED
    BY <1>7, <1>8

\* There are no files at first.
LEMMA FolderInit == Init => FolderTypes
  BY BoundAssumption DEF Init, FolderTypes, Stopped, NoFolder, NoArchive

\* Only LVEs are listed (copyLVE).
LEMMA LveListStep ==
  ASSUME lveList \subseteq Lves, Later
  PROVE  lveList' \subseteq Lves
  <1>1. CASE CopyLve
    <2>1. \A f \in DOMAIN LveTree : f[2] \in Lves
      BY DEF LveTree
    <2>2. ASSUME NEW done \in SUBSET DOMAIN LveTree PROVE {f[2] : f \in done} \subseteq Lves
      BY <2>1
    <2>3. \/ lveList' \in {lveList, Lves}
          \/ \E done \in SUBSET DOMAIN LveTree : lveList' = {f[2] : f \in done}
      BY <1>1 DEF CopyLve
    <2>4. QED
      BY <2>2, <2>3
  <1>2. CASE ~CopyLve
    BY <1>2 DEF Later, CopyFolderStructure, CreateLibraryFolder, PrepareIconFile, CopyExtraFiles,
       CreateManifestFile, EncryptFiles, CreateZipArchive, DeleteTemporaryStagingFolder
  <1>3. QED
    BY <1>1, <1>2

\* Every step keeps the types.
LEMMA FolderStep == FolderTypes /\ [Next]_vars => FolderTypes'
  <1> SUFFICES ASSUME FolderTypes, [Next]_vars PROVE FolderTypes'
    OBVIOUS
  <1>1. CASE Start
    BY <1>1, BoundAssumption DEF Start, FolderTypes, NoFolder, Steps
  <1>2. ASSUME Later \/ ValidateArguments
        PROVE  pc' \in Stopped \cup Steps /\ exitCode' \in -1..9
    BY <1>2, StepsLead DEF Leads, FolderTypes
  <1>3. CASE ValidateArguments
    BY <1>2, <1>3 DEF ValidateArguments, FolderTypes
  <1>4. ASSUME Later PROVE run' = run /\ lveList' \subseteq Lves
    BY <1>4, LaterKeepsArguments, LveListStep DEF FolderTypes
  <1>5. CASE StagingStep
    <2>1. Later
      BY <1>5 DEF StagingStep, Later
    <2>2. UNCHANGED archive
      BY <1>5 DEF StagingStep, CopyFolderStructure, CreateLibraryFolder, PrepareIconFile, CopyLve,
         CopyExtraFiles, CreateManifestFile, EncryptFiles
    <2>3. DOMAIN staged' \subseteq FilePaths
      BY <1>5, StagingKeeps DEF FolderTypes, Kept
    <2>4. QED
      BY <1>2, <1>4, <2>1, <2>2, <2>3 DEF FolderTypes
  <1>6. ASSUME CreateZipArchive \/ Killed
        PROVE  archive'.usable \in BOOLEAN /\ DOMAIN archive'.files \subseteq FilePaths
    <2>1. CASE UNCHANGED archive
      BY <2>1 DEF FolderTypes
    <2>2. CASE \E S \in SUBSET DOMAIN staged : PackedFrom(S)
      BY <2>2, PackedIsFolder DEF FolderTypes
    <2>3. QED
      BY <1>6, <2>1, <2>2, ZippingPacks
  <1>7. CASE CreateZipArchive
    <2>1. Later /\ UNCHANGED staged
      BY <1>7 DEF CreateZipArchive, Later
    <2>2. QED
      BY <1>2, <1>4, <1>6, <1>7, <2>1 DEF FolderTypes
  <1>8. CASE DeleteTemporaryStagingFolder
    <2>1. Later /\ UNCHANGED archive
      BY <1>8 DEF DeleteTemporaryStagingFolder, Later
    <2>2. DOMAIN staged' \subseteq DOMAIN staged
      BY <1>8 DEF DeleteTemporaryStagingFolder, NoFolder
    <2>3. QED
      BY <1>2, <1>4, <2>1, <2>2 DEF FolderTypes
  <1>9. CASE Killed
    <2>1. UNCHANGED <<run, exitCode, staged, lveList>> /\ pc' \in Stopped
      BY <1>9 DEF Killed, Stopped
    <2>2. QED
      BY <1>6, <1>9, <2>1 DEF FolderTypes
  <1>10. CASE UNCHANGED vars
    BY <1>10 DEF vars, FolderTypes
  <1>11. QED
    BY <1>1, <1>3, <1>5, <1>7, <1>8, <1>9, <1>10 DEF Next, Step, StagingStep

\* Every file staged or archived has a proper path, and every variable its type.
THEOREM FoldersHold == Spec => []FolderTypes
  BY FolderInit, FolderStep, PTL DEF Spec

\* The variables keep to their types and the options to those the tool knows.
THEOREM PackageTypeCorrect == Spec => []PackageTypeOK
  <1>1. ArgInv /\ FolderTypes => PackageTypeOK
    <2> SUFFICES ASSUME ArgInv, FolderTypes PROVE PackageTypeOK
      OBVIOUS
    <2>1. ASSUME pc \in Steps PROVE DOMAIN options \subseteq Options
      <3>1. CASE pc = "validate"
        BY <3>1 DEF ArgInv
      <3>2. CASE pc # "validate"
        <4>1. argv \in Seq(STRING) /\ Parsed(argv).ok /\ options = Parsed(argv).options
          BY <2>1, <3>2 DEF ArgInv, Accepted
        <4>2. QED
          BY <4>1, AcceptedIsReadWell
      <3>3. QED
        BY <3>1, <3>2
    <2>2. <<>> \notin DOMAIN staged \cup DOMAIN archive.files
      BY DEF FolderTypes, FilePaths
    <2>3. QED
      BY <2>1, <2>2 DEF PackageTypeOK, FolderTypes
  <1>2. QED
    BY <1>1, ArgumentsHold, FoldersHold, PTL

\* Each step leads to the next one, or ends the process in its own way.
Goes(step, code) == pc' = step \/ pc' = "crashed" \/ (pc' = "exited" /\ exitCode' = code)

\* The order of doWork.
LEMMA StepsInOrder ==
  /\ CopyFolderStructure => pc = "copy" /\ Goes("library", 2)
  /\ CreateLibraryFolder => pc = "library" /\ Goes("icon", 3)
  /\ PrepareIconFile => pc = "icon" /\ Goes("lves", 4)
  /\ CopyLve => pc = "lves" /\ Goes("extras", 5)
  /\ CopyExtraFiles => pc = "extras" /\ Goes("manifest", 6)
  /\ CreateManifestFile => pc = "manifest" /\ Goes("encrypt", 7)
  /\ EncryptFiles => pc = "encrypt" /\ Goes("zip", 8)
  /\ CreateZipArchive => pc = "zip" /\ Goes("remove", 9)
  <1> USE DEF Goes, Go, Exit, Crash
  <1>1. CopyFolderStructure => pc = "copy" /\ Goes("library", 2)
    BY DEF CopyFolderStructure, CopyTreeWindows, NoStagingFolder
  <1>2. CreateLibraryFolder => pc = "library" /\ Goes("icon", 3)
    BY DEF CreateLibraryFolder
  <1>3. PrepareIconFile => pc = "icon" /\ Goes("lves", 4)
    BY DEF PrepareIconFile
  <1>4. CopyLve => pc = "lves" /\ Goes("extras", 5)
    BY DEF CopyLve
  <1>5. CopyExtraFiles => pc = "extras" /\ Goes("manifest", 6)
    BY DEF CopyExtraFiles, CopyTreeWindows
  <1>6. CreateManifestFile => pc = "manifest" /\ Goes("encrypt", 7)
    BY DEF CreateManifestFile
  <1>7. EncryptFiles => pc = "encrypt" /\ Goes("zip", 8)
    BY DEF EncryptFiles
  <1>8. CreateZipArchive => pc = "zip" /\ Goes("remove", 9)
    BY DEF CreateZipArchive, CreateZipArchivePosix, CreateZipArchiveWindows
  <1>9. QED
    BY <1>1, <1>2, <1>3, <1>4, <1>5, <1>6, <1>7, <1>8

\* The LVEs the manifest is to name are in a folder.
LvesIn(folder) ==
  /\ \A n \in lveList : <<DotLibrary, n>> \in DOMAIN folder
  /\ lveList = IF UsingEncryption THEN Lves ELSE {}
\* What the folder has for a manifest, if it is one, is that of this run.
Tells(folder) ==
  /\ ManifestFile \in DOMAIN folder
  /\ folder[ManifestFile][1] = "manifest" => folder[ManifestFile] = Manifest(lveList, pathToIcon)

ListInv ==
  /\ pc \in {"validate", "copy", "library", "icon", "lves"} => lveList = {}
  /\ pc \in {"extras", "manifest", "encrypt", "zip", "remove"} => LvesIn(staged)
  /\ pc \in {"encrypt", "zip", "remove"} => Tells(staged)
  /\ (pc = "remove" \/ Succeeded) /\ archive.usable =>
       Tells(archive.files) /\ LvesIn(archive.files)

\* Once a run has ended without success nothing is claimed of it.
LEMMA ListEnded ==
  ASSUME pc' \notin Steps, ~Succeeded'
  PROVE  ListInv'
  BY DEF ListInv, Steps

\* Every LVE that is listed was copied.
LEMMA LvesAreStaged ==
  ASSUME CopyLve, pc' = "extras", lveList = {}
  PROVE  LvesIn(staged)'
  <1>1. UNCHANGED options
    BY DEF CopyLve
  <1>2. \A n \in Lves : <<DotLibrary, n>> \in DOMAIN LveTree
    BY DEF LveTree
  <1>3. CASE ~UsingEncryption
    <2>1. lveList' = {}
      BY <1>3 DEF CopyLve
    <2>2. ~UsingEncryption'
      BY <1>1, <1>3 DEF UsingEncryption, UsesEncryption
    <2>3. QED
      BY <2>1, <2>2 DEF LvesIn
  <1>4. CASE UsingEncryption
    <2>1. lveList' = Lves /\ (\/ staged' = Over(LveTree, staged)
                              \/ \E f \in DOMAIN LveTree :
                                   staged' = Over(File(f, Damaged(LveTree[f])), Over(LveTree, staged)))
      BY <1>4 DEF CopyLve, Exit
    <2>2. DOMAIN LveTree \subseteq DOMAIN staged'
      <3>1. DOMAIN Over(LveTree, staged) = DOMAIN LveTree \cup DOMAIN staged
        BY DomainOver
      <3>2. \A f, c : DOMAIN Over(File(f, c), Over(LveTree, staged))
                        = {f} \cup DOMAIN Over(LveTree, staged)
        BY DomainOverFile
      <3>3. QED
        BY <2>1, <3>1, <3>2, ZenonT(60)
    <2>3. UsingEncryption'
      BY <1>1, <1>4 DEF UsingEncryption, UsesEncryption
    <2>4. QED
      BY <1>2, <2>1, <2>2, <2>3 DEF LvesIn
  <1>5. QED
    BY <1>3, <1>4

\* The contents of a folder others are written into.
LEMMA ValueOver ==
  \A new, old : /\ \A f \in DOMAIN new : Over(new, old)[f] = new[f]
                /\ \A f \in DOMAIN old \ DOMAIN new : Over(new, old)[f] = old[f]
  BY DEF Over

\* The contents of a folder one file is written into.
LEMMA ValueOverFile ==
  \A f, c, old : /\ Over(File(f, c), old)[f] = c
                 /\ \A g \in DOMAIN old \ {f} : Over(File(f, c), old)[g] = old[g]
  BY DEF Over, File

\* Only a manifest looks like one.
LEMMA KindsDiffer ==
  /\ \A c : Damaged(c)[1] # "manifest"
  /\ \A c : Encrypted(c)[1] # "manifest"
  BY DEF Damaged, Encrypted

\* createManifestFile writes the manifest of this run, or half of it.
LEMMA ManifestWritten ==
  ASSUME CreateManifestFile, pc' = "encrypt"
  PROVE  Tells(staged)'
  <1> DEFINE m == Manifest(lveList, pathToIcon)
  <1>1. UNCHANGED <<lveList, pathToIcon>>
    BY DEF CreateManifestFile
  <1>2. \/ staged' = Over(File(ManifestFile, m), staged)
        \/ staged' = Over(File(ManifestFile, Damaged(m)), staged)
    BY DEF CreateManifestFile, Writes, Crash
  <1>3. ASSUME NEW c PROVE /\ ManifestFile \in DOMAIN Over(File(ManifestFile, c), staged)
                           /\ Over(File(ManifestFile, c), staged)[ManifestFile] = c
    <2>1. DOMAIN Over(File(ManifestFile, c), staged) = {ManifestFile} \cup DOMAIN staged
      BY DomainOverFile
    <2>2. Over(File(ManifestFile, c), staged)[ManifestFile] = c
      BY ValueOverFile
    <2>3. QED
      BY <2>1, <2>2
  <1>4. m' = m
    BY <1>1 DEF Manifest
  <1> HIDE DEF m
  <1>5. ManifestFile \in DOMAIN staged' /\ staged'[ManifestFile] \in {m, Damaged(m)}
    BY <1>2, <1>3
  <1>6. staged'[ManifestFile][1] = "manifest" => staged'[ManifestFile] = m
    BY <1>5, KindsDiffer
  <1>7. m' = Manifest(lveList', pathToIcon')
    BY DEF m
  <1>8. QED
    BY <1>4, <1>5, <1>6, <1>7 DEF Tells

\* Encryption puts nothing in the place of the manifest that looks like one.
LEMMA ManifestEncrypted ==
  ASSUME EncryptFiles, Tells(staged)
  PROVE  Tells(staged)'
  <1>1. UNCHANGED <<lveList, pathToIcon>>
    BY DEF EncryptFiles
  <1> DEFINE Fits(folder) == /\ ManifestFile \in DOMAIN folder
                             /\ \/ folder[ManifestFile][1] # "manifest"
                                \/ folder[ManifestFile] = staged[ManifestFile]
  <1>2. Fits(staged)
    BY DEF Tells
  <1>3. ASSUME NEW clear PROVE Fits(Over(MocFiles(clear), staged))
    <2>1. \A f \in DOMAIN MocFiles(clear) : MocFiles(clear)[f][1] # "manifest"
      BY KindsDiffer DEF MocFiles
    <2>2. ManifestFile \in DOMAIN Over(MocFiles(clear), staged)
      BY <1>2, DomainOver
    <2>3. CASE ManifestFile \in DOMAIN MocFiles(clear)
      BY <2>1, <2>2, <2>3, ValueOver
    <2>4. CASE ManifestFile \notin DOMAIN MocFiles(clear)
      BY <1>2, <2>2, <2>4, ValueOver
    <2>5. QED
      BY <2>3, <2>4
  <1>4. ASSUME NEW folder, NEW f, NEW c, Fits(folder), c[1] # "manifest"
        PROVE  Fits(Over(File(f, c), folder))
    <2>1. ManifestFile \in DOMAIN Over(File(f, c), folder)
      <3>1. DOMAIN Over(File(f, c), folder) = {f} \cup DOMAIN folder
        BY DomainOverFile
      <3>2. ManifestFile \in DOMAIN folder
        BY <1>4
      <3>3. QED
        BY <3>1, <3>2
    <2>2. CASE ManifestFile = f
      BY <1>4, <2>1, <2>2, ValueOverFile
    <2>3. CASE ManifestFile # f
      BY <1>4, <2>1, <2>3, ValueOverFile
    <2>4. QED
      BY <2>2, <2>3
  <1> HIDE DEF Fits
  <1>5. Fits(staged')
    <2>1. \/ staged' = staged
          \/ \E clear : staged' = Over(MocFiles(clear), staged)
          \/ \E f, c : staged' = Over(File(f, Damaged(c)), Over(MocFiles(ToEncrypt), staged))
      BY DEF EncryptFiles
    <2>2. QED
      BY <1>2, <1>3, <1>4, <2>1, KindsDiffer
  <1>6. Manifest(lveList, pathToIcon)' = Manifest(lveList, pathToIcon)
    BY <1>1 DEF Manifest
  <1>7. QED
    BY <1>5, <1>6 DEF Fits, Tells

-----------------------------------------------------------------------------
\* When zipping succeeds, what was to be archived is in the archive that can be
\* used, the previous files or not.
LEMMA ZippingCompletes ==
  ASSUME CreateZipArchive, pc' = "remove", archive'.usable, NEW f \in ToArchive
  PROVE  f \in DOMAIN archive'.files /\ archive'.files[f] = staged[f]
  <1> DEFINE packed == [g \in ToArchive |-> staged[g]]
  <1>1. f \in DOMAIN packed /\ packed[f] = staged[f]
    OBVIOUS
  <1>2. \/ archive' = NoArchive
        \/ archive' = Archive(packed)
        \/ \E base : archive' = Archive(Over(packed, base))
    BY DEF CreateZipArchive, CreateZipArchivePosix, CreateZipArchiveWindows, Exit, Crash
  <1> HIDE DEF packed
  <1>3. ~NoArchive.usable /\ \A files : Archive(files).files = files
    BY DEF NoArchive, Archive
  <1>4. ASSUME NEW base
        PROVE  f \in DOMAIN Over(packed, base) /\ Over(packed, base)[f] = staged[f]
    <2>1. f \in DOMAIN Over(packed, base)
      BY <1>1, DomainOver
    <2>2. Over(packed, base)[f] = packed[f]
      BY <1>1, ValueOver
    <2>3. QED
      BY <1>1, <2>1, <2>2
  <1>5. QED
    BY <1>1, <1>2, <1>3, <1>4

\* LVEs and the manifest are never Modelica files.
LEMMA ListedIsNoModelica ==
  /\ ~IsModelica(ManifestFile)
  /\ \A n \in Lves : ~IsModelica(<<DotLibrary, n>>)
  <1>1. ASSUME NEW m, NEW n PROVE Last(<<m, n>>) = n
    BY DEF Last
  <1>2. QED
    BY <1>1, FileAssumption DEF IsModelica, ManifestFile

\* What the manifest names is archived with it.
LEMMA ListPacked ==
  ASSUME CreateZipArchive, pc' = "remove", archive'.usable, lveList \subseteq Lves,
         Tells(staged), LvesIn(staged)
  PROVE  Tells(archive.files)' /\ LvesIn(archive.files)'
  <1>1. UNCHANGED <<lveList, pathToIcon, options>>
    BY DEF CreateZipArchive
  <1>2. UNCHANGED UsingEncryption
    BY <1>1 DEF UsingEncryption, UsesEncryption
  <1>3. ASSUME NEW f \in DOMAIN staged, UsingEncryption => ~IsModelica(f)
        PROVE  f \in DOMAIN archive'.files /\ archive'.files[f] = staged[f]
    <2>1. f \in ToArchive
      BY <1>3 DEF ToArchive
    <2>2. QED
      BY <2>1, ZippingCompletes
  <1>4. Tells(archive.files)'
    <2>1. ManifestFile \in DOMAIN staged
      BY DEF Tells
    <2>2. /\ ManifestFile \in DOMAIN archive'.files
          /\ archive'.files[ManifestFile] = staged[ManifestFile]
      BY <1>3, <2>1, ListedIsNoModelica
    <2>3. Manifest(lveList, pathToIcon)' = Manifest(lveList, pathToIcon)
      BY <1>1 DEF Manifest
    <2>4. QED
      BY <2>2, <2>3 DEF Tells
  <1>5. LvesIn(archive.files)'
    <2>1. \A n \in lveList : <<DotLibrary, n>> \in DOMAIN staged /\ ~IsModelica(<<DotLibrary, n>>)
      BY ListedIsNoModelica DEF LvesIn
    <2>2. \A n \in lveList : <<DotLibrary, n>> \in DOMAIN archive'.files
      BY <1>3, <2>1
    <2>3. lveList' = IF UsingEncryption' THEN Lves ELSE {}
      BY <1>1, <1>2 DEF LvesIn
    <2>4. QED
      BY <1>1, <2>2, <2>3 DEF LvesIn
  <1>6. QED
    BY <1>4, <1>5

\* A step that does not lead on ends the run without success.
LEMMA NotYet ==
  ASSUME NEW step, NEW code, Goes(step, code), code # 0, pc' # step
  PROVE  pc' \notin Steps /\ ~Succeeded'
  BY DEF Goes, Steps, Succeeded

\* Every step keeps to what the manifest is to say.
LEMMA ListStep == ListInv /\ FolderTypes /\ [Next]_vars => ListInv'
  <1> SUFFICES ASSUME ListInv, FolderTypes, [Next]_vars PROVE ListInv'
    OBVIOUS
  <1>1. CASE Start
    BY <1>1 DEF Start, ListInv, Succeeded
  <1>2. CASE ValidateArguments
    <2>1. UNCHANGED <<lveList, argv>> /\ pc = "validate"
      BY <1>2 DEF ValidateArguments
    <2>2. pc' = "copy" \/ (pc' = "exited" /\ (exitCode' = 0 => HelpRequested(argv)))
      <3>1. (HelpRequested(argv) /\ Exit(0)) \/ Go("copy") \/ Exit(1)
        BY <1>2 DEF ValidateArguments
      <3>2. QED
        BY <3>1 DEF Go, Exit
    <2>3. ~Succeeded'
      <3>1. HelpRequested(argv)' = HelpRequested(argv)
        BY <2>1 DEF HelpRequested
      <3>2. QED
        BY <2>2, <3>1 DEF Succeeded
    <2>4. QED
      BY <2>1, <2>2, <2>3 DEF ListInv
  <1>3. CASE CopyFolderStructure
    <2>1. CASE pc' = "library"
      BY <1>3, <2>1, StepsInOrder DEF CopyFolderStructure, ListInv, Succeeded
    <2>2. QED
      BY <1>3, <2>1, StepsInOrder, NotYet, ListEnded
  <1>4. CASE CreateLibraryFolder
    <2>1. CASE pc' = "icon"
      BY <1>4, <2>1, StepsInOrder DEF CreateLibraryFolder, ListInv, Succeeded
    <2>2. QED
      BY <1>4, <2>1, StepsInOrder, NotYet, ListEnded
  <1>5. CASE PrepareIconFile
    <2>1. CASE pc' = "lves"
      BY <1>5, <2>1, StepsInOrder DEF PrepareIconFile, ListInv, Succeeded
    <2>2. QED
      BY <1>5, <2>1, StepsInOrder, NotYet, ListEnded
  <1>6. ASSUME StagingStep, UNCHANGED lveList, pc \in {"extras", "manifest", "encrypt"}
        PROVE  LvesIn(staged)'
    <2>1. Kept /\ UNCHANGED options
      BY <1>6, StagingKeeps, LaterKeepsArguments DEF FolderTypes, StagingStep, Later
    <2>2. LvesIn(staged)
      BY <1>6 DEF ListInv
    <2>3. QED
      BY <1>6, <2>1, <2>2 DEF LvesIn, Kept, UsingEncryption, UsesEncryption
  <1>7. CASE CopyLve
    <2>1. CASE pc' = "extras"
      <3>1. pc = "lves"
        BY <1>7 DEF CopyLve
      <3>2. LvesIn(staged)'
        BY <1>7, <2>1, <3>1, LvesAreStaged DEF ListInv
      <3>3. QED
        BY <2>1, <3>2 DEF ListInv, Succeeded
    <2>2. QED
      BY <1>7, <2>1, StepsInOrder, NotYet, ListEnded
  <1>8. CASE CopyExtraFiles
    <2>1. CASE pc' = "manifest"
      <3>1. UNCHANGED <<lveList, pathToIcon>> /\ pc = "extras" /\ StagingStep
        BY <1>8 DEF CopyExtraFiles, StagingStep
      <3>2. QED
        BY <1>6, <2>1, <3>1 DEF ListInv, Succeeded
    <2>2. QED
      BY <1>8, <2>1, StepsInOrder, NotYet, ListEnded
  <1>9. CASE CreateManifestFile
    <2>1. CASE pc' = "encrypt"
      <3>1. UNCHANGED <<lveList, pathToIcon>> /\ pc = "manifest" /\ StagingStep
        BY <1>9 DEF CreateManifestFile, StagingStep
      <3>2. Tells(staged)'
        BY <1>9, <2>1, ManifestWritten
      <3>3. QED
        BY <1>6, <2>1, <3>1, <3>2 DEF ListInv, Succeeded
    <2>2. QED
      BY <1>9, <2>1, StepsInOrder, NotYet, ListEnded
  <1>10. CASE EncryptFiles
    <2>1. CASE pc' = "zip"
      <3>1. UNCHANGED <<lveList, pathToIcon>> /\ pc = "encrypt" /\ StagingStep
        BY <1>10 DEF EncryptFiles, StagingStep
      <3>2. Tells(staged)'
        BY <1>10, <3>1, ManifestEncrypted DEF ListInv
      <3>3. QED
        BY <1>6, <2>1, <3>1, <3>2 DEF ListInv, Succeeded
    <2>2. QED
      BY <1>10, <2>1, StepsInOrder, NotYet, ListEnded
  <1>11. CASE CreateZipArchive
    <2>1. CASE pc' = "remove"
      <3>1. UNCHANGED <<staged, lveList, pathToIcon, options>> /\ pc = "zip"
        BY <1>11 DEF CreateZipArchive
      <3>2. Tells(staged) /\ LvesIn(staged)
        BY <3>1 DEF ListInv
      <3>3. Tells(staged)' /\ LvesIn(staged)'
        BY <3>1, <3>2 DEF Tells, LvesIn, Manifest, UsingEncryption, UsesEncryption
      <3>4. archive'.usable => Tells(archive.files)' /\ LvesIn(archive.files)'
        BY <1>11, <2>1, <3>2, ListPacked DEF FolderTypes
      <3>5. QED
        BY <2>1, <3>3, <3>4 DEF ListInv
    <2>2. QED
      BY <1>11, <2>1, StepsInOrder, NotYet, ListEnded
  <1>12. ASSUME UNCHANGED <<lveList, pathToIcon, options, archive>>
         PROVE  UNCHANGED <<Tells(archive.files), LvesIn(archive.files)>>
    BY <1>12 DEF Tells, LvesIn, Manifest, UsingEncryption, UsesEncryption
  <1>13. CASE DeleteTemporaryStagingFolder
    <2>1. /\ UNCHANGED <<lveList, pathToIcon, options, archive>>
          /\ pc = "remove" /\ pc' = "exited"
      BY <1>13 DEF DeleteTemporaryStagingFolder, Exit
    <2>2. QED
      BY <1>12, <2>1 DEF ListInv
  <1>14. CASE Killed
    <2>1. pc' \notin Steps /\ ~Succeeded'
      BY <1>14 DEF Killed, Steps, Succeeded
    <2>2. QED
      BY <2>1, ListEnded
  <1>15. CASE UNCHANGED vars
    <2>1. UNCHANGED <<pc, exitCode, argv, staged, lveList, pathToIcon, options, archive>>
      BY <1>15 DEF vars
    <2>2. UNCHANGED <<Tells(staged), LvesIn(staged)>>
      BY <2>1 DEF Tells, LvesIn, Manifest, UsingEncryption, UsesEncryption
    <2>3. Succeeded' = Succeeded
      BY <2>1 DEF Succeeded, HelpRequested
    <2>4. QED
      BY <1>12, <2>1, <2>2, <2>3 DEF ListInv
  <1>16. QED
    BY <1>1, <1>2, <1>3, <1>4, <1>5, <1>7, <1>8, <1>9, <1>10, <1>11, <1>13, <1>14, <1>15
       DEF Next, Step

\* At every step, the LVEs that are listed are where the manifest will have them,
\* whatever has failed unnoticed.
THEOREM ListsHold == Spec => []ListInv
  <1>1. Init => ListInv
    BY DEF Init, ListInv, Succeeded
  <1>2. QED
    BY <1>1, ListStep, FoldersHold, PTL DEF Spec

\* An encrypted library has LVEs to list, or the arguments are refused.
LEMMA LvesRequired ==
  ASSUME Accepted, UsingEncryption
  PROVE  Lves # {}
  <1>1. Cardinality(Lves) > 0
    BY DEF Accepted, Valid, UsingEncryption, CountLVE
  <1>2. Cardinality({}) = 0
    BY FS_EmptySet
  <1>3. QED
    BY <1>1, <1>2

\* The manifest of a finished container names all the LVEs of an encrypted
\* library, of which there is one at least, and they are in the container.
THEOREM ManifestNamesWhatIsThere == Spec => []ManifestTruthful
  <1>1. ListInv /\ ArgInv => ManifestTruthful
    <2> DEFINE manifest == archive.files[ManifestFile]
    <2> SUFFICES ASSUME ListInv, ArgInv, Succeeded, archive.usable, manifest[1] = "manifest"
                 PROVE  /\ \A n \in manifest[2] : <<DotLibrary, n>> \in DOMAIN archive.files
                        /\ manifest[2] = IF UsingEncryption THEN Lves ELSE {}
                        /\ UsingEncryption => manifest[2] # {}
      BY DEF ManifestTruthful
    <2>1. Tells(archive.files) /\ LvesIn(archive.files)
      BY DEF ListInv
    <2>2. manifest = Manifest(lveList, pathToIcon)
      BY <2>1 DEF Tells
    <2>3. manifest[2] = lveList
      BY <2>2 DEF Manifest
    <2>4. UsingEncryption => Lves # {}
      BY LvesRequired DEF ArgInv
    <2>5. QED
      BY <2>1, <2>3, <2>4 DEF LvesIn
  <1>2. QED
    BY <1>1, ListsHold, ArgumentsHold, PTL

-----------------------------------------------------------------------------
(* The container. *)

\* What a run without faults stages and archives, as functions of the build, of
\* whether encryption was asked for and of what the manifest says.
TreeOf(win) ==
  [f \in {g \in Library : (g \in Links => win) /\ \A i \in DOMAIN g : g[i] # DotLibrary} |-> Plain(f)]
LveFolderOf(enc) == IF enc THEN LveTree ELSE NoFolder
SourceOf(win, enc, lves, icon) ==
  Over(File(ManifestFile, Manifest(lves, icon)),
    Over(ExtraTree, Over(LveFolderOf(enc), TreeOf(win))))
ForgottenOf(win, enc, source) ==
  {f \in DOMAIN source : enc /\ ~win /\ Last(f) \in PackageNames \ {"package.mo"}}
ClearOf(win, enc, source) ==
  {f \in DOMAIN source \ ForgottenOf(win, enc, source) : enc /\ IsModelica(f)}
MocFileOf(win, f) ==
  Append(Front(f), Moc[IF win /\ Last(f) \in PackageNames THEN "package.mo" ELSE Last(f)])
MocsOf(win, clear, folder) ==
  [f \in {MocFileOf(win, g) : g \in clear} |->
     Encrypted(folder[CHOOSE g \in clear : MocFileOf(win, g) = f])]
PlainOf(win, enc, source) ==
  [f \in DOMAIN source \ (ClearOf(win, enc, source) \cup ForgottenOf(win, enc, source)) |-> source[f]]
ContainerOf(win, enc, source) ==
  Over(MocsOf(win, ClearOf(win, enc, source), source), PlainOf(win, enc, source))

\* The functions are those of the model.
LEMMA TreeIs == LibraryTree = TreeOf(windows)
  BY DEF LibraryTree, TreeOf, Copied

\* ... of what is staged,
LEMMA SourceIs == Source = SourceOf(windows, UsingEncryption, lveList, pathToIcon)
  BY TreeIs DEF Source, SourceOf, LveFolderOf

\* ... of what encryption adds,
LEMMA MocsAre == \A clear : MocFiles(clear) = MocsOf(windows, clear, staged)
  BY DEF MocFiles, MocsOf, MocFile, MocFileOf

\* ... of the container,
LEMMA ContainerIs == Container = ContainerOf(windows, UsingEncryption, Source)
  BY DEF Container, ContainerOf, ClearOf, ForgottenOf, MocsOf, PlainOf, Forgotten, MocFile, MocFileOf

\* ... and of what is encrypted.
LEMMA ToEncryptIs == UsingEncryption => ToEncrypt = ClearOf(windows, UsingEncryption, staged)
  BY FileAssumption
     DEF ToEncrypt, ToEncryptLinux, ToEncryptWindows, ClearOf, ForgottenOf, IsModelica

\* A folder that nothing is written into, or that is written into an empty one.
LEMMA OverNothing ==
  ASSUME NEW t, t = [f \in DOMAIN t |-> t[f]]
  PROVE  Over(t, NoFolder) = t /\ Over(NoFolder, t) = t
  BY DEF Over, NoFolder

\* The copy of the library is a folder.
LEMMA TreeIsFunction ==
  TreeOf(windows) = [f \in DOMAIN TreeOf(windows) |-> TreeOf(windows)[f]]
  BY DEF TreeOf

\* All that is staged has a proper path.
LEMMA SourceIsFolder ==
  ASSUME NEW enc, NEW lves, NEW icon
  PROVE  DOMAIN SourceOf(windows, enc, lves, icon) \subseteq FilePaths
  <1> DEFINE tree == TreeOf(windows)
             lve == LveFolderOf(enc)
             inner == Over(lve, tree)
             outer == Over(ExtraTree, inner)
  <1>1. DOMAIN tree \subseteq FilePaths
    BY TreesAreFolders, TreeIs
  <1>2. DOMAIN lve \subseteq FilePaths
    BY TreesAreFolders DEF LveFolderOf, NoFolder
  <1> HIDE DEF tree, lve
  <1>3. DOMAIN inner = DOMAIN lve \cup DOMAIN tree
    BY DomainOver
  <1> HIDE DEF inner
  <1>4. DOMAIN outer = DOMAIN ExtraTree \cup DOMAIN inner
    BY DomainOver
  <1> HIDE DEF outer
  <1>5. DOMAIN Over(File(ManifestFile, Manifest(lves, icon)), outer) = {ManifestFile} \cup DOMAIN outer
    BY DomainOverFile
  <1>6. SourceOf(windows, enc, lves, icon) = Over(File(ManifestFile, Manifest(lves, icon)), outer)
    BY DEF SourceOf, outer, inner, tree, lve
  <1>7. QED
    BY <1>1, <1>2, <1>3, <1>4, <1>5, <1>6, TreesAreFolders

\* What is archived, of what encryption leaves, is the container.
LEMMA ArchivedIsContainer ==
  ASSUME NEW source, DOMAIN source \subseteq FilePaths,
         staged = Over(MocsOf(windows, ClearOf(windows, UsingEncryption, source), source), source)
  PROVE  [f \in ToArchive |-> staged[f]] = ContainerOf(windows, UsingEncryption, source)
  <1> DEFINE enc == UsingEncryption
             clear == ClearOf(windows, enc, source)
             forgotten == ForgottenOf(windows, enc, source)
             mocs == MocsOf(windows, clear, source)
             plain == PlainOf(windows, enc, source)
  <1>1. /\ clear \subseteq DOMAIN source /\ forgotten \subseteq DOMAIN source
        /\ clear \cup forgotten = {f \in DOMAIN source : enc /\ IsModelica(f)}
    BY FileAssumption DEF ClearOf, ForgottenOf, IsModelica
  <1>2. DOMAIN plain = DOMAIN source \ (clear \cup forgotten) /\ \A f \in DOMAIN plain : plain[f] = source[f]
    BY DEF PlainOf
  <1>3. DOMAIN mocs \cap {f \in DOMAIN mocs : IsModelica(f)} = {}
    <2>1. \A f \in clear : f \in FilePaths /\ IsModelica(f)
      BY <1>1
    <2>2. DOMAIN mocs = {MocFileOf(windows, g) : g \in clear}
      BY DEF MocsOf
    <2>3. \A g : MocFileOf(windows, g) = MocFile(g)
      BY DEF MocFile, MocFileOf
    <2> HIDE DEF mocs, clear
    <2>4. \A f \in DOMAIN mocs : ~IsModelica(f)
      BY <2>1, <2>2, <2>3, MocFileIsPath
    <2>5. QED
      BY <2>4
  <1>4. staged = Over(mocs, source)
    OBVIOUS
  <1>5. ContainerOf(windows, enc, source) = Over(mocs, plain)
    BY DEF ContainerOf
  <1>6. ToArchive = {f \in DOMAIN staged : enc => ~IsModelica(f)}
    BY DEF ToArchive
  <1> HIDE DEF clear, forgotten, mocs, plain, enc
  <1>7. DOMAIN staged = DOMAIN mocs \cup DOMAIN source
    BY <1>4, DomainOver
  <1>8. ToArchive = DOMAIN mocs \cup DOMAIN plain
    BY <1>1, <1>2, <1>3, <1>6, <1>7
  <1>9. ASSUME NEW f \in ToArchive
        PROVE  staged[f] = IF f \in DOMAIN mocs THEN mocs[f] ELSE plain[f]
    <2>1. CASE f \in DOMAIN mocs
      BY <1>4, <2>1, ValueOver
    <2>2. CASE f \notin DOMAIN mocs
      <3>1. f \in DOMAIN plain /\ f \in DOMAIN source
        BY <1>2, <1>8, <2>2
      <3>2. staged[f] = source[f]
        BY <1>4, <2>2, <3>1, ValueOver
      <3>3. QED
        BY <1>2, <2>2, <3>1, <3>2
    <2>3. QED
      BY <2>1, <2>2
  <1>10. ContainerOf(windows, enc, source) = [f \in ToArchive |-> IF f \in DOMAIN mocs THEN mocs[f] ELSE plain[f]]
    BY <1>5, <1>8 DEF Over
  <1>11. [f \in ToArchive |-> staged[f]] = ContainerOf(windows, enc, source)
    BY <1>9, <1>10
  <1>12. QED
    BY <1>11 DEF enc

\* How far a run without faults has come.
ThisSource    == SourceOf(windows, UsingEncryption, lveList, pathToIcon)
ThisContainer == ContainerOf(windows, UsingEncryption, ThisSource)
ThisClear     == ClearOf(windows, UsingEncryption, ThisSource)

Progress ==
  /\ pc \in {"library", "icon", "lves"} => staged = TreeOf(windows)
  /\ pc = "extras" => staged = Over(LveFolderOf(UsingEncryption), TreeOf(windows))
  /\ pc = "manifest" =>
       staged = Over(ExtraTree, Over(LveFolderOf(UsingEncryption), TreeOf(windows)))
  /\ pc = "encrypt" => staged = ThisSource
  /\ pc = "zip" => staged = Over(MocsOf(windows, ThisClear, ThisSource), ThisSource)
  /\ pc = "remove" \/ Succeeded => archive = Archive(ThisContainer)

CleanInv ==
  /\ pc \in {"validate", "copy"} => staged = NoFolder
  /\ faults = {} => Progress
  /\ ExitExplained

\* A step that leaves no fault behind met none.
LEMMA FaultFree ==
  ASSUME faults' = {}
  PROVE  /\ \A what : ~Fails(what)
         /\ Well => faults = {}
  BY DEF Fails, Well

\* What the build and the options decide stays as long as they do.
LEMMA ArgumentsFrame ==
  ASSUME UNCHANGED <<windows, options>>
  PROVE  /\ UNCHANGED <<UsingEncryption, TreeOf(windows), LveFolderOf(UsingEncryption)>>
         /\ \A o : Given(o)' = Given(o)
  BY DEF UsingEncryption, UsesEncryption, TreeOf, LveFolderOf, Given

\* ... and the container with the lists of the manifest.
LEMMA ContainerFrame ==
  ASSUME UNCHANGED <<windows, options, lveList, pathToIcon>>
  PROVE  UNCHANGED <<UsingEncryption, ThisSource, ThisContainer, ThisClear>>
  <1>1. UNCHANGED UsingEncryption
    BY DEF UsingEncryption, UsesEncryption
  <1>2. ThisSource' = SourceOf(windows', UsingEncryption', lveList', pathToIcon')
    BY DEF ThisSource
  <1>3. ThisSource' = ThisSource
    BY <1>1, <1>2 DEF ThisSource
  <1>4. ThisClear' = ThisClear
    BY <1>1, <1>3 DEF ThisClear
  <1>5. ThisContainer' = ThisContainer
    BY <1>1, <1>3 DEF ThisContainer
  <1>6. QED
    BY <1>1, <1>3, <1>4, <1>5

\* Progress of each step that meets no fault.
LEMMA CopyProgress ==
  ASSUME CopyFolderStructure, staged = NoFolder, UNCHANGED windows, faults' = {}
  PROVE  pc' = "library" /\ staged' = TreeOf(windows)
  <1>1. Over(LibraryTree, NoFolder) = TreeOf(windows)
    BY OverNothing, TreeIsFunction, TreeIs
  <1>2. pc' = "library" /\ staged' = Over(LibraryTree, staged)
    BY FaultFree DEF CopyFolderStructure, CopyTree, CopyTreeWindows, NoStagingFolder, Go
  <1>3. QED
    BY <1>1, <1>2

\* The copy of a library has no .library, so that the tool can create one.
LEMMA NoDotLibrary == \A f \in DOMAIN TreeOf(windows) : f[1] # DotLibrary
  <1>1. ASSUME NEW f \in DOMAIN TreeOf(windows) PROVE f[1] # DotLibrary
    <2>1. f \in Library /\ \A i \in DOMAIN f : f[i] # DotLibrary
      BY DEF TreeOf
    <2>2. f \in Seq(STRING) /\ f # <<>>
      BY <2>1, FileAssumption
    <2>3. 1 \in DOMAIN f
      BY <2>2
    <2>4. QED
      BY <2>1, <2>3
  <1>2. QED
    BY <1>1

\* So mkdir() finds nothing in its way.
LEMMA LibraryProgress ==
  ASSUME CreateLibraryFolder, staged = TreeOf(windows), faults' = {}
  PROVE  pc' = "icon" /\ UNCHANGED staged
  BY FaultFree, NoDotLibrary DEF CreateLibraryFolder, Go, Exit

\* The icon is found where the build looks for it, or the tool says it is not.
LEMMA IconProgress ==
  ASSUME PrepareIconFile, staged = TreeOf(windows), faults' = {}
  PROVE  /\ UNCHANGED staged
         /\ \/ pc' = "lves"
            \/ /\ pc' = "exited" /\ exitCode' = 4 /\ Given("-icon")
               /\ windows \/ <<BaseName[options["-icon"]]>> \notin DOMAIN TreeOf(windows)
  <1> DEFINE found == {f \in DOMAIN staged : Last(f) = ExtractFilename(options["-icon"])}
             name == BaseName[options["-icon"]]
  <1>1. UNCHANGED staged
    BY DEF PrepareIconFile
  <1>2. CASE windows \/ ~Given("-icon")
    BY <1>1, <1>2, FaultFree DEF PrepareIconFile, Go, Exit
  <1>3. CASE ~windows /\ Given("-icon")
    <2>1. IF FoundByLinux(found) = {} THEN Exit(4) ELSE Go("lves")
      BY <1>3, FaultFree DEF PrepareIconFile
    <2>2. CASE FoundByLinux(found) # {}
      BY <1>1, <2>1, <2>2 DEF Go
    <2>3. CASE FoundByLinux(found) = {}
      <3>1. \A f \in found : Len(f) # 1
        BY <2>3 DEF FoundByLinux
      <3>2. Last(<<name>>) = name /\ Len(<<name>>) = 1
        BY DEF Last
      <3>3. <<name>> \notin DOMAIN staged
        BY <3>1, <3>2 DEF ExtractFilename
      <3>4. QED
        BY <1>1, <1>3, <2>1, <2>3, <3>3 DEF Exit
    <2>4. QED
      BY <2>2, <2>3
  <1>4. QED
    BY <1>2, <1>3

\* All LVEs are copied.
LEMMA LveProgress ==
  ASSUME CopyLve, staged = TreeOf(windows), faults' = {}
  PROVE  pc' = "extras" /\ staged' = Over(LveFolderOf(UsingEncryption), TreeOf(windows))
  <1>1. CASE UsingEncryption
    BY <1>1, FaultFree DEF CopyLve, Go, LveFolderOf
  <1>2. CASE ~UsingEncryption
    <2>1. pc' = "extras" /\ UNCHANGED staged
      BY <1>2 DEF CopyLve, Go
    <2>2. Over(NoFolder, TreeOf(windows)) = TreeOf(windows)
      BY OverNothing, TreeIsFunction
    <2>3. QED
      BY <1>2, <2>1, <2>2 DEF LveFolderOf
  <1>3. QED
    BY <1>1, <1>2

\* Extra files are written over them.
LEMMA ExtraProgress ==
  ASSUME CopyExtraFiles, faults' = {}
  PROVE  pc' = "manifest" /\ staged' = Over(ExtraTree, staged)
  BY FaultFree DEF CopyExtraFiles, CopyTree, CopyTreeWindows, Go

\* The manifest is written over an extra file of its name.
LEMMA ManifestProgress ==
  ASSUME CreateManifestFile, faults' = {}
  PROVE  /\ pc' = "encrypt"
         /\ staged' = Over(File(ManifestFile, Manifest(lveList, pathToIcon)), staged)
  BY FaultFree DEF CreateManifestFile, Writes, Go

\* The Modelica files are encrypted, in addition to what there is.
LEMMA EncryptProgress ==
  ASSUME EncryptFiles, staged = ThisSource, faults' = {}
  PROVE  pc' = "zip" /\ staged' = Over(MocsOf(windows, ThisClear, ThisSource), ThisSource)
  <1>1. CASE UsingEncryption
    <2>1. pc' = "zip" /\ staged' = Over(MocFiles(ToEncrypt), staged)
      BY <1>1, FaultFree DEF EncryptFiles, Go
    <2>2. ToEncrypt = ThisClear
      BY <1>1, ToEncryptIs DEF ThisClear
    <2>3. MocFiles(ToEncrypt) = MocsOf(windows, ThisClear, ThisSource)
      BY <2>2, MocsAre
    <2>4. QED
      BY <2>1, <2>3
  <1>2. CASE ~UsingEncryption
    <2>1. pc' = "zip" /\ UNCHANGED staged
      BY <1>2, FaultFree DEF EncryptFiles, Go
    <2>2. ThisClear = {}
      BY <1>2 DEF ThisClear, ClearOf
    <2>3. MocsOf(windows, {}, ThisSource) = NoFolder
      BY DEF MocsOf, NoFolder
    <2>4. ThisSource = [f \in DOMAIN ThisSource |-> ThisSource[f]]
      BY DEF ThisSource, SourceOf, Over
    <2>5. Over(NoFolder, ThisSource) = ThisSource
      BY <2>4, OverNothing
    <2>6. QED
      BY <2>1, <2>2, <2>3, <2>5
  <1>3. QED
    BY <1>1, <1>2

\* The container is what zipping archives.
LEMMA ZipProgress ==
  ASSUME CreateZipArchive, faults' = {},
         staged = Over(MocsOf(windows, ThisClear, ThisSource), ThisSource)
  PROVE  \/ pc' = "remove" /\ archive' = Archive(ThisContainer)
         \/ pc' = "exited" /\ exitCode' = 9 /\ windows /\ options["-librarypath"] \in Hollow
  <1> DEFINE packed == [f \in ToArchive |-> staged[f]]
  <1>1. packed = ThisContainer
    BY ArchivedIsContainer, SourceIsFolder DEF ThisSource, ThisClear, ThisContainer
  <1>2. NoArchive.files = NoFolder
    BY DEF NoArchive
  <1>3. packed = [f \in DOMAIN packed |-> packed[f]]
    OBVIOUS
  <1>4. \/ pc' = "remove" /\ archive' = Archive(packed)
        \/ pc' = "remove" /\ archive' = Archive(Over(packed, NoFolder))
        \/ pc' = "exited" /\ exitCode' = 9 /\ windows /\ options["-librarypath"] \in Hollow
    BY <1>2, FaultFree DEF CreateZipArchive, CreateZipArchivePosix, CreateZipArchiveWindows, Go, Exit
  <1> HIDE DEF packed
  <1>5. Over(packed, NoFolder) = packed
    BY <1>3, OverNothing
  <1>6. QED
    BY <1>1, <1>4, <1>5

\* Nothing changes in a step that changes nothing.
LEMMA CleanFrame ==
  ASSUME CleanInv, UNCHANGED windows, UNCHANGED vars
  PROVE  CleanInv'
  <1>1. UNCHANGED <<pc, exitCode, argv, staged, archive, options, faults, lveList, pathToIcon, windows>>
    BY DEF vars
  <1>2. UNCHANGED <<UsingEncryption, ThisSource, ThisContainer, ThisClear, TreeOf(windows),
                    LveFolderOf(UsingEncryption)>>
    BY <1>1, ContainerFrame, ArgumentsFrame
  <1>3. Succeeded' = Succeeded /\ FailedCleanly' = FailedCleanly
    BY <1>1 DEF Succeeded, FailedCleanly, HelpRequested
  <1>4. Progress' = Progress
    BY <1>1, <1>2, <1>3 DEF Progress
  <1>5. ExitExplained' = ExitExplained
    BY <1>1, <1>3, TreeIs DEF ExitExplained, Given, Parsed, Valid, LibraryTree, Copied
  <1>6. QED
    BY <1>1, <1>4, <1>5 DEF CleanInv

\* A fault is never forgotten within a run.
LEMMA FaultsStay == Later \/ ValidateArguments \/ Killed => faults \subseteq faults'
  <1>1. Well => faults \subseteq faults'
    BY DEF Well
  <1>2. \A what : Fails(what) => faults \subseteq faults'
    BY DEF Fails
  <1>3. CASE ValidateArguments \/ Killed
    BY <1>1, <1>2, <1>3 DEF ValidateArguments, Killed
  <1>4. CASE CopyFolderStructure \/ CreateLibraryFolder \/ PrepareIconFile
    BY <1>1, <1>2, <1>4 DEF CopyFolderStructure, CreateLibraryFolder, PrepareIconFile, CopyTree,
       CopyTreeWindows, NoStagingFolder
  <1>5. CASE CopyLve \/ CopyExtraFiles \/ CreateManifestFile
    BY <1>1, <1>2, <1>5 DEF CopyLve, CopyExtraFiles, CreateManifestFile, CopyTree, CopyTreeWindows,
       Writes
  <1>6. CASE EncryptFiles \/ CreateZipArchive \/ DeleteTemporaryStagingFolder
    BY <1>1, <1>2, <1>6 DEF EncryptFiles, CreateZipArchive, CreateZipArchivePosix,
       CreateZipArchiveWindows, DeleteTemporaryStagingFolder
  <1>7. QED
    BY <1>3, <1>4, <1>5, <1>6 DEF Later

\* Without faults only three steps exit, and each says why.
LEMMA CleanStep == CleanInv /\ [Next]_vars => CleanInv'
  <1> SUFFICES ASSUME CleanInv, [Next]_vars PROVE CleanInv'
    OBVIOUS
  <1>1. CASE UNCHANGED vars
    <2>1. UNCHANGED windows
      BY <1>1 DEF vars
    <2>2. QED
      BY <1>1, <2>1, CleanFrame
  <1>2. CASE Step /\ UNCHANGED windows
    <2>1. CASE Start
      <3>1. pc' = "validate" /\ staged' = NoFolder
        BY <2>1 DEF Start
      <3>2. ~Succeeded' /\ ~FailedCleanly'
        BY <3>1 DEF Succeeded, FailedCleanly
      <3>3. QED
        BY <3>1, <3>2 DEF CleanInv, ExitExplained, Progress
    <2>2. CASE Killed
      <3>1. pc' = "killed"
        BY <2>2 DEF Killed
      <3>2. ~Succeeded' /\ ~FailedCleanly'
        BY <3>1 DEF Succeeded, FailedCleanly
      <3>3. QED
        BY <3>1, <3>2 DEF CleanInv, ExitExplained, Progress
    <2>3. CASE ValidateArguments
      <3>1. UNCHANGED <<argv, staged>> /\ pc = "validate" /\ staged = NoFolder
        BY <2>3 DEF ValidateArguments, CleanInv
      <3>2. \/ HelpRequested(argv) /\ Exit(0)
            \/ Go("copy")
            \/ Exit(1) /\ (faults' = {} => ~Parsed(argv).ok \/ ~Valid(options'))
        BY <2>3, FaultFree DEF ValidateArguments
      <3>3. \/ pc' = "copy"
            \/ pc' = "exited" /\ exitCode' = 0 /\ HelpRequested(argv)
            \/ /\ pc' = "exited" /\ exitCode' = 1
               /\ faults' = {} => ~Parsed(argv').ok \/ ~Valid(options')
        BY <3>1, <3>2 DEF Go, Exit
      <3>4. ~Succeeded'
        <4>1. HelpRequested(argv)' = HelpRequested(argv)
          BY <3>1 DEF HelpRequested
        <4>2. QED
          BY <3>3, <4>1 DEF Succeeded
      <3>5. ExitExplained'
        BY <3>3 DEF ExitExplained, FailedCleanly
      <3>6. QED
        BY <3>1, <3>3, <3>4, <3>5 DEF CleanInv, Progress
    <2>4. ASSUME Later, faults' = {} PROVE Progress
      BY <2>4, FaultsStay DEF CleanInv
    <2>5. ASSUME faults' # {}, pc' \notin {"validate", "copy"} PROVE CleanInv'
      BY <2>5 DEF CleanInv, ExitExplained
    <2>6. ASSUME Later PROVE pc' \notin {"validate", "copy"}
      BY <2>6, StepsInOrder DEF Later, Goes, DeleteTemporaryStagingFolder, Exit
    <2>7. ASSUME pc' \in Steps \ {"validate", "copy"}, Progress' PROVE CleanInv'
      BY <2>7 DEF CleanInv, ExitExplained, FailedCleanly, Steps
    <2>8. ASSUME Later, faults' = {} PROVE CleanInv'
      <3>1. Progress
        BY <2>4, <2>8
      <3>2. UNCHANGED options
        BY <2>8, LaterKeepsArguments
      <3>3. /\ UNCHANGED <<UsingEncryption, TreeOf(windows), LveFolderOf(UsingEncryption)>>
            /\ \A o : Given(o)' = Given(o)
        BY <1>2, <3>2, ArgumentsFrame
      <3>4. CASE CopyFolderStructure
        <4>1. staged = NoFolder
          BY <3>4 DEF CopyFolderStructure, CleanInv
        <4>2. pc' = "library" /\ staged' = TreeOf(windows)
          BY <1>2, <2>8, <3>4, <4>1, CopyProgress
        <4>3. Progress'
          BY <3>3, <4>2 DEF Progress, Succeeded
        <4>4. QED
          BY <2>7, <4>2, <4>3 DEF Steps
      <3>5. CASE CreateLibraryFolder
        <4>1. staged = TreeOf(windows)
          BY <3>1, <3>5 DEF CreateLibraryFolder, Progress
        <4>2. pc' = "icon" /\ UNCHANGED staged
          BY <2>8, <3>5, <4>1, LibraryProgress
        <4>3. Progress'
          BY <3>3, <4>1, <4>2 DEF Progress, Succeeded
        <4>4. QED
          BY <2>7, <4>2, <4>3 DEF Steps
      <3>6. CASE PrepareIconFile
        <4>1. staged = TreeOf(windows)
          BY <3>1, <3>6 DEF PrepareIconFile, Progress
        <4>2. /\ UNCHANGED staged
              /\ \/ pc' = "lves"
                 \/ /\ pc' = "exited" /\ exitCode' = 4 /\ Given("-icon")
                    /\ windows \/ <<BaseName[options["-icon"]]>> \notin DOMAIN TreeOf(windows)
          BY <2>8, <3>6, <4>1, IconProgress
        <4>3. CASE pc' = "lves"
          <5>1. Progress'
            BY <3>3, <4>1, <4>2, <4>3 DEF Progress, Succeeded
          <5>2. QED
            BY <2>7, <4>3, <5>1 DEF Steps
        <4>4. CASE pc' # "lves"
          <5>1. ~Succeeded'
            BY <4>2, <4>4 DEF Succeeded
          <5>2. LibraryTree' = TreeOf(windows)
            BY <1>2 DEF LibraryTree, TreeOf, Copied
          <5>3. ExitExplained'
            BY <1>2, <3>2, <3>3, <4>2, <4>4, <5>2 DEF ExitExplained
          <5>4. QED
            BY <4>2, <4>4, <5>1, <5>3 DEF CleanInv, Progress
        <4>5. QED
          BY <4>3, <4>4
      <3>7. CASE CopyLve
        <4>1. staged = TreeOf(windows)
          BY <3>1, <3>7 DEF CopyLve, Progress
        <4>2. pc' = "extras" /\ staged' = Over(LveFolderOf(UsingEncryption), TreeOf(windows))
          BY <2>8, <3>7, <4>1, LveProgress
        <4>3. Progress'
          BY <3>3, <4>2 DEF Progress, Succeeded
        <4>4. QED
          BY <2>7, <4>2, <4>3 DEF Steps
      <3>8. CASE CopyExtraFiles
        <4>1. staged = Over(LveFolderOf(UsingEncryption), TreeOf(windows))
          BY <3>1, <3>8 DEF CopyExtraFiles, Progress
        <4>2. pc' = "manifest" /\ staged' = Over(ExtraTree, staged)
          BY <2>8, <3>8, ExtraProgress
        <4>3. Progress'
          BY <3>3, <4>1, <4>2 DEF Progress, Succeeded
        <4>4. QED
          BY <2>7, <4>2, <4>3 DEF Steps
      <3>9. CASE CreateManifestFile
        <4>1. staged = Over(ExtraTree, Over(LveFolderOf(UsingEncryption), TreeOf(windows)))
          BY <3>1, <3>9 DEF CreateManifestFile, Progress
        <4>2. /\ pc' = "encrypt"
              /\ staged' = Over(File(ManifestFile, Manifest(lveList, pathToIcon)), staged)
          BY <2>8, <3>9, ManifestProgress
        <4>3. UNCHANGED <<lveList, pathToIcon>>
          BY <3>9 DEF CreateManifestFile
        <4>4. staged' = ThisSource'
          BY <1>2, <3>2, <4>1, <4>2, <4>3, ContainerFrame DEF ThisSource, SourceOf
        <4>5. Progress'
          BY <4>2, <4>4 DEF Progress, Succeeded
        <4>6. QED
          BY <2>7, <4>2, <4>5 DEF Steps
      <3>10. CASE EncryptFiles
        <4>1. staged = ThisSource
          BY <3>1, <3>10 DEF EncryptFiles, Progress
        <4>2. pc' = "zip" /\ staged' = Over(MocsOf(windows, ThisClear, ThisSource), ThisSource)
          BY <2>8, <3>10, <4>1, EncryptProgress
        <4>3. UNCHANGED <<lveList, pathToIcon>>
          BY <3>10 DEF EncryptFiles
        <4>4. UNCHANGED <<ThisSource, ThisClear>>
          BY <1>2, <3>2, <4>3, ContainerFrame
        <4>5. Progress'
          BY <1>2, <4>2, <4>4 DEF Progress, Succeeded
        <4>6. QED
          BY <2>7, <4>2, <4>5 DEF Steps
      <3>11. CASE CreateZipArchive
        <4>1. staged = Over(MocsOf(windows, ThisClear, ThisSource), ThisSource)
          BY <3>1, <3>11 DEF CreateZipArchive, Progress
        <4>2. \/ pc' = "remove" /\ archive' = Archive(ThisContainer)
              \/ pc' = "exited" /\ exitCode' = 9 /\ windows /\ options["-librarypath"] \in Hollow
          BY <2>8, <3>11, <4>1, ZipProgress
        <4>3. UNCHANGED <<lveList, pathToIcon>>
          BY <3>11 DEF CreateZipArchive
        <4>4. UNCHANGED ThisContainer
          BY <1>2, <3>2, <4>3, ContainerFrame
        <4>5. CASE pc' = "remove"
          <5>1. Progress'
            BY <4>2, <4>4, <4>5 DEF Progress
          <5>2. QED
            BY <2>7, <4>5, <5>1 DEF Steps
        <4>6. CASE pc' # "remove"
          <5>1. ~Succeeded'
            BY <4>2, <4>6 DEF Succeeded
          <5>2. ExitExplained'
            BY <1>2, <3>2, <4>2, <4>6 DEF ExitExplained
          <5>3. QED
            BY <4>2, <4>6, <5>1, <5>2 DEF CleanInv, Progress
        <4>7. QED
          BY <4>5, <4>6
      <3>12. CASE DeleteTemporaryStagingFolder
        <4>1. /\ archive = Archive(ThisContainer)
              /\ UNCHANGED <<archive, lveList, pathToIcon>>
              /\ pc' = "exited" /\ exitCode' = 0
          BY <3>1, <3>12 DEF DeleteTemporaryStagingFolder, Progress, Exit
        <4>2. UNCHANGED ThisContainer
          BY <1>2, <3>2, <4>1, ContainerFrame
        <4>3. Progress'
          BY <4>1, <4>2 DEF Progress
        <4>4. ~FailedCleanly'
          BY <4>1 DEF FailedCleanly
        <4>5. QED
          BY <4>1, <4>3, <4>4 DEF CleanInv, ExitExplained
      <3>13. QED
        BY <2>8, <3>4, <3>5, <3>6, <3>7, <3>8, <3>9, <3>10, <3>11, <3>12 DEF Later
    <2>9. CASE Later
      BY <2>5, <2>6, <2>8, <2>9
    <2>10. QED
      BY <1>2, <2>1, <2>2, <2>3, <2>9 DEF Step, Later
  <1>3. QED
    BY <1>1, <1>2 DEF Next

\* A run without faults stages exactly what it should at every step, and says why
\* when it fails.
THEOREM CleanRunsHold == Spec => []CleanInv
  <1>1. Init => CleanInv
    BY DEF Init, CleanInv, Progress, Succeeded, ExitExplained, FailedCleanly
  <1>2. QED
    BY <1>1, CleanStep, PTL DEF Spec

\* A run that meets no fault and reports success leaves exactly the container of
\* its library, whatever the library, the LVEs and the extra files are.
THEOREM ContainerIsComplete == Spec => []CompleteContainer
  <1>1. CleanInv => CompleteContainer
    <2> SUFFICES ASSUME CleanInv, Succeeded, faults = {} PROVE archive = Archive(Container)
      BY DEF CompleteContainer
    <2>1. archive = Archive(ThisContainer)
      BY DEF CleanInv, Progress
    <2>2. Container = ThisContainer
      BY ContainerIs, SourceIs DEF ThisContainer, ThisSource
    <2>3. QED
      BY <2>1, <2>2
  <1>2. QED
    BY <1>1, CleanRunsHold, PTL

\* Without faults a run fails only for one of three reasons.
THEOREM FailuresExplained == Spec => []ExitExplained
  <1>1. CleanInv => ExitExplained
    BY DEF CleanInv
  <1>2. QED
    BY <1>1, CleanRunsHold, PTL
================================================================================
