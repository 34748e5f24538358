----------------------------- MODULE PackageTool -----------------------------
(***************************************************************************)
(* The packaging tool: doWork() copies a library to a staging folder, adds   *)
(* the directory .library with LVEs, extra files and the manifest, encrypts  *)
(* the Modelica files in place and zips what is there, leaving the clear     *)
(* text out. Any step may fail or be cut off, and the next run of the tool   *)
(* finds the archive of the last one.                                        *)
(*                                                                         *)
(* A file is its path below the library, a sequence of names; a folder is a  *)
(* function from files to contents. Each run stages in a new folder. The     *)
(* Windows build has functions of its own for copying, searching, encrypting  *)
(* and zipping directories, which differ in what they do when one fails.      *)
(***************************************************************************)
EXTENDS Integers, SequencesExt, FiniteSets

CONSTANTS
  Library,       \* files of the library
  Links,         \* those that are neither regular files nor directories
  Lves,          \* names of the LVEs found in LVE/ next to the tool
  Extras,        \* files below the .library next to the tool
  Modelica,      \* names with the extension .mo
  PackageNames,  \* names that are package.mo but for their case
  Moc,           \* a name of Modelica with "c" appended
  CommandLines,  \* arguments the tool may be started with
  Paths,         \* arguments that name an existing file or directory
  Directories,   \* ... a directory
  Hollow,        \* ... a library with an empty directory
  BaseName,      \* the last name of such a path
  TrueWords,     \* "true", in any case
  LibraryName,
  NoIcon,
  MaxFaults,     \* system calls that fail in one run
  MaxAdded,      \* files archived before zipping them breaks off
  MaxRuns        \* runs of the tool

ASSUME FileAssumption ==
  /\ Links \subseteq Library
  /\ \A f \in Library \cup Extras : f \in Seq(STRING) /\ f # <<>>
  /\ Moc \in [Modelica -> STRING \ Modelica]
  /\ PackageNames \subseteq Modelica /\ "package.mo" \in PackageNames
  /\ Lves \subseteq STRING \ Modelica /\ "manifest.xml" \notin Modelica
  /\ Hollow \subseteq Directories
ASSUME ArgumentAssumption == CommandLines \subseteq Seq(STRING)
ASSUME BoundAssumption == {MaxFaults, MaxAdded, MaxRuns} \subseteq Nat

VARIABLES
  windows,    \* the build of the tool
  run,        \* runs started so far
  argv,       \* arguments of this run
  options,    \* manifestData
  pc,         \* the step doWork is at
  exitCode,   \* -1 while running
  staged,     \* the staging folder
  lveList,    \* the LVEs to list in the manifest
  pathToIcon,
  archive,    \* the .mol file in the current directory
  before,     \* the archive when this run started (history)
  faults      \* what went wrong in this run (history)

vars == <<windows, run, argv, options, pc, exitCode, staged, lveList, pathToIcon, archive, before, faults>>

Stopped == {"none", "exited", "crashed", "killed"}
Steps   == {"validate", "copy", "library", "icon", "lves", "extras", "manifest",
            "encrypt", "zip", "remove"}

-----------------------------------------------------------------------------
(* Files and their contents. *)

DotLibrary   == ".library"
ManifestFile == <<DotLibrary, "manifest.xml">>

Plain(f)           == <<"plain", f>>
Lve(n)             == <<"lve", <<n>>>>
Extra(f)           == <<"extra", f>>
Manifest(lves, ic) == <<"manifest", lves, ic>>
Encrypted(c)       == <<"encrypted", c>>
Damaged(c)         == <<"damaged", c>>

IsModelica(f) == Last(f) \in Modelica
\* A package.mo is opened under this name in a file system that takes any case.
MocFile(f) ==
  Append(Front(f), Moc[IF windows /\ Last(f) \in PackageNames THEN "package.mo" ELSE Last(f)])

NoFolder   == [f \in {} |-> Plain(f)]
\* One file, and a folder that others are written into.
File(f, contents) == [g \in {f} |-> contents]
Over(new, old)    ==
  [f \in DOMAIN new \cup DOMAIN old |-> IF f \in DOMAIN new THEN new[f] ELSE old[f]]

NoArchive  == [usable |-> FALSE, files |-> NoFolder]
Archive(d) == [usable |-> TRUE, files |-> d]

\* Both ways of copying leave .library out, on every level.
Copied(f)   == (f \in Links => windows) /\ \A i \in DOMAIN f : f[i] # DotLibrary
LibraryTree == [f \in {g \in Library : Copied(g)} |-> Plain(f)]
ExtraTree   == [f \in {<<DotLibrary>> \o g : g \in {e \in Extras : \A i \in DOMAIN e : e[i] # DotLibrary}}
                 |-> Extra(Tail(f))]
LveTree     == [f \in {<<DotLibrary, n>> : n \in Lves} |-> Lve(f[2])]

-----------------------------------------------------------------------------
(* Faults. *)

Well        == UNCHANGED faults
Fails(what) == Cardinality(faults) < MaxFaults /\ faults' = faults \cup {what}

Go(step)   == pc' = step /\ UNCHANGED exitCode
Exit(code) == pc' = "exited" /\ exitCode' = code
Crash      == pc' = "crashed" /\ UNCHANGED exitCode

\* The faults nobody looks at: the results of copying and of writing.
Unnoticed == {"a copy", "a write", "the previous archive", "closing the archive", "removing"}

\* copyDirectoryLinux ignores what becomes of a file or a directory; copyFile
\* takes a short read for a copy.
CopyTree(tree) ==
  \/ staged' = Over(tree, staged) /\ Well
  \/ /\ Fails("a copy")
     /\ \E f \in DOMAIN tree :
          \/ staged' = Over(File(f, Damaged(tree[f])), Over(tree, staged))
          \/ \E n \in 1..Len(f) :
               LET lost == {g \in DOMAIN tree : IsPrefix(SubSeq(f, 1, n), g)}
               IN staged' = Over([g \in DOMAIN tree \ lost |-> tree[g]], staged)

\* copyDirectoryWin32 stops in a directory at a file it cannot look at, which only
\* the topmost call tells; a file that cannot be opened ends the process.
CopyTreeWindows(tree, top, step, code) ==
  \/ staged' = Over(tree, staged) /\ Well /\ Go(step)
  \/ /\ Fails("a copy") /\ Go(step)
     /\ \E f \in DOMAIN tree :
          \/ staged' = Over(File(f, Damaged(tree[f])), Over(tree, staged))
          \/ \E n \in top + 1..Len(f) - 1 :
               LET within == {g \in DOMAIN tree : IsStrictPrefix(SubSeq(f, 1, n), g)}
               IN \E missed \in SUBSET {g[n + 1] : g \in within} :
                    LET kept == DOMAIN tree \ {h \in within : h[n + 1] \in missed}
                    IN staged' = Over([g \in kept |-> tree[g]], staged)
  \/ Fails("a copy") /\ (Exit(code) \/ Crash) /\ UNCHANGED staged

\* A file that is written in full, or only in part when the disk is full.
Writes(f, contents) ==
  \/ staged' = Over(File(f, contents), staged) /\ Well
  \/ staged' = Over(File(f, Damaged(contents)), staged) /\ Fails("a write")

-----------------------------------------------------------------------------
(* Arguments. *)

\* An option is written with one character before its name, which is not
\* looked at; here it is part of the name.
Options ==
  {"-librarypath", "-enabled", "-title", "-description", "-version", "-build", "-date",
   "-language", "-copyright", "-license", "-encrypt", "-icon", "-tools", "-dependencies"}
MandatoryArguments == {"-librarypath", "-version", "-language"}
HelpArguments      == {"--help", "-h"}

HelpRequested(args) == \E i \in DOMAIN args : args[i] \in HelpArguments

\* Seeded bug: an option given twice is not noticed.
ParsedTwice(args) ==
  LET Read[n \in 0..(Len(args) \div 2)] ==
        IF n = 0 THEN [ok |-> TRUE, options |-> [o \in {} |-> ""]]
        ELSE LET key == args[2*n - 1] value == args[2*n] last == Read[n-1]
             IN [ok      |-> last.ok /\ key \in Options /\ value # "",
                 options |-> Over(last.options, File(key, value))]
      all == Read[Len(args) \div 2]
  IN [all EXCEPT !.ok = @ /\ Len(args) % 2 = 0]

\* Seeded bug: an option is not looked up.
ParsedUnknown(args) ==
  LET pairs == 1..(Len(args) \div 2)
  IN [ok      |-> Len(args) % 2 = 0,
      options |-> [o \in {args[2*n - 1] : n \in pairs} |->
                     args[2 * CHOOSE n \in pairs : args[2*n - 1] = o]]]

\* validateArguments: options and values in turn.
Parsed(args) ==
  LET Read[n \in 0..(Len(args) \div 2)] ==
        IF n = 0 THEN [ok |-> TRUE, options |-> [o \in {} |-> ""]]
        ELSE LET key == args[2*n - 1] value == args[2*n] last == Read[n-1]
             IN [ok      |-> /\ last.ok /\ key \in Options /\ value # ""
                             /\ key \notin DOMAIN last.options,
                 options |-> Over(last.options, File(key, value))]
      all == Read[Len(args) \div 2]
  IN [all EXCEPT !.ok = @ /\ Len(args) % 2 = 0]

Given(o)          == o \in DOMAIN options
UsesEncryption(g) == "-encrypt" \in DOMAIN g /\ g["-encrypt"] \in TrueWords
UsingEncryption   == UsesEncryption(options)

ValidatePath(p) == p \in Directories
FileExists(p)   == p \in Paths
CountLVE        == Cardinality(Lves)

\* The validations, all of which end in exit code 1.
Valid(g) ==
  /\ MandatoryArguments \subseteq DOMAIN g
  /\ ValidatePath(g["-librarypath"])
  /\ UsesEncryption(g) => CountLVE > 0
  /\ \A o \in {"-tools", "-dependencies", "-icon"} \cap DOMAIN g : FileExists(g[o])

-----------------------------------------------------------------------------
Init ==
  /\ windows \in BOOLEAN /\ run = 0
  /\ argv = <<>> /\ options = [o \in {} |-> ""]
  /\ pc = "none" /\ exitCode = -1
  /\ staged = NoFolder /\ lveList = {} /\ pathToIcon = NoIcon
  /\ archive = NoArchive /\ before = NoArchive
  /\ faults = {}

\* Somebody runs the tool, in the same directory as the last time.
Start ==
  /\ pc \in Stopped /\ run < MaxRuns
  /\ run' = run + 1
  /\ argv' \in CommandLines
  /\ options' = [o \in {} |-> ""]
  /\ pc' = "validate" /\ exitCode' = -1
  /\ staged' = NoFolder /\ lveList' = {} /\ pathToIcon' = NoIcon
  /\ before' = archive /\ faults' = {}
  /\ UNCHANGED archive

ValidateArguments ==
  LET parsed == Parsed(argv) IN
  /\ pc = "validate"
  /\ \/ HelpRequested(argv) /\ Exit(0) /\ Well /\ UNCHANGED options
     \/ /\ ~HelpRequested(argv) /\ Well
        /\ options' = parsed.options
        /\ IF parsed.ok /\ Valid(parsed.options) THEN Go("copy") ELSE Exit(1)
     \/ /\ ~HelpRequested(argv) /\ Fails("a file lookup")
        /\ options' = parsed.options
        /\ Exit(1)
  /\ UNCHANGED <<run, argv, staged, lveList, pathToIcon, archive, before>>

\* Seeded bug: .library is copied with the rest.
CopyFolderStructureWhole ==
  /\ pc = "copy"
  /\ CopyTree([f \in Library \ Links |-> Plain(f)]) /\ Go("library")
  /\ UNCHANGED <<run, argv, options, lveList, pathToIcon, archive, before>>

\* When mkdtemp() fails its result NULL is copied.
NoStagingFolder ==
  /\ Fails("the staging folder") /\ UNCHANGED staged
  /\ Exit(2) \/ (~windows /\ Crash)

CopyFolderStructure ==
  /\ pc = "copy"
  /\ \/ ~windows /\ CopyTree(LibraryTree) /\ Go("library")
     \/ windows /\ CopyTreeWindows(LibraryTree, 0, "library", 2)
     \/ NoStagingFolder
  /\ UNCHANGED <<run, argv, options, lveList, pathToIcon, archive, before>>

\* mkdir() also fails when the directory is there already.
CreateLibraryFolder ==
  /\ pc = "library"
  /\ \/ /\ Well
        /\ IF \E f \in DOMAIN staged : f[1] = DotLibrary THEN Exit(3) ELSE Go("icon")
     \/ Fails("a directory") /\ Exit(3)
  /\ UNCHANGED <<run, argv, options, staged, lveList, pathToIcon, archive, before>>

\* findFileLinux returns whether it met the file at the top; the file it met
\* first, anywhere below, is the one that counts.
FoundByLinux(found) == IF \E f \in found : Len(f) = 1 THEN found ELSE {}

\* findFileWin32 goes into the first directory it meets and comes back with
\* success, whereupon the search is over: it sees the files listed before that
\* directory, on each level, and of these the last one counts.
FoundByWindows(found) ==
  LET folders == {<<DotLibrary>>} \cup
                   UNION {{SubSeq(f, 1, n) : n \in 1..Len(f) - 1} : f \in DOMAIN staged}
      leaves  == {d \in folders : \A e \in folders : ~IsStrictPrefix(d, e)}
      seen(d) == {f \in found : IsPrefix(Front(f), d)}
      last(S) == {f \in S : \A g \in S : Len(g) <= Len(f)}
  IN UNION {{last(S) : S \in {T \in SUBSET seen(d) : {f \in seen(d) : Front(f) = d} \subseteq T}} :
              d \in leaves}

ExtractFilename(p) == BaseName[p]

\* Takes the staging folder off the path, for a TMPDIR of 4 to 25 characters.
CleanUpIconPath(f) == <<LibraryName>> \o f

PrepareIconFile ==
  LET found == {f \in DOMAIN staged : Last(f) = ExtractFilename(options["-icon"])}
      Take(results) ==
        IF results = {} THEN Exit(4) /\ UNCHANGED pathToIcon
        ELSE Go("lves") /\ \E f \in results : pathToIcon' = CleanUpIconPath(f) IN
  /\ pc = "icon"
  /\ \/ ~Given("-icon") /\ Well /\ Go("lves") /\ UNCHANGED pathToIcon
     \/ Given("-icon") /\ Well /\ ~windows /\ Take(FoundByLinux(found))
     \/ Given("-icon") /\ Well /\ windows /\ \E results \in FoundByWindows(found) : Take(results)
     \/ Given("-icon") /\ Fails("a directory") /\ Exit(4) /\ UNCHANGED pathToIcon
     \* a directory that cannot be listed is passed over
     \/ Given("-icon") /\ windows /\ Fails("a copy") /\ found # {} /\ Take(found)
  /\ UNCHANGED <<run, argv, options, staged, lveList, archive, before>>

\* Seeded bug: every LVE is listed, copied or not.
CopyLveUnchecked ==
  /\ pc = "lves"
  /\ \/ ~UsingEncryption /\ Well /\ UNCHANGED <<staged, lveList>>
     \/ UsingEncryption /\ CopyTree(LveTree) /\ lveList' = Lves
  /\ Go("extras")
  /\ UNCHANGED <<run, argv, options, pathToIcon, archive, before>>

CopyLve ==
  /\ pc = "lves"
  /\ \/ ~UsingEncryption /\ Well /\ Go("extras") /\ UNCHANGED <<staged, lveList>>
     \/ UsingEncryption /\ staged' = Over(LveTree, staged) /\ lveList' = Lves /\ Well /\ Go("extras")
     \* a short read is a copy
     \/ /\ UsingEncryption /\ Fails("a copy") /\ Go("extras")
        /\ \E f \in DOMAIN LveTree : staged' = Over(File(f, Damaged(LveTree[f])), Over(LveTree, staged))
        /\ lveList' = Lves
     \/ /\ UsingEncryption /\ Fails("an LVE") /\ Exit(5)
        /\ \E done \in SUBSET DOMAIN LveTree :
             /\ staged' = Over([f \in done |-> LveTree[f]], staged)
             /\ lveList' = {f[2] : f \in done}
  /\ UNCHANGED <<run, argv, options, pathToIcon, archive, before>>

\* An extra file replaces the LVE of its name.
CopyExtraFiles ==
  /\ pc = "extras"
  /\ \/ ~windows /\ CopyTree(ExtraTree) /\ Go("manifest")
     \/ windows /\ CopyTreeWindows(ExtraTree, 1, "manifest", 6)
     \/ Fails("a directory") /\ Exit(6) /\ UNCHANGED staged
  /\ UNCHANGED <<run, argv, options, lveList, pathToIcon, archive, before>>

\* createManifestFile writes without looking whether the file could be opened.
CreateManifestFile ==
  /\ pc = "manifest"
  /\ \/ Writes(ManifestFile, Manifest(lveList, pathToIcon)) /\ Go("encrypt")
     \/ Fails("the manifest") /\ Crash /\ UNCHANGED staged
  /\ UNCHANGED <<run, argv, options, lveList, pathToIcon, archive, before>>

\* What encryptDirectoryLinux meets: package.mo in this case only, any other
\* Modelica file in any. encryptDirectoryWin32 compares no case.
ToEncryptLinux ==
  {f \in DOMAIN staged : IsModelica(f) /\ (Last(f) \in PackageNames => Last(f) = "package.mo")}
ToEncryptWindows == {f \in DOMAIN staged : IsModelica(f)}
ToEncrypt == IF windows THEN ToEncryptWindows ELSE ToEncryptLinux
\* The files it adds for those.
MocFiles(clear) ==
  [f \in {MocFile(g) : g \in clear} |->
     LET g == CHOOSE h \in clear : MocFile(h) = f IN Encrypted(staged[g])]

\* Seeded bug: the result of encryptFiles is not looked at.
EncryptFilesUnchecked ==
  /\ pc = "encrypt" /\ Go("zip")
  /\ \/ Well /\ staged' = Over(IF UsingEncryption THEN MocFiles(ToEncrypt) ELSE NoFolder, staged)
     \/ /\ UsingEncryption /\ Fails("encryption")
        /\ \E done \in SUBSET ToEncrypt : staged' = Over(MocFiles(done), staged)
  /\ UNCHANGED <<run, argv, options, lveList, pathToIcon, archive, before>>

\* Seeded bug: the previous archive is removed first.
EncryptFilesAfterRemoval ==
  /\ pc = "encrypt"
  /\ archive' = NoArchive
  /\ \/ Go("zip") /\ Well
     \/ Fails("encryption") /\ Exit(8)
  /\ staged' = Over(IF UsingEncryption THEN MocFiles(ToEncrypt) ELSE NoFolder, staged)
  /\ UNCHANGED <<run, argv, options, lveList, pathToIcon, before>>

\* A file that cannot be opened is closed all the same.
EncryptFiles ==
  /\ pc = "encrypt"
  /\ \/ ~UsingEncryption /\ Well /\ Go("zip") /\ UNCHANGED staged
     \/ UsingEncryption /\ Well /\ Go("zip") /\ staged' = Over(MocFiles(ToEncrypt), staged)
     \/ /\ UsingEncryption /\ Fails("encryption")
        /\ Exit(8) \/ Crash
        /\ \E done \in SUBSET ToEncrypt : staged' = Over(MocFiles(done), staged)
     \/ /\ UsingEncryption /\ Fails("a write") /\ Go("zip")
        /\ \E f \in DOMAIN MocFiles(ToEncrypt) :
             LET encrypted == MocFiles(ToEncrypt)
             IN staged' = Over(File(f, Damaged(encrypted[f])), Over(encrypted, staged))
  /\ UNCHANGED <<run, argv, options, lveList, pathToIcon, archive, before>>

\* Seeded bug: every Modelica file is left out.
ToArchiveAlways == {f \in DOMAIN staged : ~IsModelica(f)}

\* zipDirectoryLinux: the files to archive.
ToArchive == {f \in DOMAIN staged : UsingEncryption => ~IsModelica(f)}

\* What may have been archived when that breaks off.
Begun == UNION {kSubset(k, ToArchive) : k \in 0..MaxAdded}

\* Seeded bug: the archive is opened for appending.
CreateZipArchiveAppending ==
  LET files == Over([f \in ToArchive |-> staged[f]], archive.files) IN
  /\ pc = "zip"
  /\ archive' = Archive(files) /\ Well /\ Go("remove")
  /\ UNCHANGED <<run, argv, options, staged, lveList, pathToIcon, before>>

\* The previous archive goes first. An archive is closed, and usable, when
\* a file could not be added; nobody looks whether closing went well.
CreateZipArchivePosix ==
  \/ archive' = Archive([f \in ToArchive |-> staged[f]]) /\ Well /\ Go("remove")
  \/ /\ Fails("the archive") /\ Exit(9)
     /\ \/ archive' = NoArchive
        \/ \E done \in Begun : archive' = Archive([f \in done |-> staged[f]])
  \/ Fails("closing the archive") /\ Go("remove") /\ archive' = NoArchive

\* zipDirectoryWin32 adds one file after the other to the archive that is there
\* (ZipArchive): when nobody could remove it, they are added to the previous
\* one. An empty directory counts as a failure.
CreateZipArchiveWindows ==
  LET Added(files, base) == Archive(Over([f \in files |-> staged[f]], base.files)) IN
  \/ /\ Well /\ options["-librarypath"] \notin Hollow
     /\ archive' = Added(ToArchive, NoArchive) /\ Go("remove")
  \/ /\ Well /\ options["-librarypath"] \in Hollow
     /\ \E done \in Begun :
          archive' = IF done = {} THEN NoArchive ELSE Added(done, NoArchive)
     /\ Exit(9)
  \/ /\ Fails("the archive") /\ (Exit(9) \/ Crash)
     /\ \/ archive' = NoArchive
        \/ \E done \in Begun : archive' = Added(done, NoArchive)
  \/ /\ Fails("the previous archive") /\ archive.usable
     /\ options["-librarypath"] \notin Hollow
     /\ archive' = Added(ToArchive, archive) /\ Go("remove")
  \/ Fails("the previous archive") /\ Exit(9) /\ UNCHANGED archive

CreateZipArchive ==
  /\ pc = "zip"
  /\ \/ ~windows /\ CreateZipArchivePosix
     \/ windows /\ CreateZipArchiveWindows
  /\ UNCHANGED <<run, argv, options, staged, lveList, pathToIcon, before>>

DeleteTemporaryStagingFolder ==
  /\ pc = "remove"
  /\ Exit(0)
  /\ \/ staged' = NoFolder /\ Well
     \/ Fails("removing") /\ \E left \in SUBSET DOMAIN staged : staged' = [f \in left |-> staged[f]]
  /\ UNCHANGED <<run, argv, options, lveList, pathToIcon, archive, before>>

\* The process ends in the middle of a step; an archive that is not closed
\* cannot be read, one that files are added to in place holds those added so far
\* or cannot be read either.
Killed ==
  /\ pc \notin Stopped
  /\ pc' = "killed"
  /\ \/ UNCHANGED archive
     \/ pc = "zip" /\ archive' = NoArchive
     \/ /\ pc = "zip" /\ windows
        /\ \E done \in Begun : archive' = Archive([f \in done |-> staged[f]])
  /\ UNCHANGED <<run, argv, options, exitCode, staged, lveList, pathToIcon, before, faults>>

Step ==
  \/ Start \/ ValidateArguments \/ CopyFolderStructure \/ CreateLibraryFolder
  \/ PrepareIconFile \/ CopyLve \/ CopyExtraFiles \/ CreateManifestFile
  \/ EncryptFiles \/ CreateZipArchive \/ DeleteTemporaryStagingFolder \/ Killed

\* Nobody changes the build.
Next == Step /\ UNCHANGED windows

Spec == Init /\ [][Next]_vars

-----------------------------------------------------------------------------
(* Properties. *)

Succeeded == pc = "exited" /\ exitCode = 0 /\ ~HelpRequested(argv)
FailedCleanly == pc = "exited" /\ exitCode > 0

\* Every variable keeps to its type; past the validation the options are ones
\* the tool knows (lookupArgument).
PackageTypeOK ==
  /\ run \in 0..MaxRuns
  /\ pc \in Stopped \cup Steps
  /\ exitCode \in -1..9
  /\ pc \in Steps => DOMAIN options \subseteq Options
  /\ <<>> \notin DOMAIN staged \cup DOMAIN archive.files
  /\ lveList \subseteq Lves
  /\ archive.usable \in BOOLEAN

\* The options are those of the command line, each taken with the value that
\* follows it, and nothing on the command line is left over or given twice
\* (the walk over argv of validateArguments).
OptionsAsGiven ==
  pc \in Steps \ {"validate"} =>
    /\ Len(argv) = 2 * Cardinality(DOMAIN options)
    /\ \A o \in DOMAIN options :
         \E i \in DOMAIN argv : i % 2 = 1 /\ argv[i] = o /\ argv[i + 1] = options[o]

\* An encrypted container never holds a Modelica file in clear, however the
\* run that wrote it ended and whatever the run before it had left in the same
\* place (encryptDirectoryLinux leaves the clear text in the staging folder,
\* zipDirectoryLinux leaves it out).
NothingInClear ==
  UsingEncryption /\ archive # before /\ "the previous archive" \notin faults =>
    \A f \in DOMAIN archive.files : ~IsModelica(f)

\* The manifest takes precedence over extra files, those over LVEs.
Source ==
  Over(File(ManifestFile, Manifest(lveList, pathToIcon)),
    Over(ExtraTree,
      Over(IF UsingEncryption THEN LveTree ELSE NoFolder, LibraryTree)))
\* A package.mo in another case is neither encrypted nor archived.
Forgotten ==
  {f \in DOMAIN Source : UsingEncryption /\ ~windows /\ Last(f) \in PackageNames \ {"package.mo"}}
Container ==
  LET clear == {f \in DOMAIN Source \ Forgotten : UsingEncryption /\ IsModelica(f)}
  IN Over([f \in {MocFile(g) : g \in clear} |->
             Encrypted(Source[CHOOSE g \in clear : MocFile(g) = f])],
          [f \in DOMAIN Source \ (clear \cup Forgotten) |-> Source[f]])

\* A run without faults that reports success leaves exactly the container of
\* its library, in spite of a killed or failed run before it: every file, each
\* from where it should come, the Modelica files encrypted if and only if that
\* was asked for.
CompleteContainer == Succeeded /\ faults = {} => archive = Archive(Container)

\* Success is reported in spite of a fault only for the faults whose results
\* no step looks at; a step that failed is told by the exit code.
FaultsAreTold == Succeeded => faults \subseteq Unnoticed

\* Without faults the tool refuses only arguments, an icon that is not at the top
\* of the library and, on Windows, any icon and a library with an empty
\* directory; no step gets into the way of a later one.
ExitExplained ==
  FailedCleanly /\ faults = {} =>
    \/ exitCode = 1 /\ (~Parsed(argv).ok \/ ~Valid(options))
    \/ /\ exitCode = 4 /\ Given("-icon")
       /\ windows \/ <<BaseName[options["-icon"]]>> \notin DOMAIN LibraryTree
    \/ exitCode = 9 /\ windows /\ options["-librarypath"] \in Hollow

\* A container that was packaged before is given up only once everything that
\* is to replace it is ready: a run that fails earlier leaves it alone.
OldArchiveKept == FailedCleanly /\ exitCode # 9 => archive = before

\* The manifest of a finished container names every LVE when the library is
\* encrypted, at least one, and none when it is not, and each one it names is in
\* the container, although LVEs are counted, copied, listed and archived by
\* different steps. (Its path of the icon does not lead to the icon, see README.)
ManifestTruthful ==
  Succeeded /\ archive.usable =>
    LET manifest == archive.files[ManifestFile] IN
    manifest[1] = "manifest" =>
      /\ \A n \in manifest[2] : <<DotLibrary, n>> \in DOMAIN archive.files
      /\ manifest[2] = IF UsingEncryption THEN Lves ELSE {}
      /\ UsingEncryption => manifest[2] # {}

-----------------------------------------------------------------------------
(* What the comments say and the code does not do.                           *)

\* "0 - packaging was successful. >0 - error during packaging."
\* (packagetool.c).
PackagingSuccessful == Succeeded => archive = Archive(Container)
=============================================================================
