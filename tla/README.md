# SEMLA in TLA+

SEMLA protects Modelica libraries. A library vendor encrypts a library with the
packaging tool and ships it with a *library vendor executable* (LVE), which holds
the keys. A Modelica tool starts the LVE, talks to it over TLS on the LVE's
standard streams, checks features out through it and asks it for decrypted files.
This directory models that system in TLA+, checks the models with TLC and proves
with TLAPS that they are safe for every value of their constants: every safety
property that a run below passes is a theorem.

## The system

| Part | State it keeps | Operations | Hard behaviour |
| --- | --- | --- | --- |
| Protocol (`src/common/mlle_protocol.c`, `mlle_parse_command.c`, `src/lve/mlle_protocol_lve_state.c`) | none: tables and a parser | parse a message, next session state | order of checks; commands legal in the wrong phase |
| LVE (`src/lve`) | `struct mlle_lve_ctx`, the session state, the tool's public key | TLS set-up and handshake, key validation, one handler per command, shutdown; `--checkout-feature` | half-failed handlers, errors stored now and reported later, silent returns, a tool that goes away |
| Licence manager (`src/license_managers`) | features checked out | new, checkout, checkin, free | any call may fail; created on first use |
| Tool library (`src/tool`, `src/common/mlle_utils.c`) | one connection; file contents being read | start, one call per command, free | replies of many records, a dead LVE, replies nobody sends |
| Transport (`src/common/mlle_ssl.c`, `mlle_io.c`) | TLS connection | write, read, end of file | closed pipes, results nobody looks at |
| Process creation (`src/tool/mlle_spawn_*.c`) | descriptor tables, two pipes per LVE | start, free | who holds which end, what a failed start leaves open, who notices a death |
| Default decryptor (`src/decryptors/default`) | key masks by directory | encrypt, decrypt | a cache filled along the way, order of encryption, missing `package.mo` |
| `encrypt_file`, `decrypt_file` (`src/encrypt_decrypt`) | none | one file | adds to a library that is already encrypted |
| Packaging tool (`src/packagetool`) | options, a staging directory | validate, stage, manifest, encrypt, zip, clean up; two builds | a failing step in the middle |
| Zip writer (`ThirdParty/miniz`) | an archive on disk, its directory in memory | add a file in place | files written over the directory, writes that fail, limits |
| Key obfuscation (`src/embedfile`, `src/obfuscators`) | none | generate C headers | build time only |

The tool calls the LVE by messages over two pipes; the LVE calls the licence
manager and the decryptor by function calls; the packaging tool and the LVE never
run together but must agree on the key of every file.

What makes each part correct:

* *Protocol, LVE.* Files leave only towards a trusted tool and under the global
  licence; the library of a session is chosen once; a refused tool stays refused
  and is told why; every request has exactly one reply, or none where memory failed,
  and then no licence has changed hands; the process ends with its tool; the exit status of
  a command-line checkout is the truth.
* *Tool library and transport.* Calls and replies stay in step whatever the size
  of a reply; a call returns; licences the program was told of are held; a FILE
  call returns the file it asked for.
* *Process creation.* A connection's two descriptors stand for its own pipes; a start
  costs the tool nothing but these and comes to an end; an LVE ends with its connection,
  whoever inherited what.
* *Decryptor.* Everything that was encrypted decrypts, in any order of requests.
* *Packaging tool.* The exit code tells what happened; a container holds the whole
  library, no clear text if it is encrypted, and the LVEs its manifest names; a failed
  or killed run costs neither the previous container nor the next run.
* *Zip writer.* An archive that can be read lists whole files only, and a call that
  reports success has added its file.

## Modules

| Module | Models | Notes |
| --- | --- | --- |
| `LveProtocol` | commands, forms, grammar, error numbers, state table | pure operators |
| `LveServer` | one LVE process, its peer and its licence manager | extends `LveProtocol` |
| `DecryptionService` | what the LVE promises, without protocol or process | abstract specification |
| `LveServer_proofs` | types, key gate and licence gate | TLAPS |
| `LveSession_proofs` | the other safety properties of `LveServer` | TLAPS, extends `LveServer_proofs` |
| `LveRefinement_proofs` | `LveServer` implements `DecryptionService` | TLAPS, extends `LveSession_proofs` |
| `SemlaSession` | tool library + pipes + LVE | extends `LveServer`, composes its handlers with the tool |
| `SemlaSession_proofs` | calls and replies in step, licences, files, and that the tool is a peer of `LveServer` | TLAPS, extends `LveSession_proofs` |
| `Connections` | starting and freeing several LVEs, both builds, over the processes' descriptor tables | independent; what is said over an open connection is `SemlaSession` |
| `Connections_proofs` | ends of pipes and the cost of a start | TLAPS |
| `KeyMask` | encryption by the packaging tool and `encrypt_file`, decryption by LVEs | independent |
| `KeyMask_proofs` | masks of files, the LVE's cache, the round trip | TLAPS |
| `PackageTool` | runs of the packaging tool, both builds | independent; `KeyMask` has the masks, `ZipArchive` the archive |
| `PackageTool_proofs` | the safety properties of `PackageTool` | TLAPS |
| `ZipArchive` | adding files to a zip archive in place | miniz, as the Windows build calls it |
| `ZipArchive_proofs` | `ZipArchive` is sound and implements `AppendOnlyArchive` | TLAPS |
| `AppendOnlyArchive` | what such a writer promises | abstract specification |
| `MCLveServer`, `MCSemlaSession`, `MCConnections`, `MCKeyMask`, `MCPackageTool`, `MCZipArchive` | small instances for TLC | one `.cfg` per run |

### LveServer

`pc` is the place of `main()` (`setup`, `handshake`, `validate`, `receive`,
`shutdown` for a tool, `libpath`, `feature` for `--checkout-feature`, or how the
process ended). `libpath`, `approved`, `errType`, `licMgr`, `crContext`, `ssl` are
the fields of `struct mlle_lve_ctx`, `state` is the local variable of
`mlle_lve_receive`, `peerKey` is `global_tool_pub_key`. `held` is what the licence
manager counts. `granted`, `handled` and `sent` are history: features ever checked
out, the last message read, the replies written to it.

The LVE is single-threaded and a handler waits for nothing but the pipe it writes
to, so a handler is one action: it reads a message, changes the context, and
emits its replies. `mlle_lve_libpath` has one operator per way out
(`LibMissing`, `LibWithoutContext`, `LibUnlicensed`, `LibAccepted`), used by
`HandleLib` and by the command-line checkout alike, as in the code. A body is an
abstract datum; a message carries its tokens, so that the grammar is checked as
`mlle_parse_command` does. Writing to a closed pipe loses the reply or, since
nothing handles SIGPIPE, ends the process. Undefined behaviour is a choice:
`SSL_shutdown(NULL)` may end the process or not, and so may `snprintf()` with the NULL
path that FILE meets after a LIB without one (`FileWithoutLibrary`). `strcmp` on the NULL
key of a peer without certificate crashes.

`AllocMayFail` says whether the allocations whose result is tested may fail. These are the
ones of the handlers, and those of the replies with a length, ERROR, NO and FILECONT, which
`mlle_send_length_form` and `mlle_send_number_and_length_form` put together in memory of
their own: without it they return and nothing is sent (`Starved`). YES, NOTSIMPLE and
VERSION need no memory. `AnsweredOnce` says what silence may then mean: no licence was
taken or given back, and the session is in the phase it was in, unless LIB has just
disapproved the tool, which its next FILE is told. It is proved for either value; with `AllocMayFail = FALSE` it is that every message but an
unanswerable LIB is answered, which `CallReturns` relies on.

`CheckoutFeature` and `CheckinFeature` are the licence manager's. The repository has one, a
testing dummy, whose only licensed feature is always there and whose checkin cannot fail;
the model allows this and every other manager that may refuse or fail at any call.

The peer of `LveServer` is any program that speaks TLS: any message of `Requests`
at any time, any key or none, closing whenever it likes.

### SemlaSession

The tool's thread is in `tool` (`connecting`, `idle`, `waiting` for the first
record of a reply, `reading` the rest, gone). A call writes one request and waits.
`outgoing` holds the records of a reply the LVE has not yet written, `toTool` the
records in the pipe, at most `MaxPipe`; a record carries the number of the call it
answers, which the code does not have, so that `InStep` can be stated. Either
process may die between any two steps. `read` counts the records of the reply so far.
`ReadFails` is a read that finds the LVE dead and the pipe empty: the first read of a
call fails and the call with it, but the loop of `mlle_read_command` adds the -1 to its
offset and hands it to `memcpy()`, which ends the process. Whether a tool does find out
that its LVE is dead is a question of who holds which end of a pipe, and `Connections`
answers it. A program may call on after its LVE has died (`CallsDeadLve`): of the calls
only `mlle_tool_version` looks at the result of its write, so `LateCalls` holds that one
and one of the others. A connection that is freed or a process that ends forgets what
was said on it (`Over`). `ToolIsAPeer` shows that the composed system is a behaviour of
`LveServer`, so that everything shown there holds here.

Memory may fail the tool, too: `RequestStarves` is a request that
`mlle_send_length_form` does not send, which no call notices; `ReadStarves` are the
allocations of `mlle_read_command`, before it reads, after the first record, or of the
place for the data (`extract_data`), after which the next record is copied to a NULL
pointer (`ReadsIntoNothing`). A call that fails in this way leaves its reply, or the rest of
it, in the pipe for the next call. `starved` is history and says that memory has failed the
tool since it connected: `InStep`, `LicencesAreHeld`, `FileAsAsked` and `CallReturns` hold
until then, the types and the refinement of `LveServer` always. `CallReturns` also needs an
LVE with memory for its replies, so the run has `AllocMayFail = FALSE`; the theorems do not
need it. Two bounds of the model: memory fails the tool once per connection, and the calls
whose request it fails or that follow a failure are `LateCalls`.

### Connections

A descriptor table is a function from numbers to pipe ends, standard streams or
nothing; `fds` is the tool's, `lves[n].fds` that of each LVE. The actions are the calls
of `mlle_start_executable` in their order, each with its failure: `OpenPipes`, then
`Fork` and `Child` on POSIX, or `SaveStreams`, `ReplaceStreams`, `SpawnChild`,
`RestoreStreams` on Windows, then the TLS set-up of both sides and a handshake of
`hello`, `certificate`, `finished` or an alert. `FreeConnection` is
`mlle_connections_free`. A POSIX child has a copy of the whole table, a Windows child
what is not in `kept`. A read sees the end of its pipe when nobody holds a write end.
The tool may have been started with any of descriptors 0 and 1 closed.

What the model shows of the code besides its properties:

* The POSIX build never closes the write end of the pipe from the LVE. Each start costs
  one descriptor, and a tool whose LVE dies in the handshake waits for ever: the
  exception in `StartReturns`.
* Without standard streams the pipe ends get the numbers 0 and 1, which the child closes
  before it duplicates them. It exits, and the tool waits as above.
* `access()` and the start of the LVE are separate, so the file may be gone in between;
  the child then exits with the same effect.
* A failed start leaves the pipes open that it had opened, and later LVEs inherit the ends
  of earlier connections; LVEs end all the same (`LvesEnd`), since none inherits the
  tool's end of its own pipe.
* Under TLS 1.2 the tool waits for the LVE's verdict on its certificate, under 1.3 it is
  open before (`SendCertificate`, which allows both).
* Writing to a dead LVE raises SIGPIPE, which ends a tool that does not ignore it.

### KeyMask

A key is the library key xor at most one mask, so a mask stands for a key.
`MaskKey` and `DemaskKey` follow `mlle_mask_key` and `mlle_demask_key`, including
the cache entries they leave behind, the table that is lost when a recursive call
creates it, the `package.moc` that is decrypted on the way, the result 0 that is
taken for an error and the flag 1 that a missing `package.moc` yields.
Decryption succeeds exactly under the mask of encryption, which is what the HMAC
does. `encryptDirectoryLinux` is a stack of directories whose entries are taken in
any order.

`encrypt_file` (`AddFile`) adds a file anywhere, its `package.mo` first. It looks for the
masks above by decrypting nothing, which ends at the first `package.mo` without contents
and is a success all the same; with another `package.mo` further down the file gets the
mask of the first one, and no request can decrypt it. `MisKeyed` says which files these
are, and `RoundTrip` and `MaskOfNearestPackage` leave them out.

### PackageTool

`pc` is the step of `doWork`, one action per step: `validate`, `copy`, `library`,
`icon`, `lves`, `extras`, `manifest`, `encrypt`, `zip`, `remove`. `staged` is the
staging folder, a function from files to contents, where contents tell their origin
(the library, an LVE, an extra file, the generated manifest) and whether they are
encrypted or damaged; `lveList` and `pathToIcon` are the variables of that name in
`utils.c`; `archive` is the `.mol` file, which outlives a run. A step fails where a
call that it tests fails; `faults` records which, and also the faults nobody looks
at: results of copying, of writing and closing files, and of removing the staging
folder. A failed or killed run leaves its staging folder, with the clear text, in
`/tmp`; the next run stages in a folder of its own, which is why `Killed` need not
say how far a step had come, but for the archive.

`windows` is the build. The Windows functions are other code with other faults, and the
actions take the branch of the build: `CopyTreeWindows` stops in a directory at the
first file it cannot look at; `FoundByWindows` goes into the first directory it meets and
never comes back, so that what it finds depends on the listing; `ToEncryptWindows`
compares names without case, and `MocFile` follows; `CreateZipArchiveWindows` adds one
file after the other to the archive in place, to the previous one when that could not be
removed, and takes an empty directory of the library (`Hollow`) for a failure.

`ManifestTruthful` is about the LVEs. What the manifest says of the icon leads to no file,
see the disagreements below.

`Parsed` is `validateArguments`, with its help and duplicate handling. The scripts
`run_all_args*.bat` and `run_minimum_args*.bat` of the repository pass
`-librarynumber`, which the tool does not know: it exits with 1, as in the run.

### ZipArchive

`mz_zip_add_mem_to_archive_file_in_place`, one action per write. An archive is a sequence
of cells: local header, name and data pieces of each file, the entries of the central
directory, the end record. The new file is written over the directory, which `central`
holds meanwhile. A write may fail with any part of it on the disk, the last cell torn
(`Partial`); a process that is killed inside a write leaves the same. However an addition
ends, the archive is finalized: the directory is written behind the last good file.
`Legible` and `Listing` are what the reader makes of the cells, including the end record
it looks for from the end, at most `Window` cells away. `AppendOnly` is the refinement of
`AppendOnlyArchive`.

Assumed: writes reach the disk in order and a failure that stdio notices late shows in
the last flush, which the code looks at; data do not hold the signature of an end record.
An existing archive that `stat` cannot see is not modelled. An addition that fails may
leave more behind the end record than the reader searches: the archive, previous files
included, is then illegible, the exception in `FinalizedIsLegible`.

## Runs

| Run | Shows | Bounds |
| --- | --- | --- |
| `lve` | key gate, answers, phases, stored errors, exit status, where memory may fail; the LVE stops | 18 messages of every kind and grammar error, 1 in the pipe, 2 keys, 8 data |
| `licence` | licence gate; refinement of `DecryptionService` | as `lve`, allocations succeed |
| `session` | calls and replies in step, licences, files; refinement of `LveServer`; calls return, the LVE follows its tool | 8 calls, 4 per session, replies of 3 records, pipe of 2, 2 late calls, memory fails the tool once per connection and the LVE never |
| `connections` | ends of pipes, cost of a start, who notices an end | 2 starts, 10 descriptors, either stream closed, both builds |
| `key_masks` | round trip, cache, order of encryption | 5 packages on 3 levels, 2 of them without contents, 5 files added later, also below those two |
| `package` | exit codes, contents of the container, manifest, what survives a failure | 2 runs, 1 fault each, 11 command lines, 6 library files, 2 LVEs, 3 extra files, both builds, 1 file zipped before zipping breaks off |
| `zip_archive` | listed files are whole, results are truthful; refinement of `AppendOnlyArchive` | 4 additions, 4 files of up to 5 pieces, 3 files and 20 cells at most, window of 4 |

Five runs state a sentence of a comment and find it violated:

* `always_send_a_reply`: "Always send a reply." (`mlle_lve_libpath.c`); a LIB
  without a path gets none.
* `out_of_memory`: "If checkout fails, no files will be decrypted"
  (`mlle_lve_config.h`); an allocation that fails makes LIB skip the checkout and
  the session goes on.
* `plain_directory`: a directory without `package.mo` is read as if it had a
  `package.moc`, against the comment in `mlle_cr_decrypt.c`.
* `packaging_successful`: "0 - packaging was successful." (`packagetool.c`); files
  that could not be copied are missing from the container.
* `streams_reassociated`: "Reassociate the usual FD numbers for stdin and stdout with the
  original stdin and stdout file streams." (`mlle_spawn_windows.c`); a start that fails in
  between leaves the tool on the pipes.

Further disagreements with `SEMLA.md` and comments are visible in the actions and
have no run of their own: a VERSION that is too low gets ERROR 2, not NO
(`HandleVersion`); RETURNLICENSE gets NOTSIMPLE, not YES, and TOOLS gets VERSION 4,
not TOOLLIST (`HandleLicense`, `HandleTools`); a LIB whose path does not exist is
answered YES (`LibAccepted`); a tool with an unknown key is served everything but
files (`ValidatePubkey`); an icon in a subdirectory is found and then refused
(`PrepareIconFile`); a `Package.mo` is silently left out of an encrypted container
(`ToEncrypt`, `ToArchive`); the path of the icon in the manifest begins with the library's
name, although `SEMLA.md` (lines 176, 214, 589) and `manifest.h` (line 41) have it relative to
the top of the library, where there is no such file; and an icon that is itself a Modelica file
is encrypted with the others, so that even under its name in the archive it is not there
(`CleanUpIconPath`, `ToEncrypt`);
a previous archive that cannot be removed gets the new files added, next to or above its
own (`CreateZipArchiveWindows`); `encrypt_file`, which is to find the masks "by decrypting all
package.moc recursively", goes no further than the first one without contents and does not
notice (`AddFile`, `MisKeyed`).

The LVE keeps no counter: its context takes each of its values within a few
messages and the state graphs are explored in full, so one message in the pipe and
one datum of each kind (a directory, a path that is none, the empty path, an
encrypted and a plain file, the global feature, one with and one without
licences) reach every combination. In a session four calls are the shortest that
open a library, take a licence and use it, three records are one more than the
pipe holds, so that the LVE blocks. For the masks three levels give packages whose
parent's mask is itself stored in an encrypted file. Two runs of the packaging tool
show what the first leaves to the second, and one fault a run meets every step and
every file; the library has each kind of file the tool treats differently. `MaxAdded` says
how many files an archive holds when zipping breaks off: one is enough for an archive that
is neither empty nor whole. `MaxFd` is the limit of open descriptors: ten have room for the
three standard streams and the four ends of a start, not for those of a second start on
top of what a failed one left. A second LVE is the first that inherits anything, a third
would inherit more of the same. `MaxFiles`, `MaxCells` and `Window` stand for 0xFFFF files,
4 GB and the 64 KB the end record is looked for in; each is met within four additions.

### Fairness

`FairSpec` assumes weak fairness of the LVE's own steps: a single thread, blocked
only by its input and, in a session, by a full pipe. Nothing is assumed of the
peer, and none of its liveness depends on one that sends. `FairSession` assumes weak fairness of the LVE and of the tool's
reads; that the program makes another call or frees its connection is not
assumed. `FairSpec` of `Connections` assumes it of the steps of a start that has begun and
of each LVE's steps, and nothing of starting, freeing, ending or being killed; a step that
waits for the other process is not enabled, so fairness does not hide a deadlock.
`CallReturns` leaves out a LIB that left no decryption context, which the code never
answers (`always_send_a_reply`), an LVE that has died and a tool that memory has failed; its
run has an LVE with memory for its replies. `StartReturns` leaves out the start on POSIX
whose LVE dies.

## Proofs

Every invariant and action property of the passing runs is a theorem, and so are the three
refinements, for every value of the constants that satisfies the assumptions named in the
modules, which TLC evaluates in every run. Where a theorem has a hypothesis of its own, it is named below
with the run that shows why it is needed.

Each component has one inductive invariant, a conjunction of named parts, with one lemma
or step for each action and, under it, one for each part that the action disturbs.

### The LVE

`LveServer_proofs`:

* `TypeCorrect`: `Spec => []TypeOK`. The induction needs `Mode`: which places of
  `main()` belong to which way of starting, since a command-line checkout has no
  session and its arguments are its data.
* `KeyGate`: `Spec => []DeliveredToTrustedTool`. `KeyInv` adds that outside the
  receive loop nothing is delivered (`QuietBefore`) and that an approved tool has
  a trusted key (`ApprovedKey`): approval is only set where the key is looked at,
  and the key never changes afterwards. `HandleApproval` says of every handler
  that it never approves and delivers only if approved.
* `LicenseGate`: `Spec => []DeliveredUnderGlobalLicense`, assuming that
  allocations do not fail (the run `out_of_memory` shows the assumption is
  needed). `LicenseInv` adds that before LIB nothing is open (`NoLibraryYet`) and
  that an approved tool in the licence phase with an open library holds a checked-out global feature
  (`LicensedLibrary`). `granted` rather than `held` is the right notion: a tool may return the
  global feature and go on reading.

`LveSession_proofs` proves the other safety properties of the run `lve`. A handler is one
of three kinds for these properties, which `HandleSession` says once for all of them: it
keeps the context (`KeepsContext`), it opens the library (`OpensLibrary`), or it uses
licences under the library that is open (`UsesLicences`).

* `NoLibraryBeforeLib`, `OneLibrary`, `LibraryChosenOnce`, `RefusalLasts` follow from
  `SessionInv`: a process in its session was started for a tool (`ServesTool`), its context
  is untouched until the loop begins (`FreshContext`), with `NothingBeforeLib` and
  `SameLibrary` themselves.
* `OneAnswer`, an action property, looks at each way out of each handler: it emits one
  reply, and if that needs memory, nothing has happened that the tool had to be told
  (`SilentError`); what did happen is told by a reply that needs none (`SuccessIsTold`). That
  a VERSION that is too low, and refused in silence, leaves the phase as it was rests on
  where VERSION is accepted (`VersionPhase`).
* `RefusalHasReason` follows from `AnswerInv`, which adds that outside the loop no message has
  been read (`NothingRead`) and that an unapproved tool in the loop has a stored error with a
  number that concerns it (`RefusalReason`): a refused FILE sends what an earlier command
  stored.
* `ExitTellsTruth` follows from `ExitInv`: until the checkout, a command-line process holds
  nothing (`NothingHeldYet`), so a feature that is held at the end is the one asked for.

`LveRefinement_proofs` proves `LveImplementsService`, `Spec => ImplementsService` when
allocations do not fail: under `ServiceInv` (the session and key invariants) each handler
maps to an action of `DecryptionService` or to a stutter (`HandleServes`, `StepServes`).

### Sessions

`SemlaSession_proofs` reuses the LVE's invariants: `SInv` is `KeyInv`, `AnswerInv` and
`ToolInv`. `PeerStep` shows that every step of a session is a step of `LveServer`, and
with it `SessionIsAPeer`. `ToolInv` has two parts that always hold, which `TypesStep`
proves alone, and the rest (`InOrder`), which `OrderStep` proves as long as memory has not
failed the tool (`starved`, which lasts as long as the connection, `StarvedLasts`):

* `ToolTypes` and `Places`: the tool's variables, and where the LVE can be in each state
  of the tool.
* `Flight`: requests and replies alternate. While the tool waits there is its request, or
  records of one reply to it, or neither. The records still to come are the next ones of
  that reply (`Carries`), however many it has and however few the pipe holds, and the
  reply belongs to the call (`Answers`). This is what makes `CallsInStep` inductive: one
  message answered twice, or a record left behind, would break it at the next call.
* `LibraryAsked`: what the LVE has open, this tool asked it to open.
* `LicencesKept`: a licence that the tool believes in and the LVE no longer holds is the
  one whose return is being confirmed at this moment.

The theorems are `SessionTypeCorrect`, `SessionIsAPeer`, `CallsInStep`,
`BelievedLicencesHeld` and `FileReturnedAsAsked`. `FlattenSeq` is recursive, but it is
only ever applied to one reply or to none, since a handler answers once (`OneAnswer`), and
there its defining equation suffices (`FlattenOne`).

### Connections

`ConnInv` is the conjunction of `ToolTypes`, `LveTypes`, `Unstarted` (starts that have not
come to an LVE or a connection yet), `Current` (at most one connection is being set up),
`ToolEndsOwn`, `Stage` (how far the start in progress has changed the tool's descriptors,
compared with `before`), `LveEndsOwn` and `Lengths`. Two facts carry the proof. Descriptors
are given out from the lowest number (`Ordered`), so that the ends of a new pipe, and the
streams the Windows build saves, lie above any of the standard streams that is open and
differ from the descriptors of every live connection. And the standard streams of an LVE
are the ends of its own pipes or nothing (`LveEnds`), whatever it inherited: a child that
lost one of them by its own `close`, or by a start without standard streams, answers nobody.

The theorems are `ConnectionsTypeCorrect`, `ConnectionsUseTheirOwnEnds` and
`StartCostsNoMore`, for any number of LVEs and descriptors and both builds. `KeyAssumption`
says that a key is not the NULL pointer.

### Key masks

`MaskInv` says of the encrypted files that each has the mask of the nearest `package.mo`,
or is one of `MisKeyed` (`GoodFiles`), and, while the packaging tool runs, what its cache
holds (`CacheOfTool`, `ToolAtWork`). It speaks of tables as parameters, so that the lemmas
about a file put into a table serve the tool and `encrypt_file` alike. A `package.mo` is
only ever put where nothing lies below (`SamePackages`), so no earlier file changes its
nearest one. `MaskOfPlace` follows for every library.

`ReadInv` adds what the LVE has cached (`Right`: the mask that the `package.moc` of the
directory stores) and that a request which failed has an empty package above. What a search
with a right cache finds is `FoundIn`; `DecryptedWell` says what comes of a request. From
them `CacheHoldsWhatPackagesStore` and `EncryptedFilesDecrypt` follow, under one
hypothesis: every directory that has a file of the library has a `package.mo`
(`EveryDirectoryIsAPackage`), as the Modelica language demands of libraries and the run
`plain_directory` shows to be needed. The library of the run `key_masks` satisfies it.

`DemaskKey` recurs over the depth of a directory. Both that the recursive function exists
and that what it finds is right are shown by the least depth for which it were not so
(`WalkExists`, `LeastNumber`), which needs no induction rule.

### The packaging tool

`PackageTool_proofs`, for every library, command line, build, number of runs and of faults:

* `SuccessIsSound`: every step of `doWork` meets only faults nobody looks at, or ends the
  process with a code other than 0 (`Told`, `StepIsTold`).
* `ContainerKept`: before the zip step the archive is the one the run found (`Untouched`).
* `NoClearText`: from `Untouched` and the choice of the files to archive
  (`ArchivedIsNotClear`).
* `CommandLineTakenAsGiven`: `ArgInv` says that past the validation the options are those
  of the command line (`Accepted`). What the recursive walk over `argv` reads is proved
  along the walk: after each option the options read so far are the pairs behind it.
* `PackageTypeCorrect`: with `FolderTypes`, every file staged or archived has a proper path.
* `ManifestNamesWhatIsThere`: `ListInv` follows the LVEs that the manifest will name through
  the steps. Those listed are all that were asked for, are in the staging folder whatever
  failed unnoticed, and the archive, if it is usable, took them over; that an encrypted
  library has one comes from the validation of the arguments (`ArgInv`).
* `ContainerIsComplete`, `FailuresExplained`: `CleanInv` says what exactly a run without
  faults has staged at each step (`Progress`).

`FileAssumption` and `ArgumentAssumption` say what kind of thing names, paths and command
lines are: `.moc` names are no Modelica names, an LVE is not a Modelica file, `package.mo`
is one.

### The zip writer

`ZipInv` is the conjunction of `Types`, `Sound` (what is read, if anything, is what was
logged), `Flags`, `Stage` (what each step of an addition has to go on with) and `Progress`
(how far the file has been written). The difficulty is that the new file is written over
the directory, so that after a torn write an old end record may still be there, behind new
data. `Spoilt` says that an archive in this state cannot be read at all: the directory that
the record points to has been overwritten. `ReadsAs` says when it can, and as what. The
theorems are `ArchiveTypeCorrect`, `WholeFiles`, `TruthfulResult`, `LegibleWhenFinalized`
and the refinement `ArchiveGrowsAtItsEnd`. `AbsentAssumption`: that there is no archive
differs from every archive.

### Model-checked only

Liveness is out of the provers' reach and stays with TLC: `StopsEventually`,
`CallReturns`, `LveFollows`, `StartReturns` and `LvesEnd`. The runs that expect a violation
are counterexamples and have nothing to prove.

## Not modelled

* The text of messages and errors, logging, TLS itself, certificates beyond the
  key they hold, ciphers and digests.
* Message bodies whose size differs from the size announced, and requests longer
  than one TLS record, which the LVE takes for several messages.
* `--help`, `--version` and wrong options of the LVE: they exit at once.
* `mlle_tool_read_bytes`, a cursor over contents that have already been received.
* `encrypt_file` without a base directory (one file under the bare key, whatever lies around
  it), and memory that runs out in the decryptor, the packaging tool and miniz.
* The rest of miniz (compression, extraction, archives in memory or cloned), uthash, the
  compatibility shims, key obfuscation at build time, `decrypt_file`.
* Re-encrypting a `package.mo`, which makes the files below it undecryptable.

## Plan

1. `FileReader`: the cursor of `mlle_tool_read_bytes` over contents that were received.
2. Re-encrypting a `package.mo`, or adding one above files that exist: what a later run of
   the tool should refuse, and which requests fail after it.
3. Requests longer than one TLS record in `SemlaSession`.
4. Proofs: `MaskOfPlace` and `EncryptedFilesDecrypt` for libraries in which some directory
   has no `package.mo`, for the files of the other directories.
