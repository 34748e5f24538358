------------------------------- MODULE KeyMask -------------------------------
(***************************************************************************)
(* Key masks of the default decryptor. Each package.mo is encrypted with a   *)
(* fresh random mask appended to it, and the other files of its directory    *)
(* with the library key xor that mask; package.mo itself uses the mask of    *)
(* the directory above. A context caches masks by directory: the packaging   *)
(* tool's while it encrypts, the LVE's while it answers FILE requests.       *)
(*                                                                         *)
(* A file is a pair of its directory, a sequence of names (<<>> is the       *)
(* library root), and its own name. A mask is a number; two keys are the     *)
(* same key exactly when their masks are.                                    *)
(***************************************************************************)
EXTENDS Integers, SequencesExt

CONSTANTS
  Names,      \* names of files and directories
  Items,      \* the .mo files of the library
  Added,      \* further files, added one by one once the library is encrypted
  Package,    \* the name package.mo / package.moc
  Empty,      \* package files without contents
  Cut,        \* where mlle_store_keymask files a mask it takes from a plain file:
              \* the path less its last 12 characters
  Elsewhere, TooShort   \* ... when that is no directory, or not even a path

IsPackage(i)   == i[2] = Package
Dir(i)         == i[1]
PackageOf(d)   == <<d, Package>>
Root           == <<>>
Parent(d)      == Front(d)
Lineage(d)     == {SubSeq(d, 1, k) : k \in 0..Len(d)}
NoMask         == 0

ASSUME ItemAssumption ==
  /\ Items \cup Added \subseteq Seq(Names) \X Names
  /\ Items \cap Added = {}
  /\ Empty \subseteq {i \in Items \cup Added : IsPackage(i)}
  /\ \A i \in Items \cup Added : ~IsPackage(i) =>
       Cut[i] \in {Dir(j) : j \in Items} \cup {Root, Elsewhere, TooShort}

VARIABLES
  phase,      \* what is going on: encrypt, serve, or it went wrong
  stack,      \* the directories encryptDirectoryLinux is in, outermost first
  files,      \* the encrypted files: the mask of their key, the mask they store
  cache,      \* keymask_map of the current context
  fresh,      \* the next random mask
  request     \* the last FILE request and how it went

vars == <<phase, stack, files, cache, fresh, request>>

NoRequest  == <<"none", "none">>
EmptyCache == [d \in {} |-> NoMask]
Garbage    == "contents taken for a mask"

-----------------------------------------------------------------------------
(* Encryption. *)

\* HASH_ADD: table t with an entry for key x.
Put(t, x, v) == [y \in DOMAIN t \cup {x} |-> IF y = x THEN v ELSE t[y]]

Ancestors(c, d) == {p \in Lineage(d) : p \in DOMAIN c}

\* The mask of the nearest directory at or above d that has one.
Nearest(c, d) ==
  IF Ancestors(c, d) = {} THEN NoMask
  ELSE c[CHOOSE p \in Ancestors(c, d) : \A q \in Ancestors(c, d) : Len(q) <= Len(p)]

\* The directories between d and that one are given its mask. A recursive
\* call that finds the table empty creates one that its caller replaces.
Remembered(c, d) ==
  IF DOMAIN c = {} THEN Put(EmptyCache, d, NoMask)
  ELSE LET below == {p \in Lineage(d) : \A q \in Ancestors(c, d) : Len(p) > Len(q)}
       IN [p \in DOMAIN c \cup below |-> IF p \in DOMAIN c THEN c[p] ELSE Nearest(c, d)]

\* Seeded bug: package.mo takes its key from its own directory, masks
\* included that the directory has inherited.
MaskKeyOwnDirectory(c, i) ==
  LET d == Dir(i) IN
  IF ~IsPackage(i) THEN
    [ok |-> TRUE, mask |-> Nearest(c, d), tail |-> NoMask, cache |-> Remembered(c, d)]
  ELSE
    [ok |-> TRUE, mask |-> NoMask, tail |-> fresh,
     cache |-> Put(Remembered(c, d), d, fresh)]

\* mlle_mask_key: the mask of the key for a file, and the mask to store in it.
MaskKey(c, i) ==
  LET d == Dir(i) IN
  IF ~IsPackage(i) THEN
    [ok |-> TRUE, mask |-> Nearest(c, d), tail |-> NoMask, cache |-> Remembered(c, d)]
  ELSE IF d \in DOMAIN c THEN
    [ok |-> FALSE, mask |-> NoMask, tail |-> NoMask, cache |-> c]
  ELSE IF d = Root \/ DOMAIN c = {} THEN
    [ok |-> TRUE, mask |-> NoMask, tail |-> fresh, cache |-> Put(c, d, fresh)]
  ELSE
    [ok |-> TRUE, mask |-> Nearest(c, Parent(d)), tail |-> fresh,
     cache |-> Put(Remembered(c, Parent(d)), d, fresh)]

\* mlle_cr_encrypt, with the context's cache c; a file that fails is not kept.
Encrypt(c, i) ==
  LET k == MaskKey(c, i) IN
  /\ cache' = k.cache
  /\ files' = IF k.ok THEN Put(files, i, [mask |-> k.mask, tail |-> k.tail]) ELSE files
  /\ fresh' = IF IsPackage(i) /\ k.ok THEN fresh + 1 ELSE fresh
  /\ phase' = IF k.ok THEN phase ELSE "refused"

-----------------------------------------------------------------------------
(* Decryption. *)

\* Seeded bug: one name too many is taken off the path.
StoreAtParent(c, d, m) ==
  LET p == IF d = Root THEN Root ELSE Parent(d)
  IN IF p \in DOMAIN c THEN c ELSE Put(c, p, m)

\* mlle_store_keymask.
Store(c, d, m) == IF d \in DOMAIN c THEN c ELSE Put(c, d, m)

\* mlle_demask_key for a file of directory p, above being what it finds for
\* p/package.moc itself: the mask found, 1 for "the file stores a mask" (also
\* returned when a package.moc is missing), -1 for an error.
DemaskBelow(c, p, above) ==
  LET package == files[PackageOf(p)]
      opened  == Store(above.cache, p, package.tail)
  IN IF p \in DOMAIN c THEN [cache |-> c, mask |-> c[p], flag |-> 0]
     ELSE IF PackageOf(p) \notin DOMAIN files THEN above
     ELSE IF package.mask # above.mask
       THEN [cache |-> above.cache, mask |-> NoMask, flag |-> -1]
     ELSE IF PackageOf(p) \in Empty
       THEN [cache |-> opened, mask |-> NoMask, flag |-> -1]
     ELSE [cache |-> opened, mask |-> package.tail, flag |-> 0]

\* What is found for a package.moc, from what is found for its parent directory.
ForPackage(found) ==
  [cache |-> found.cache, mask |-> found.mask, flag |-> IF found.flag < 0 THEN -1 ELSE 1]
AtRoot(c) == [cache |-> c, mask |-> NoMask, flag |-> 1]

\* ... for a file of directory d, from the root down.
DemaskKey(c, d) ==
  LET Found[k \in 0..Len(d)] ==
        DemaskBelow(c, SubSeq(d, 1, k), IF k = 0 THEN AtRoot(c) ELSE ForPackage(Found[k-1]))
  IN Found[Len(d)]

\* ... for any file: package.moc has its mask from the directory above.
FindKey(c, i) ==
  IF ~IsPackage(i) THEN DemaskKey(c, Dir(i))
  ELSE IF Dir(i) = Root THEN AtRoot(c)
  ELSE ForPackage(DemaskKey(c, Parent(Dir(i))))

\* mlle_cr_decrypt: the contents authenticate only under the key they were
\* encrypted with; whenever FindKey's flag is set the end of the contents is
\* taken off as a mask.
Decrypted(c, i) ==
  LET k == FindKey(c, i) IN
  IF k.mask # files[i].mask THEN [cache |-> k.cache, outcome |-> "failed"]
  ELSE IF k.flag = 0 THEN [cache |-> k.cache, outcome |-> "contents"]
  ELSE IF IsPackage(i) THEN
    [cache |-> Store(k.cache, Dir(i), files[i].tail), outcome |-> "contents"]
  ELSE IF Cut[i] = TooShort THEN [cache |-> k.cache, outcome |-> "crash"]
  ELSE IF Cut[i] = Elsewhere THEN [cache |-> k.cache, outcome |-> "truncated"]
  ELSE [cache |-> Store(k.cache, Cut[i], Garbage), outcome |-> "truncated"]

-----------------------------------------------------------------------------
Init ==
  /\ phase = "encrypt"
  /\ stack = <<>>
  /\ files = [i \in {} |-> [mask |-> NoMask, tail |-> NoMask]]
  /\ cache = EmptyCache
  /\ fresh = 1
  /\ request = NoRequest

(* encryptDirectoryLinux: package.mo of a directory first, then its entries as *)
(* readdir lists them, a directory in full before the next entry.             *)

Tree == UNION {Lineage(Dir(i)) : i \in Items}

\* What is still to do in directory d: files, and directories not entered.
Pending(i)   == i \in Items \ DOMAIN files
Untouched(d) == \A i \in Items : d \in Lineage(Dir(i)) => Pending(i)

Entries(d) == {i \in Items : Dir(i) = d /\ Pending(i)}
Folders(d) == {e \in Tree : e # Root /\ Parent(e) = d /\ Untouched(e)}

Enter(d) ==
  /\ phase = "encrypt"
  /\ stack' = Append(stack, d)
  /\ IF PackageOf(d) \in Items
       THEN Encrypt(cache, PackageOf(d))
       ELSE UNCHANGED <<phase, files, cache, fresh>>
  /\ UNCHANGED request

\* Seeded bug: the entries of a directory before its package.mo.
EnterLate ==
  /\ phase = "encrypt" /\ stack # <<>>
  /\ \E d \in Folders(Last(stack)) : stack' = Append(stack, d)
  /\ UNCHANGED <<phase, files, cache, fresh, request>>

EnterRoot   == stack = <<>> /\ Enter(Root)
EnterFolder == stack # <<>> /\ \E d \in Folders(Last(stack)) : Enter(d)

EncryptEntry ==
  /\ phase = "encrypt" /\ stack # <<>>
  /\ \E i \in Entries(Last(stack)) : Encrypt(cache, i)
  /\ UNCHANGED <<stack, request>>

\* closedir; the context goes with the root.
Leave ==
  /\ phase = "encrypt" /\ stack # <<>>
  /\ Entries(Last(stack)) = {} /\ Folders(Last(stack)) = {}
  /\ stack' = Front(stack)
  /\ IF Len(stack) = 1
       THEN phase' = "serve" /\ cache' = EmptyCache
       ELSE UNCHANGED <<phase, cache>>
  /\ UNCHANGED <<files, fresh, request>>

-----------------------------------------------------------------------------
\* mlle_lve_file: a request for any file, whatever was asked before.
ReadFile ==
  /\ phase = "serve"
  /\ \E i \in DOMAIN files :
       LET r == Decrypted(cache, i) IN
       /\ request' = <<i, r.outcome>>
       /\ cache' = r.cache
       /\ phase' = IF r.outcome = "crash" THEN "crash" ELSE phase
  /\ UNCHANGED <<stack, files, fresh>>

\* Another tool starts another LVE.
NewLve ==
  /\ phase = "serve"
  /\ cache # EmptyCache
  /\ cache' = EmptyCache
  /\ request' = NoRequest
  /\ UNCHANGED <<phase, stack, files, fresh>>

\* encrypt_file adds i, having found its masks in cache c.
Adds(i, c) ==
  LET k == MaskKey(c, i) IN
  /\ k.ok
  /\ files' = Put(files, i, [mask |-> k.mask, tail |-> k.tail])
  /\ fresh' = IF IsPackage(i) THEN fresh + 1 ELSE fresh
  /\ UNCHANGED <<phase, stack, cache, request>>

\* A package.mo comes before what is to lie in and below its directory.
InOrder(i) ==
  IF IsPackage(i) THEN \A j \in DOMAIN files : Dir(i) \notin Lineage(Dir(j))
  ELSE PackageOf(Dir(i)) \in DOMAIN files

\* Seeded bug: encrypt_file does not look the masks up first.
AddFileUnmasked ==
  /\ phase = "serve"
  /\ \E i \in Added \ DOMAIN files : InOrder(i) /\ Adds(i, EmptyCache)

\* The tool encrypt_file adds one file to an encrypted library, which an LVE
\* may be serving: in a context of its own it looks for the masks on the way
\* by decrypting nothing. That returns 0, whatever it finds.
AddFile ==
  /\ phase = "serve"
  /\ \E i \in Added \ DOMAIN files : InOrder(i) /\ Adds(i, FindKey(EmptyCache, i).cache)

Next == EnterRoot \/ EnterFolder \/ EncryptEntry \/ Leave \/ ReadFile \/ NewLve \/ AddFile

Spec == Init /\ [][Next]_vars

-----------------------------------------------------------------------------
(* Properties. *)

\* A package without contents on the way to file i.
EmptyAbove(i) == \E d \in Lineage(Dir(i)) : PackageOf(d) \in Empty

\* A read that fails heals: the mask of the package.mo without contents is
\* cached all the same, so that the LVE, asked again, delivers or is one such
\* package further (mlle_demask_key takes length 0 for an error).
Heals(i) ==
  LET again == Decrypted(cache, i)
  IN again.outcome = "contents" \/ DOMAIN again.cache # DOMAIN cache

\* The directories whose package.mo the key of file i depends on.
Packages(i) == {d \in Lineage(Dir(i)) : PackageOf(d) \in DOMAIN files /\ PackageOf(d) # i}

\* The key of file i has the mask of the nearest package.mo, for a package.mo
\* the nearest one above it; only what has none uses the bare library key.
KeyOfNearest(i) ==
  IF Packages(i) = {} THEN files[i].mask = NoMask
  ELSE \E d \in Packages(i) : /\ \A e \in Packages(i) : Len(e) <= Len(d)
                              /\ files[i].mask = files[PackageOf(d)].tail

\* A file that encrypt_file adds below a package.mo without contents with
\* another package.mo in between: it looks no further than the first of them,
\* although it means to decrypt "all package.moc recursively if present".
MisKeyed(i) ==
  i \in Added /\ \E d, e \in Packages(i) : PackageOf(d) \in Empty /\ Len(d) < Len(e)

\* What the packaging tool encrypted, or encrypt_file added, the LVE decrypts
\* to the same contents: any file, in any order of requests, with any part of
\* the masks in its cache (mlle_mask_key against mlle_demask_key). Only a
\* package.mo without contents may make a request below it fail, and not for
\* good, unless the file was added to the library with the wrong mask.
RoundTrip ==
  request[2] \notin {"none", "contents"} =>
    /\ request[2] = "failed" /\ EmptyAbove(request[1])
    /\ Heals(request[1]) \/ MisKeyed(request[1])

\* A mask in the LVE's cache is the one the package.moc of that directory
\* stores, although the cache is filled from below, on the way to a file, as
\* well as by requests for package.moc itself (mlle_store_keymask).
CacheIsRight ==
  phase = "serve" =>
    \A d \in DOMAIN cache :
      PackageOf(d) \in DOMAIN files /\ cache[d] = files[PackageOf(d)].tail

\* The key of a file depends on its place alone and not on the order of
\* encryption, but for a file added where encrypt_file stopped looking. And the
\* packaging tool meets the files in an order that lets it encrypt all of them,
\* for every order in which the system lists a directory ("package.mo must be
\* encrypted first").
MaskOfNearestPackage ==
  phase # "refused" /\ \A i \in DOMAIN files : KeyOfNearest(i) \/ MisKeyed(i)

-----------------------------------------------------------------------------
(* What the comments say and the code does not do.                           *)

\* "if there is package.moc in this directory read key from it; otherwize
\* return parent" (mlle_cr_decrypt.c): a file of a directory without one is
\* decrypted with the mask of the directory above.
PlainDirectoriesServed ==
  request # NoRequest /\ PackageOf(Dir(request[1])) \notin DOMAIN files =>
    request[2] = "contents"
=============================================================================
