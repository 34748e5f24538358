---------------------------- MODULE MCSemlaSession ----------------------------
(***************************************************************************)
(* A small session: one library, a large encrypted file and a small plain    *)
(* one, the global feature, another and one without licences.                *)
(***************************************************************************)
EXTENDS SemlaSession

CONSTANTS empty, lib, secret, plain, fglobal, flicensed, funlicensed, trusted, untrusted

MCData        == {empty, lib, secret, plain, fglobal, flicensed, funlicensed}
MCKeys        == {trusted, untrusted}
MCTrusted     == {trusted}
MCDirectories == {lib}
MCReadable    == {<<lib, secret>>, <<lib, plain>>}
MCEncrypted   == {secret}
MCLicensed    == {fglobal, flicensed}
MCLargeFiles  == {secret}
MCNoCommandLines == {}

C(api, arg) == [api |-> api, arg |-> arg]
\* Each kind of call; further ones behave like one of these.
MCCalls ==
  {C("VERSION", empty), C("LIB", empty), C("LIB", lib), C("FEATURE", flicensed),
   C("FEATURE", funlicensed), C("RETURNFEATURE", flicensed), C("LICENSE", lib),
   C("FILE", secret)}
\* One that looks at the result of its write and one that does not.
MCLateCalls == {C("VERSION", empty), C("FILE", secret)}
MCRequests == {Request(c) : c \in MCCalls}
=============================================================================
