----------------------------- MODULE MCLveServer -----------------------------
(***************************************************************************)
(* Small instances of LveServer: two libraries (one of which is not a       *)
(* directory), an encrypted and a plain file, the global feature and two     *)
(* others, a trusted and an untrusted key, and every kind of message.        *)
(***************************************************************************)
EXTENDS LveServer

CONSTANTS empty, lib, nolib, secret, plain, fglobal, flicensed, funlicensed,
          trusted, untrusted

MCData        == {empty, lib, nolib, secret, plain, fglobal, flicensed, funlicensed}
MCKeys        == {trusted, untrusted}
MCTrusted     == {trusted}
MCDirectories == {lib}
MCReadable    == {<<lib, secret>>, <<lib, plain>>}
MCEncrypted   == {secret}
MCLicensed    == {fglobal, flicensed}

Msg(name, args, body) == [name |-> name, args |-> args, body |-> body]
Ask(name, data)       == Msg(name, <<LengthOf(data)>>, data)

MCRequests ==
  {Msg("VERSION", <<0>>, NoBody), Msg("VERSION", <<1>>, NoBody),
   Msg("TOOLS", <<>>, NoBody),
   Msg("LIB", <<1>>, NoBody), Msg("FILE", <<NotAnInt>>, NoBody),
   Msg(Unknown, <<1>>, secret), Ask("YES", secret),
   Ask("LIB", empty), Ask("LIB", lib), Ask("LIB", nolib),
   Ask("FEATURE", flicensed), Ask("FEATURE", funlicensed),
   Ask("RETURNFEATURE", flicensed), Ask("RETURNFEATURE", fglobal),
   Ask("LICENSE", lib), Ask("RETURNLICENSE", lib),
   Ask("FILE", secret), Ask("FILE", plain)}

MCCommandLines ==
  [libpath : {empty, lib, nolib}, feature : {flicensed, funlicensed}]
=============================================================================
