------------------------------ MODULE MCKeyMask ------------------------------
(***************************************************************************)
(* Small libraries for KeyMask: packages three levels deep with room for an  *)
(* added package, and one with a directory that has no package.mo.           *)
(***************************************************************************)
EXTENDS KeyMask

CONSTANTS a, b, c, model

MCNames == {a, b, c, model, Package}

MCPackages ==
  {<<Root, Package>>, <<Root, model>>, <<<<a>>, Package>>, <<<<a>>, model>>,
   <<<<a, c>>, Package>>, <<<<a, c, b>>, Package>>, <<<<a, c, b>>, model>>, <<<<b>>, Package>>}
MCAdded ==
  {<<<<b, c>>, Package>>, <<<<b, c>>, model>>,
   <<<<a, c>>, model>>, <<<<a, c, b, a>>, Package>>, <<<<a, c, b, a>>, model>>}

MCPlain ==
  {<<Root, Package>>, <<<<a>>, model>>, <<<<a>>, b>>, <<<<a, c>>, Package>>}
MCNone == {}
MCEmpty == {<<<<a, c>>, Package>>, <<<<a, c, b>>, Package>>}

\* <<a>>, model has a path of 15 characters and <<a>>, b one of 7.
MCCut == [i \in MCPackages \cup MCAdded \cup MCPlain |->
            IF i[2] = b THEN TooShort ELSE Elsewhere]
=============================================================================
