---------------------------- MODULE MCPackageTool ----------------------------
(***************************************************************************)
(* A library with packages, one in the wrong case, an icon of the same name  *)
(* in two places, a link and a .library of its own; an LVE and extra files   *)
(* next to the tool, which bring a manifest.xml and an LVE along.            *)
(***************************************************************************)
EXTENDS PackageTool

MCLibrary ==
  {<<"package.mo">>, <<"icon.png">>, <<"sub", "icon.png">>, <<"sub", "Package.mo">>,
   <<"link.mo">>, <<".library", "old.xml">>}
MCLinks        == {<<"link.mo">>}
MCLves         == {"lve_linux64", "lve_win64.exe"}
MCExtras       == {<<"manifest.xml">>, <<"lve_linux64">>, <<"vendor", "v.mo">>}
MCModelica     == {"package.mo", "Package.mo", "link.mo", "v.mo"}
MCPackageNames == {"package.mo", "Package.mo"}
MCMoc          == [n \in MCModelica |->
                     CASE n = "package.mo" -> "package.moc" [] n = "Package.mo" -> "Package.moc"
                       [] n = "link.mo" -> "link.moc" [] n = "v.mo" -> "v.moc"]
MCPaths        == {"/lib", "/hollow/lib", "/pics/icon.png", "/pics/other.png"}
MCDirectories  == {"/lib", "/hollow/lib"}
MCHollow       == {"/hollow/lib"}
MCBaseName     == [p \in MCPaths |->
                     CASE p \in MCDirectories -> "lib" [] p = "/pics/icon.png" -> "icon.png"
                       [] p = "/pics/other.png" -> "other.png"]
MCTrueWords    == {"true", "TRUE"}

Minimum == <<"-librarypath", "/lib", "-version", "1.0", "-language", "3.2">>
MCCommandLines ==
  {Minimum,
   Minimum \o <<"-encrypt", "TRUE">>,
   <<"-encrypt", "true", "-icon", "/pics/icon.png">> \o Minimum,
   Minimum \o <<"-encrypt", "false", "-icon", "/pics/other.png">>,
   Minimum \o <<"-encrypt", "true", "-encrypt", "false">>,
   Minimum \o <<"-title">>,
   Minimum \o <<"-librarynumber", "1.0">>,
   <<"-librarypath", "/nowhere", "-version", "1.0", "-language", "3.2">>,
   <<"-librarypath", "/hollow/lib", "-version", "1.0", "-language", "3.2">>,
   <<"-version", "1.0", "-language", "3.2">>,
   <<"--help">>}
=============================================================================
