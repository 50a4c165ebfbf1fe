---------------------------- MODULE MCRemoteImports ----------------------------
(***************************************************************************)
(* The job asks for a library, a tool, and, twice, for a part of the       *)
(* library's repository.  The tool asks for a newer version of the library; the tool *)
(* and the part ask for versions of a module that comes up in this way     *)
(* only, and which asks for the library when that has been downloaded.     *)
(***************************************************************************)
EXTENDS RemoteImports

CONSTANTS library, tool, part, late, repoL, repoT, repoX, std

MCImport == {library, tool, part, late}
MCRepo == [i \in MCImport |->
    CASE i = tool -> repoT [] i = late -> repoX [] OTHER -> repoL]
MCRoots == <<<<library, 1>>, <<tool, 1>>, <<part, 1>>, <<part, 1>>>>
MCWants == [i \in MCImport |->
    CASE i = tool -> <<<<library, 2>>, <<late, 1>>>>
      [] i = part -> <<<<late, 2>>>>
      [] i = late -> <<<<library, 1>>>>
      [] OTHER    -> <<>>]
MCUses == [i \in MCImport |-> IF i = late THEN <<>> ELSE <<std>>]
=============================================================================
