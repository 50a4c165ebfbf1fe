--------------------------- MODULE MCParallelImport ---------------------------
(***************************************************************************)
(* A build.lab that imports first, broken and shared; first imports shared *)
(* too, which imports it back.                                             *)
(***************************************************************************)
EXTENDS ParallelImport

CONSTANTS first, shared, broken

MCFile == {first, shared, broken}
MCImports == [x \in MCFile \cup {Lab} |->
    CASE x = Lab    -> <<first, broken, shared>>
      [] x = first  -> <<shared>>
      [] x = shared -> <<first>>
      [] OTHER      -> <<>>]
=============================================================================
