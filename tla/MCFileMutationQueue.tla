------------------------ MODULE MCFileMutationQueue ------------------------
(* A bounded instance of FileMutationQueue for TLC: one file that has two  *)
(* paths, `link` being a symbolic link to `real`.                          *)
EXTENDS FileMutationQueue

CONSTANTS real, link
LinkedPaths == {real, link}
Resolve == [p \in LinkedPaths |-> real]
=============================================================================
