------------------------ MODULE MCPathReconstructor ------------------------
(* A shared directory r with subdirectories a and x; file h is linked in  *)
(* both, file b only in x.  This covers a tracked file below an untracked *)
(* directory (a synthetic record), a hard link annotated twice, and a     *)
(* synthetic directory that ends up unneeded.                             *)
EXTENDS PathReconstructor

CONSTANTS r, a, x, h, b

MCNodes == {r, a, x, h, b}
MCDirs == {r, a, x}
MCEntries == [d \in MCDirs |-> CASE d = r -> {a, x}
                                 [] d = a -> {h}
                                 [] d = x -> {h, b}]

=============================================================================
