-------------------------------- MODULE MCFiles --------------------------------
(* A small instance: two processes, two names, a directory of two files.   *)
EXTENDS FileSystem, TLC

CONSTANTS p1, p2, fileA, fileB

MCProcs == {p1, p2}
MCName  == {fileA, fileB}
Alike   == Permutations(MCProcs) \cup Permutations(MCName)
==============================================================================
