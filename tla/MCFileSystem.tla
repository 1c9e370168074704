----------------------------- MODULE MCFileSystem -----------------------------
(* FileSystem on a small disk. *)
EXTENDS FileSystem, TLC

NameSymmetry == Permutations(Names)
===============================================================================
