---------------------------- MODULE MCFileStore ----------------------------
(* Model-checking instances of FileStore: one content is the beginning of  *)
(* another, so an unfinished upload can hash like a finished file.         *)
EXTENDS FileStore, TLC

CONSTANTS x, y

Short == <<x>>
Long == <<x, y>>
MCFile == {Short, Long}

Symmetry == Permutations(Path) \cup Permutations(Inode) \cup Permutations(Worker)
=============================================================================
