---------------------------- MODULE MCFileSystem ----------------------------
(* FileSystem with two entries for three names, over three bytes. *)
EXTENDS FileSystem

CONSTANTS f1, f2, f3, a, b

MCName == {f1, f2, f3}
MCUnit == {a, b}
MCSizes == {1, 2}
=============================================================================
