----------------------------- MODULE MCFileTable -----------------------------
(* FileTable for TLC: the null process, init and one child; one descriptor  *)
(* for the console, two for other files.                                    *)
EXTENDS FileTable
===============================================================================
