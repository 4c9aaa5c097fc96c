----------------------------- MODULE MCFileManager -----------------------------
(***************************************************************************)
(* A small instance of FileManager: two tables with unrelated names.       *)
(***************************************************************************)
EXTENDS FileManager

OwnNameOnly == [t \in Table |-> {t}]
=============================================================================
