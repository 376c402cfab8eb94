----------------------------- MODULE MCZipArchive ------------------------------
(* An instance of ZipArchive for TLC: members that may have the same name. *)
EXTENDS ZipArchive

TwoNames == {"a", "b"}
===============================================================================
