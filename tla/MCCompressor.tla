----------------------------- MODULE MCCompressor ------------------------------
(* Configurations for Compressor. *)
EXTENDS Compressor

Config(isal, level, rsync, setdict, block, procs, form) ==
  [isal |-> isal, level |-> level, rsync |-> rsync, setdict |-> setdict,
   block |-> block, procs |-> procs, form |-> form]

\* ISA-L and zlib, blocks of their own and by hash, independent or not, of the
\* default size and of another one, with one thread and with several.
AllConfigs ==
  {Config(TRUE, 6, FALSE, TRUE, b, p, "gzip") : b \in {2, 3}, p \in {1, 2, 3}}
    \cup {Config(FALSE, 6, r, s, b, 1, "gzip") : r \in BOOLEAN, s \in BOOLEAN, b \in {2, 3}}
    \cup {Config(FALSE, 6, FALSE, TRUE, 3, 2, f) : f \in Forms}
    \cup {Config(TRUE, 6, TRUE, FALSE, 3, 2, "zip")}
    \cup {Config(TRUE, 11, FALSE, TRUE, 2, p, "gzip") : p \in {1, 2}}

\* Level 11 with two threads.
Zopfli == {Config(TRUE, 11, FALSE, TRUE, 2, 2, "gzip")}
===============================================================================
