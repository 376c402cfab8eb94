------------------------------ MODULE CliProcess -------------------------------
(***************************************************************************)
(* process() and cut_short() of the command line (src/src/pigzpp/main.cpp):*)
(* the files given are converted one after the other, each into a file of  *)
(* its own that replaces it, while a SIGINT may come at any time. What is  *)
(* on the disk is a file with the contents of one of the original files,   *)
(* whole or not, by whatever name, compressed or not.                      *)
(***************************************************************************)
EXTENDS Integers, Sequences

CONSTANTS
  Paths,        \* the paths considered
  AddSuffix,    \* function: the path with cfg.sufx behind it
  StripSuffix,  \* function: the path without the compressed suffix it has
  Tried,        \* function: the path with each suffix behind it, in the order they are tried
  Arguments,    \* the command lines considered, sequences of paths and "stdin"
  Disks,        \* what may be on the disk: functions from Paths to kinds
  Faults        \* which of "open", "convert", "terminate", "close", "signal" and "power" may happen

\* Any path that is given can have the suffix behind it.
ASSUME PathsAssumption ==
  /\ {"none", "stdin"} \cap Paths = {}
  /\ DOMAIN AddSuffix \subseteq Paths /\ DOMAIN StripSuffix \subseteq Paths
  /\ \A p \in DOMAIN AddSuffix : AddSuffix[p] \in Paths
  /\ \A p \in DOMAIN StripSuffix : StripSuffix[p] \in Paths
  /\ Tried \in [Paths -> Seq(Paths)]
  /\ Arguments \subseteq Seq(DOMAIN AddSuffix \cup {"stdin"})

\* The suffix is not empty, which -S does not check.
ASSUME SuffixAssumption ==
  /\ \A p \in DOMAIN AddSuffix : AddSuffix[p] # p
  /\ \A p \in DOMAIN StripSuffix : StripSuffix[p] # p

Kinds == {"none", "file", "link", "fifo", "dir", "special"}
ASSUME DisksAssumption == Disks \subseteq [Paths -> Kinds]

VARIABLES
  cfg,       \* the options given
  files,     \* the paths given
  turn,      \* which of them is processed
  original,  \* what was on the disk at first
  disk,      \* what is on the disk
  inf, outf, \* names of the input and the output
  outd,      \* the output: "file", "stdout" or "none"
  registered,\* g_outf while g_outd is that of a file, else "none"
  spoiled,   \* history: contents whose output could not be synced or closed, unnoticed
  pc         \* where process() is

vars == <<cfg, files, turn, original, disk, inf, outf, outd, registered, spoiled, pc>>

Options == [mode : {"compress", "decompress", "test", "list"},
            force : BOOLEAN, keep : BOOLEAN, sync : BOOLEAN, pipeout : BOOLEAN, tty : BOOLEAN]

Nothing == [kind |-> "none", of |-> "none", whole |-> FALSE, synced |-> FALSE]

Init ==
  /\ cfg \in Options /\ files \in Arguments /\ turn = 1
  /\ original \in Disks
  /\ disk = [p \in Paths |->
               IF original[p] = "none" THEN Nothing
               ELSE [kind |-> original[p], of |-> p, whole |-> TRUE, synced |-> TRUE]]
  /\ inf = "none" /\ outf = "none" /\ outd = "none" /\ registered = "none"
  /\ spoiled = {}
  /\ pc = "examine"

-------------------------------------------------------------------------------
(* The input. *)

Converting == cfg.mode \in {"compress", "decompress"}

\* Missing paths are tried with the suffixes, unless something is compressed.
There(p) == disk[p].kind # "none"
Found(path, p) ==
  LET tried == Tried[path]
      first == {i \in DOMAIN tried : There(tried[i]) /\ \A j \in 1 .. i - 1 : ~There(tried[j])}
  IN  IF There(path) \/ cfg.mode = "compress" \/ first = {}
      THEN p = path ELSE \E i \in first : p = tried[i]

Suffixed(p) == \E q \in DOMAIN AddSuffix : AddSuffix[q] = p

Skipped(p) ==
  \/ disk[p].kind \in {"none", "dir", "special"}
  \/ disk[p].kind = "link" /\ ~cfg.force /\ ~cfg.pipeout
  \/ cfg.mode = "compress" /\ ~cfg.force /\ Suffixed(p)
  \/ cfg.mode = "decompress" /\ ~cfg.pipeout /\ p \notin DOMAIN StripSuffix

NextFile == /\ turn' = turn + 1
            /\ pc' = IF turn < Len(files) THEN "examine" ELSE "done"

Examine ==
  /\ pc = "examine" /\ turn <= Len(files)
  /\ \/ /\ files[turn] = "stdin"
        /\ inf' = "stdin" /\ pc' = "create"
        /\ UNCHANGED <<turn>>
     \/ /\ files[turn] # "stdin" /\ inf' \in Paths /\ Found(files[turn], inf')
        /\ \/ ~Skipped(inf') /\ pc' = "create" /\ UNCHANGED <<turn>>
           \/ ~Skipped(inf') /\ "open" \in Faults /\ NextFile
           \/ Skipped(inf') /\ NextFile
  /\ UNCHANGED <<cfg, files, original, disk, outf, outd, registered, spoiled>>

-------------------------------------------------------------------------------
(* The output. *)

OutputPath == IF cfg.mode = "compress" THEN AddSuffix[inf] ELSE StripSuffix[inf]

ToStdout == inf = "stdin" \/ cfg.pipeout
ToTerminal == cfg.mode = "compress" /\ ~cfg.force /\ cfg.tty

\* Standard output, or none to test or to list.
NoFile ==
  /\ pc = "create" /\ pc' = "register"
  /\ \/ ToStdout /\ ~ToTerminal /\ outd' = "stdout"
     \/ ~ToStdout /\ ~Converting /\ outd' = "none"
  /\ outf' = "none"
  /\ UNCHANGED <<cfg, files, turn, original, disk, inf, registered, spoiled>>

\* With -f what is there already is opened and truncated, through a link too.
CreateOutput ==
  /\ pc = "create" /\ pc' = "register"
  /\ ~ToStdout /\ Converting
  /\ LET there == disk[OutputPath].kind
     IN  /\ there # "dir" /\ (there # "none" => cfg.force)
         /\ disk' = [disk EXCEPT ![OutputPath] =
                       [kind |-> IF there = "none" THEN "file" ELSE there,
                        of |-> disk[inf].of, whole |-> FALSE, synced |-> FALSE]]
  /\ outd' = "file" /\ outf' = OutputPath
  /\ UNCHANGED <<cfg, files, turn, original, inf, registered, spoiled>>

\* The output is a terminal, exists already or cannot be opened.
NoOutput ==
  /\ pc = "create"
  /\ \/ ToStdout /\ ToTerminal
     \/ /\ ~ToStdout /\ Converting
        /\ \/ disk[OutputPath].kind # "none" /\ ~cfg.force
           \/ disk[OutputPath].kind = "dir" /\ cfg.force
           \/ "open" \in Faults
  /\ NextFile
  /\ UNCHANGED <<cfg, files, original, disk, inf, outf, outd, registered, spoiled>>

\* Mutant of Register: SIGINT is not told about the output.
RegisterNothing ==
  /\ pc = "register" /\ pc' = "convert"
  /\ UNCHANGED <<cfg, files, turn, original, disk, inf, outf, outd, registered, spoiled>>

Register ==
  /\ pc = "register" /\ pc' = "convert"
  /\ registered' = outf
  /\ UNCHANGED <<cfg, files, turn, original, disk, inf, outf, outd, spoiled>>

-------------------------------------------------------------------------------
(* The conversion. *)

Convert ==
  /\ pc = "convert" /\ pc' = "finish"
  /\ disk' = IF outd = "file" THEN [disk EXCEPT ![outf].whole = disk[inf].whole] ELSE disk
  /\ UNCHANGED <<cfg, files, turn, original, inf, outf, outd, registered, spoiled>>

ConvertFails ==
  /\ "convert" \in Faults
  /\ pc = "convert" /\ pc' = "discard"
  /\ UNCHANGED <<cfg, files, turn, original, disk, inf, outf, outd, registered, spoiled>>

\* A write thread (with -p 2 and more) cannot write: std::terminate, and no handler runs.
ConvertDies ==
  /\ "terminate" \in Faults
  /\ pc = "convert" /\ Converting /\ pc' = "terminated"
  /\ UNCHANGED <<cfg, files, turn, original, disk, inf, outf, outd, registered, spoiled>>

Discard ==
  /\ pc = "discard" /\ pc' = "forget"
  /\ disk' = IF outd = "file" THEN [disk EXCEPT ![outf] = Nothing] ELSE disk
  /\ UNCHANGED <<cfg, files, turn, original, inf, outf, outd, registered, spoiled>>

\* The end of the handler of the exception.
Forget ==
  /\ pc = "forget"
  /\ registered' = "none"
  /\ NextFile
  /\ UNCHANGED <<cfg, files, original, disk, inf, outf, outd, spoiled>>

\* Mutant of Finish: the output is closed only.
FinishClose ==
  /\ pc = "finish" /\ pc' = "unregister"
  /\ UNCHANGED <<cfg, files, turn, original, disk, inf, outf, outd, registered, spoiled>>

\* sync() if it is asked for, and close(), which writes what a file system has put off.
Closed ==
  /\ disk' = IF outd = "file" /\ cfg.sync THEN [disk EXCEPT ![outf].synced = TRUE] ELSE disk
  /\ UNCHANGED spoiled

\* One of them fails: nobody looks at what they return, and part of the output may be missing.
ClosedBadly ==
  /\ "close" \in Faults /\ outd = "file"
  /\ \E whole \in {FALSE, disk[outf].whole} : disk' = [disk EXCEPT ![outf].whole = whole]
  /\ spoiled' = spoiled \cup {disk[inf].of}

Finish ==
  /\ pc = "finish" /\ pc' = "unregister"
  /\ Closed \/ ClosedBadly
  /\ UNCHANGED <<cfg, files, turn, original, inf, outf, outd, registered>>

\* Mutant of Unregister: the output stays registered.
UnregisterNothing ==
  /\ pc = "unregister" /\ pc' = "remove"
  /\ UNCHANGED <<cfg, files, turn, original, disk, inf, outf, outd, registered, spoiled>>

Unregister ==
  /\ pc = "unregister" /\ pc' = "remove"
  /\ registered' = "none"
  /\ UNCHANGED <<cfg, files, turn, original, disk, inf, outf, outd, spoiled>>

Remove ==
  /\ pc = "remove"
  /\ disk' = IF outd = "file" /\ ~cfg.keep THEN [disk EXCEPT ![inf] = Nothing] ELSE disk
  /\ NextFile
  /\ UNCHANGED <<cfg, files, original, inf, outf, outd, registered, spoiled>>

-------------------------------------------------------------------------------
(* What may interrupt it. *)

Running == pc \notin {"done", "killed in time", "killed too early", "terminated", "off"}

\* SIGINT: cut_short() removes the output if there is one registered.
Signal ==
  /\ "signal" \in Faults /\ Running
  /\ disk' = IF registered # "none" THEN [disk EXCEPT ![registered] = Nothing] ELSE disk
  /\ pc' = IF pc = "register" THEN "killed too early" ELSE "killed in time"
  /\ UNCHANGED <<cfg, files, turn, original, inf, outf, outd, registered, spoiled>>

\* The power goes off, and with it what has been written and not been synced.
PowerOff ==
  /\ "power" \in Faults /\ Running
  /\ disk' = [p \in Paths |-> IF disk[p].synced THEN disk[p] ELSE [disk[p] EXCEPT !.whole = FALSE]]
  /\ pc' = "off"
  /\ UNCHANGED <<cfg, files, turn, original, inf, outf, outd, registered, spoiled>>

Terminated == ~Running /\ UNCHANGED vars

Next ==
  \/ Examine \/ NoFile \/ CreateOutput \/ NoOutput \/ Register \/ Convert \/ ConvertFails \/ ConvertDies
  \/ Discard \/ Forget \/ Finish \/ Unregister \/ Remove \/ Signal \/ PowerOff \/ Terminated

Spec == Init /\ [][Next]_vars

-------------------------------------------------------------------------------

\* Every variable has the type its declaration gives it, and the output that
\* is registered is that of the file that is processed.
TypeOK ==
  /\ cfg \in Options /\ turn \in 1 .. Len(files) + 1
  /\ disk \in [Paths -> [kind : Kinds, of : Paths \cup {"none"}, whole : BOOLEAN, synced : BOOLEAN]]
  /\ inf \in Paths \cup {"none", "stdin"} /\ outf \in Paths \cup {"none"}
  /\ outd \in {"file", "stdout", "none"} /\ spoiled \subseteq Paths \cup {"none"}
  /\ registered \in {"none", outf}
  /\ pc \in {"examine", "create", "register", "remove"} => registered = "none"

\* Unless files are to be overwritten (-f), the contents of every file that was
\* there are there, as they were or converted, whenever the program ends: by
\* itself, by SIGINT, which removes an output (main.cpp:33-39) whose input is
\* then still there, by std::terminate in a write thread, or by the power going
\* off, if -Y or -k is given. What this takes and main.cpp:326-336 does not check
\* is that sync() and close() succeed on the output, or that the input is kept.
NothingLost ==
  ~cfg.force /\ (pc = "off" => cfg.sync \/ cfg.keep) =>
    \A p \in Paths : original[p] = "file" /\ (p \in spoiled => cfg.keep) =>
      \E q \in Paths : disk[q].of = p /\ disk[q].kind = "file" /\ disk[q].whole

\* However the program ends, short of a power failure, what it leaves behind that
\* is not whole is at most one file: the output it was writing when a write
\* thread was terminated (compress.cpp:992, decompress.cpp:112) or when SIGINT came
\* between open() and the registration (main.cpp:262-300). Conversions that fail
\* with an exception and SIGINT at any other time leave nothing (313-322). Outputs
\* that sync() or close() could not complete are not noticed (326-327).
NothingHalf ==
  pc \in {"done", "killed in time", "killed too early", "terminated"} =>
    \A p \in Paths : disk[p].kind # "none" /\ ~disk[p].whole =>
      \/ disk[p].of \in spoiled
      \/ pc \in {"killed too early", "terminated"} /\ p = outf
===============================================================================
