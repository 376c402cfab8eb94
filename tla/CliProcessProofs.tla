--------------------------- MODULE CliProcessProofs ----------------------------
(***************************************************************************)
(* What holds of CliProcess for any files, any command line and any disk:  *)
(* however the command ends, no contents are lost but those whose output   *)
(* could not be synced or closed, and at most one output is left behind    *)
(* that is not whole.                                                      *)
(***************************************************************************)
EXTENDS CliProcess, TLAPS

\* process() has an input, and after "create" an output or none.
Writing == {"register", "convert", "discard", "forget", "finish", "unregister", "remove"}
Working == {"create"} \cup Writing
Stopped == {"done", "killed in time", "killed too early", "terminated", "off"}

\* An output file is being written, which nobody has been promised yet.
Pending == outd = "file" /\ pc \in Writing \ {"remove"}
Unfinished == {"register", "convert", "discard", "killed too early", "terminated"}
Partial == outd = "file" /\ pc \in Unfinished

PlaceInv ==
  /\ files \in Arguments /\ original \in Disks
  /\ pc \in {"examine"} \cup Working \cup Stopped
  /\ pc \in Working => turn <= Len(files)

InputInv ==
  pc \in Working =>
    /\ inf \in Paths \cup {"stdin"}
    /\ inf # "stdin" => /\ There(inf)
                        /\ cfg.mode = "compress" => inf \in DOMAIN AddSuffix
                        /\ cfg.mode = "decompress" /\ ~cfg.pipeout => inf \in DOMAIN StripSuffix

\* Fields of the file at p.
Whole(p) == disk[p].whole = TRUE
Synced(p) == disk[p].synced = TRUE

\* Nobody has noticed that its output may be incomplete.
Spoiled(p) == disk[p].of \in spoiled

\* The output of the input that is converted, from open() to the end.
FileInv ==
  pc \in Writing /\ outd = "file" =>
    /\ outf \in Paths /\ inf \in Paths /\ outf # inf
    /\ pc # "forget" => /\ There(outf) /\ disk[outf].of = disk[inf].of
                        /\ ~cfg.force => disk[outf].kind = "file"
    /\ pc \in {"unregister", "remove"} /\ cfg.sync => Synced(outf) \/ Spoiled(outf)

\* What SIGINT would remove.
RegisterInv ==
  /\ pc \in Writing /\ outd # "file" => outf = "none"
  /\ pc \in Writing \ {"register", "remove"} => registered = outf
  /\ registered # "none" => registered \in Paths /\ (pc \in Stopped \/ Pending)
  /\ pc = "done" => registered = "none"

\* Whatever is on the disk is whole, except for the output that is or was being
\* written and for those that were not completed.
WholeInv ==
  pc # "off" => \A p \in Paths : There(p) => Whole(p) \/ Spoiled(p) \/ (Partial /\ p = outf)

\* A file that holds all of what p was, and is not an output that may be discarded.
Keeps(q, p) ==
  /\ disk[q].of = p /\ disk[q].kind = "file" /\ Whole(q)
  /\ Pending => q # outf
  /\ cfg.sync \/ cfg.keep => Synced(q)

SavedInv ==
  ~cfg.force /\ (pc = "off" => cfg.sync \/ cfg.keep) =>
    \A p \in Paths : original[p] = "file" /\ (p \in spoiled => cfg.keep) => \E q \in Paths : Keeps(q, p)

CliInv == TypeOK /\ PlaceInv /\ InputInv /\ FileInv /\ RegisterInv /\ WholeInv /\ SavedInv

-------------------------------------------------------------------------------
(* The disk. *)

Contents == [kind : Kinds, of : Paths \cup {"none"}, whole : BOOLEAN, synced : BOOLEAN]

LEMMA NothingTyped == Nothing \in Contents /\ Nothing.kind = "none"
  BY DEF Nothing, Contents, Kinds

LEMMA DiskAfter ==
  ASSUME disk \in [Paths -> Contents], NEW x \in Paths, NEW r \in Contents
  PROVE  /\ [disk EXCEPT ![x] = r] \in [Paths -> Contents]
         /\ [disk EXCEPT ![x] = r][x] = r
         /\ \A p \in Paths \ {x} : [disk EXCEPT ![x] = r][p] = disk[p]
  OBVIOUS

LEMMA CliInit == Init => CliInv
  <1> SUFFICES ASSUME Init PROVE CliInv
    OBVIOUS
  <1>0. /\ files \in Arguments /\ original \in Disks /\ Len(files) \in Nat
        /\ original \in [Paths -> Kinds] /\ "none" \notin Paths
    BY PathsAssumption, DisksAssumption DEF Init
  <1>1. \A p \in Paths : disk[p] = IF original[p] = "none" THEN Nothing
                                   ELSE [kind |-> original[p], of |-> p, whole |-> TRUE, synced |-> TRUE]
    BY DEF Init
  <1>2. disk \in [Paths -> Contents]
    <2>1. \A p \in Paths : [kind |-> original[p], of |-> p, whole |-> TRUE, synced |-> TRUE] \in Contents
      BY <1>0 DEF Contents
    <2> QED
      BY <1>0, <2>1, NothingTyped DEF Init
  <1>3. TypeOK
    BY <1>0, <1>2 DEF Init, TypeOK, Contents
  <1>4. PlaceInv /\ InputInv /\ FileInv /\ RegisterInv
    BY <1>0 DEF Init, PlaceInv, InputInv, FileInv, RegisterInv, Working, Writing, Stopped
  <1>5. WholeInv
    <2>1. ASSUME NEW p \in Paths, There(p) PROVE Whole(p)
      <3>1. CASE original[p] = "none"
        <4>1. disk[p] = Nothing
          BY <1>1, <3>1, Zenon
        <4> QED
          BY <2>1, <4>1, NothingTyped DEF There
      <3>2. CASE original[p] # "none"
        <4>1. disk[p] = [kind |-> original[p], of |-> p, whole |-> TRUE, synced |-> TRUE]
          BY <1>1, <3>2, Zenon
        <4> QED
          BY <4>1 DEF Whole
      <3> QED
        BY <3>1, <3>2
    <2> QED
      BY <2>1 DEF WholeInv
  <1>6. SavedInv
    <2>1. \A p \in Paths : original[p] = "file" => Keeps(p, p)
      BY <1>1 DEF Keeps, Pending, Writing, Whole, Synced, Init
    <2> QED
      BY <2>1 DEF SavedInv
  <1> QED
    BY <1>3, <1>4, <1>5, <1>6 DEF CliInv

-------------------------------------------------------------------------------
(* One step per action. *)

LEMMA Given ==
  ASSUME CliInv
  PROVE  /\ cfg \in Options /\ Len(files) \in Nat /\ files \in Seq(Paths \cup {"stdin"})
         /\ files \in Seq(DOMAIN AddSuffix \cup {"stdin"})
         /\ turn \in 1 .. Len(files) + 1 /\ disk \in [Paths -> Contents]
         /\ "none" \notin Paths /\ "stdin" \notin Paths
  BY PathsAssumption DEF CliInv, TypeOK, PlaceInv, Contents

\* On to the next file, with nothing registered.
LEMMA NextTyped ==
  ASSUME CliInv, turn <= Len(files), NextFile, registered' = "none",
         UNCHANGED <<cfg, files, original, outf, outd, spoiled>>,
         disk' \in [Paths -> Contents], inf' \in Paths \cup {"none", "stdin"}
  PROVE  TypeOK' /\ PlaceInv' /\ InputInv' /\ FileInv' /\ RegisterInv'
  <1>1. pc' \in {"examine", "done"} /\ turn' = turn + 1 /\ turn' \in 1 .. Len(files') + 1
    BY Given DEF NextFile
  <1>2. TypeOK'
    BY <1>1 DEF CliInv, TypeOK, Contents
  <1> QED
    BY <1>1, <1>2 DEF CliInv, PlaceInv, InputInv, FileInv, RegisterInv, Working, Writing, Stopped

LEMMA ExamineStep == ASSUME CliInv, Examine PROVE CliInv'
  <1>0. /\ pc = "examine" /\ turn <= Len(files) /\ registered = "none"
        /\ UNCHANGED <<cfg, files, original, disk, outf, outd, registered, spoiled>>
        /\ inf' \in Paths \cup {"stdin"} /\ pc' \in {"examine", "create", "done"}
    BY DEF Examine, NextFile, CliInv, TypeOK
  <1>1. WholeInv' /\ SavedInv'
    BY <1>0 DEF CliInv, WholeInv, SavedInv, Keeps, Pending, Partial, Unfinished, Spoiled, Writing, There, Whole, Synced
  <1>2. CASE NextFile
    BY <1>0, <1>1, <1>2, Given, NextTyped DEF CliInv
  <1>3. CASE pc' = "create" /\ UNCHANGED turn
    <2>1. files[turn] \in DOMAIN AddSuffix \cup {"stdin"}
      BY <1>0, Given
    <2>2. CASE inf' # "stdin"
      <3>1. files[turn] # "stdin" /\ inf' \in Paths /\ Found(files[turn], inf') /\ ~Skipped(inf')
        BY <1>0, <1>3, <2>2 DEF Examine, NextFile
      <3>2. cfg.mode = "compress" => inf' = files[turn]
        BY <3>1 DEF Found
      <3>3. There(inf') /\ (cfg.mode = "decompress" /\ ~cfg.pipeout => inf' \in DOMAIN StripSuffix)
        BY <3>1 DEF Skipped, There
      <3> QED
        BY <1>0, <1>1, <1>3, <2>1, <3>1, <3>2, <3>3
        DEF CliInv, TypeOK, PlaceInv, InputInv, FileInv, RegisterInv, Working, Writing, Stopped, There
    <2>3. CASE inf' = "stdin"
      BY <1>0, <1>1, <1>3, <2>3
      DEF CliInv, TypeOK, PlaceInv, InputInv, FileInv, RegisterInv, Working, Writing, Stopped
    <2> QED
      BY <2>2, <2>3
  <1> QED
    BY <1>0, <1>2, <1>3 DEF Examine

\* The name of the output is another one than that of the input.
LEMMA OutputApart ==
  ASSUME CliInv, pc \in Working, ~ToStdout, Converting
  PROVE  inf \in Paths /\ There(inf) /\ OutputPath \in Paths /\ OutputPath # inf
  <1>1. inf \in Paths /\ There(inf) /\ ~cfg.pipeout /\ cfg.mode \in {"compress", "decompress"}
    BY DEF ToStdout, Converting, CliInv, InputInv
  <1>2. CASE cfg.mode = "compress"
    <2>1. inf \in DOMAIN AddSuffix
      BY <1>1, <1>2 DEF CliInv, InputInv, ToStdout
    <2> QED
      BY <1>1, <1>2, <2>1, PathsAssumption, SuffixAssumption DEF OutputPath
  <1>3. CASE cfg.mode = "decompress"
    <2>1. inf \in DOMAIN StripSuffix
      BY <1>1, <1>3 DEF CliInv, InputInv, ToStdout
    <2> QED
      BY <1>1, <1>3, <2>1, PathsAssumption, SuffixAssumption DEF OutputPath
  <1> QED
    BY <1>1, <1>2, <1>3

LEMMA NoFileStep == ASSUME CliInv, NoFile PROVE CliInv'
  <1>0. /\ pc = "create" /\ pc' = "register" /\ outd' \in {"stdout", "none"} /\ outf' = "none"
        /\ registered = "none" /\ UNCHANGED <<cfg, files, turn, original, disk, inf, registered, spoiled>>
    BY DEF NoFile, CliInv, TypeOK
  <1>1. WholeInv' /\ SavedInv'
    BY <1>0 DEF CliInv, WholeInv, SavedInv, Keeps, Pending, Partial, Unfinished, Spoiled, Writing, There, Whole, Synced
  <1> QED
    BY <1>0, <1>1
    DEF CliInv, TypeOK, PlaceInv, InputInv, FileInv, RegisterInv, Working, Writing, Stopped, There

LEMMA CreateStep == ASSUME CliInv, CreateOutput PROVE CliInv'
  <1> DEFINE x == OutputPath
             was == disk[OutputPath].kind
             r == [kind |-> IF was = "none" THEN "file" ELSE was,
                   of |-> disk[inf].of, whole |-> FALSE, synced |-> FALSE]
  <1>0. /\ pc = "create" /\ pc' = "register" /\ outd' = "file" /\ outf' = x /\ registered = "none"
        /\ UNCHANGED <<cfg, files, turn, original, inf, registered, spoiled>>
        /\ disk' = [disk EXCEPT ![x] = r] /\ (was # "none" => cfg.force)
    BY DEF CreateOutput, CliInv, TypeOK
  <1>1. inf \in Paths /\ There(inf) /\ x \in Paths /\ x # inf
    BY <1>0, OutputApart DEF CreateOutput, Working
  <1>2. disk \in [Paths -> Contents]
    BY Given
  <1>3. r \in Contents /\ r.kind # "none" /\ r.of = disk[inf].of /\ (~cfg.force => r.kind = "file")
    BY <1>0, <1>1, <1>2 DEF Contents, Kinds
  <1>f. ~cfg.force => disk[x].kind = "none"
    BY <1>0
  <1> HIDE DEF r, was, x
  <1>4. disk' \in [Paths -> Contents] /\ disk'[x] = r /\ \A p \in Paths \ {x} : disk'[p] = disk[p]
    BY <1>0, <1>1, <1>2, <1>3, DiskAfter
  <1>5. TypeOK'
    BY <1>0, <1>1, <1>4 DEF CliInv, TypeOK, Contents
  <1>6. PlaceInv' /\ InputInv' /\ RegisterInv'
    BY <1>0, <1>1, <1>4
    DEF CliInv, PlaceInv, InputInv, RegisterInv, Working, Writing, Stopped, There
  <1>7. FileInv'
    BY <1>0, <1>1, <1>3, <1>4 DEF FileInv, Writing, There
  <1>8. WholeInv'
    BY <1>0, <1>1, <1>4 DEF CliInv, WholeInv, Partial, Unfinished, Spoiled, There, Whole
  <1>9. SavedInv'
    <2> SUFFICES ASSUME ~cfg.force, NEW p \in Paths, original[p] = "file", p \in spoiled => cfg.keep
                 PROVE  \E q \in Paths : Keeps(q, p)'
      BY <1>0 DEF SavedInv
    <2>1. PICK q \in Paths : Keeps(q, p)
      BY <1>0 DEF CliInv, SavedInv
    <2>2. q # x
      BY <1>f, <2>1 DEF Keeps
    <2>3. Keeps(q, p)'
      BY <1>0, <1>4, <2>1, <2>2 DEF Keeps, Whole, Synced
    <2> QED
      BY <2>3
  <1> QED
    BY <1>5, <1>6, <1>7, <1>8, <1>9 DEF CliInv

LEMMA NoOutputStep == ASSUME CliInv, NoOutput PROVE CliInv'
  <1>0. /\ pc = "create" /\ NextFile /\ registered = "none" /\ turn <= Len(files)
        /\ UNCHANGED <<cfg, files, original, disk, inf, outf, outd, registered, spoiled>>
        /\ pc' \in {"examine", "done"}
    BY DEF NoOutput, NextFile, CliInv, TypeOK, PlaceInv, Working
  <1>1. WholeInv' /\ SavedInv'
    BY <1>0 DEF CliInv, WholeInv, SavedInv, Keeps, Pending, Partial, Unfinished, Spoiled, Writing, There, Whole, Synced
  <1>2. inf' \in Paths \cup {"none", "stdin"}
    BY <1>0 DEF CliInv, TypeOK
  <1> QED
    BY <1>0, <1>1, <1>2, Given, NextTyped DEF CliInv

\* The steps that move on without touching the disk.
LEMMA RegisterStep == ASSUME CliInv, Register PROVE CliInv'
  <1>0. /\ pc = "register" /\ pc' = "convert" /\ registered' = outf
        /\ UNCHANGED <<cfg, files, turn, original, disk, inf, outf, outd, spoiled>>
    BY DEF Register
  <1>1. WholeInv' /\ SavedInv'
    BY <1>0 DEF CliInv, WholeInv, SavedInv, Keeps, Pending, Partial, Unfinished, Spoiled, Writing, There, Whole, Synced
  <1> QED
    BY <1>0, <1>1
    DEF CliInv, TypeOK, PlaceInv, InputInv, FileInv, RegisterInv, Working, Writing, Stopped, There, Pending

LEMMA ConvertFailsStep == ASSUME CliInv, ConvertFails PROVE CliInv'
  <1>0. /\ pc = "convert" /\ pc' = "discard"
        /\ UNCHANGED <<cfg, files, turn, original, disk, inf, outf, outd, registered, spoiled>>
    BY DEF ConvertFails
  <1>1. WholeInv' /\ SavedInv'
    BY <1>0 DEF CliInv, WholeInv, SavedInv, Keeps, Pending, Partial, Unfinished, Spoiled, Writing, There, Whole, Synced
  <1> QED
    BY <1>0, <1>1
    DEF CliInv, TypeOK, PlaceInv, InputInv, FileInv, RegisterInv, Working, Writing, Stopped, There, Pending

LEMMA ConvertDiesStep == ASSUME CliInv, ConvertDies PROVE CliInv'
  <1>0. /\ pc = "convert" /\ pc' = "terminated"
        /\ UNCHANGED <<cfg, files, turn, original, disk, inf, outf, outd, registered, spoiled>>
    BY DEF ConvertDies
  <1>1. WholeInv' /\ SavedInv'
    BY <1>0 DEF CliInv, WholeInv, SavedInv, Keeps, Pending, Partial, Unfinished, Spoiled, Writing, There, Whole, Synced
  <1> QED
    BY <1>0, <1>1
    DEF CliInv, TypeOK, PlaceInv, InputInv, FileInv, RegisterInv, Working, Writing, Stopped, There, Pending

LEMMA UnregisterStep == ASSUME CliInv, Unregister PROVE CliInv'
  <1>0. /\ pc = "unregister" /\ pc' = "remove" /\ registered' = "none"
        /\ UNCHANGED <<cfg, files, turn, original, disk, inf, outf, outd, spoiled>>
    BY DEF Unregister
  <1>1. WholeInv' /\ SavedInv'
    BY <1>0 DEF CliInv, WholeInv, SavedInv, Keeps, Pending, Partial, Unfinished, Spoiled, Writing, There, Whole, Synced
  <1> QED
    BY <1>0, <1>1
    DEF CliInv, TypeOK, PlaceInv, InputInv, FileInv, RegisterInv, Working, Writing, Stopped, There, Synced, Spoiled

LEMMA ConvertStep == ASSUME CliInv, Convert PROVE CliInv'
  <1>0. /\ pc = "convert" /\ pc' = "finish" /\ UNCHANGED <<cfg, files, turn, original, inf, outf, outd, registered, spoiled>>
    BY DEF Convert
  <1>1. CASE outd # "file"
    <2>1. disk' = disk
      BY <1>1 DEF Convert
    <2>2. WholeInv' /\ SavedInv'
      BY <1>0, <1>1, <2>1 DEF CliInv, WholeInv, SavedInv, Keeps, Pending, Partial, Unfinished, Spoiled, There, Whole, Synced
    <2> QED
      BY <1>0, <1>1, <2>1, <2>2
      DEF CliInv, TypeOK, PlaceInv, InputInv, FileInv, RegisterInv, Working, Writing, Stopped, There, Pending
  <1>2. CASE outd = "file"
    <2> DEFINE r == [disk[outf] EXCEPT !.whole = disk[inf].whole]
    <2>0. disk \in [Paths -> Contents]
      BY Given
    <2>1. /\ outf \in Paths /\ inf \in Paths /\ outf # inf /\ There(outf) /\ There(inf)
          /\ disk[outf].of = disk[inf].of /\ (~cfg.force => disk[outf].kind = "file")
          /\ registered = outf
      BY <1>0, <1>2, Given DEF CliInv, FileInv, InputInv, RegisterInv, Writing, Working
    <2>2. Whole(inf) \/ Spoiled(inf)
      BY <1>0, <2>1 DEF CliInv, WholeInv, Partial
    <2>3. /\ r \in Contents /\ r.kind = disk[outf].kind /\ r.of = disk[outf].of
          /\ r.whole = TRUE \/ r.of \in spoiled
      BY <2>0, <2>1, <2>2 DEF Whole, Spoiled, Contents
    <2>4. disk' = [disk EXCEPT ![outf] = r]
      BY <1>2, <2>0, <2>1 DEF Convert
    <2> HIDE DEF r
    <2>5. disk' \in [Paths -> Contents] /\ disk'[outf] = r /\ \A p \in Paths \ {outf} : disk'[p] = disk[p]
      BY <2>0, <2>1, <2>3, <2>4, DiskAfter
    <2>6. TypeOK'
      BY <1>0, <2>5 DEF CliInv, TypeOK, Contents
    <2>7. PlaceInv' /\ InputInv' /\ RegisterInv'
      BY <1>0, <1>2, <2>1, <2>5
      DEF CliInv, PlaceInv, InputInv, RegisterInv, Working, Writing, Stopped, There, Pending
    <2>8. FileInv'
      BY <1>0, <2>1, <2>3, <2>5 DEF FileInv, There
    <2>9. WholeInv'
      BY <1>0, <2>1, <2>3, <2>5 DEF CliInv, WholeInv, Partial, Unfinished, Spoiled, There, Whole
    <2>10. SavedInv'
      <3> SUFFICES ASSUME ~cfg.force, NEW p \in Paths, original[p] = "file", p \in spoiled => cfg.keep
                   PROVE  \E q \in Paths : Keeps(q, p)'
        BY <1>0 DEF SavedInv
      <3>1. PICK q \in Paths : Keeps(q, p)
        BY <1>0 DEF CliInv, SavedInv
      <3>2. q # outf
        BY <1>0, <1>2, <3>1 DEF Keeps, Pending, Writing
      <3>3. Keeps(q, p)'
        BY <1>0, <2>5, <3>1, <3>2 DEF Keeps, Whole, Synced
      <3> QED
        BY <3>3
    <2> QED
      BY <2>6, <2>7, <2>8, <2>9, <2>10 DEF CliInv
  <1> QED
    BY <1>1, <1>2

\* What was written stays as it is, or is spoiled.
LEMMA FinishStep == ASSUME CliInv, Finish PROVE CliInv'
  <1>0. /\ pc = "finish" /\ pc' = "unregister"
        /\ UNCHANGED <<cfg, files, turn, original, inf, outf, outd, registered>>
    BY DEF Finish
  <1>1. CASE disk' = disk /\ spoiled' = spoiled /\ ~(outd = "file" /\ cfg.sync)
    <2>1. WholeInv' /\ SavedInv'
      BY <1>0, <1>1 DEF CliInv, WholeInv, SavedInv, Keeps, Pending, Writing, Partial, Unfinished, Spoiled, There, Whole, Synced
    <2> QED
      BY <1>0, <1>1, <2>1
      DEF CliInv, TypeOK, PlaceInv, InputInv, FileInv, RegisterInv, Working, Writing, Stopped, There, Pending
  <1>2. ASSUME outd = "file", NEW r \in Contents, disk' = [disk EXCEPT ![outf] = r],
               r.kind = disk[outf].kind, r.of = disk[outf].of, spoiled' \subseteq spoiled \cup {disk[inf].of},
               spoiled \subseteq spoiled',
               \/ r.whole = disk[outf].whole /\ r.synced = TRUE
               \/ disk[inf].of \in spoiled'
        PROVE  CliInv'
    <2>0. disk \in [Paths -> Contents]
      BY Given
    <2>1. /\ outf \in Paths /\ inf \in Paths /\ outf # inf /\ There(outf) /\ There(inf)
          /\ disk[outf].of = disk[inf].of /\ (~cfg.force => disk[outf].kind = "file")
          /\ registered = outf
      BY <1>0, <1>2, Given DEF CliInv, FileInv, InputInv, RegisterInv, Writing, Working
    <2>2. Whole(outf) \/ Spoiled(outf)
      BY <1>0, <2>1 DEF CliInv, WholeInv, Partial, Unfinished
    <2>3. /\ r.whole = TRUE \/ r.of \in spoiled'
          /\ r.synced = TRUE \/ r.of \in spoiled'
      BY <1>2, <2>1, <2>2 DEF Whole, Spoiled
    <2>4. disk' \in [Paths -> Contents] /\ disk'[outf] = r /\ \A p \in Paths \ {outf} : disk'[p] = disk[p]
      BY <1>2, <2>0, <2>1, DiskAfter
    <2>5. spoiled' \subseteq Paths \cup {"none"}
      <3>1. disk[inf].of \in Paths \cup {"none"}
        BY <2>0, <2>1 DEF Contents
      <3> QED
        BY <1>2, <3>1 DEF CliInv, TypeOK
    <2>6. TypeOK'
      BY <1>0, <2>4, <2>5 DEF CliInv, TypeOK, Contents
    <2>7. PlaceInv' /\ InputInv' /\ RegisterInv'
      BY <1>0, <1>2, <2>1, <2>4
      DEF CliInv, PlaceInv, InputInv, RegisterInv, Working, Writing, Stopped, There, Pending
    <2>8. FileInv'
      BY <1>0, <1>2, <2>1, <2>3, <2>4 DEF FileInv, There, Synced, Spoiled
    <2>9. WholeInv'
      BY <1>0, <1>2, <2>3, <2>4 DEF CliInv, WholeInv, Partial, Unfinished, There, Whole, Spoiled
    <2>10. SavedInv'
      <3> SUFFICES ASSUME ~cfg.force, NEW p \in Paths, original[p] = "file", p \in spoiled' => cfg.keep
                   PROVE  \E q \in Paths : Keeps(q, p)'
        BY <1>0 DEF SavedInv
      <3>1. PICK q \in Paths : Keeps(q, p)
        BY <1>0, <1>2 DEF CliInv, SavedInv
      <3>2. q # outf
        BY <1>0, <1>2, <3>1 DEF Keeps, Pending, Writing
      <3>3. Keeps(q, p)'
        BY <1>0, <2>4, <3>1, <3>2 DEF Keeps, Whole, Synced
      <3> QED
        BY <3>3
    <2> QED
      BY <2>6, <2>7, <2>8, <2>9, <2>10 DEF CliInv
  <1>3. disk \in [Paths -> Contents] /\ (outd = "file" => outf \in Paths)
    BY <1>0, Given DEF CliInv, FileInv, Writing
  <1>4. CASE Closed /\ outd = "file" /\ cfg.sync
    <2> DEFINE r == [disk[outf] EXCEPT !.synced = TRUE]
    <2>1. r \in Contents /\ r.whole = disk[outf].whole /\ r.synced = TRUE /\ r.kind = disk[outf].kind /\ r.of = disk[outf].of
      BY <1>3, <1>4 DEF Contents
    <2>2. disk' = [disk EXCEPT ![outf] = r] /\ spoiled' = spoiled
      BY <1>3, <1>4 DEF Closed
    <2> HIDE DEF r
    <2> QED
      BY <1>2, <1>4, <2>1, <2>2
  <1>5. CASE ClosedBadly
    <2>1. PICK whole \in {FALSE, disk[outf].whole} : disk' = [disk EXCEPT ![outf].whole = whole]
      BY <1>5 DEF ClosedBadly
    <2> DEFINE r == [disk[outf] EXCEPT !.whole = whole]
    <2>2. outd = "file" /\ spoiled' = spoiled \cup {disk[inf].of}
      BY <1>5 DEF ClosedBadly
    <2>3. r \in Contents /\ r.kind = disk[outf].kind /\ r.of = disk[outf].of
      BY <1>3, <2>2 DEF Contents
    <2>4. disk' = [disk EXCEPT ![outf] = r]
      BY <1>3, <2>1, <2>2
    <2> HIDE DEF r
    <2> QED
      BY <1>2, <2>2, <2>3, <2>4
  <1> QED
    BY <1>0, <1>1, <1>4, <1>5 DEF Finish, Closed

\* A file that is not what keeps the contents of another one is removed.
LEMMA Removal ==
  ASSUME CliInv, NEW x \in Paths, disk' = [disk EXCEPT ![x] = Nothing]
  PROVE  /\ disk' \in [Paths -> Contents] /\ disk'[x].kind = "none"
         /\ \A p \in Paths \ {x} : disk'[p] = disk[p]
  BY Given, DiskAfter, NothingTyped

LEMMA DiscardStep == ASSUME CliInv, Discard PROVE CliInv'
  <1>0. /\ pc = "discard" /\ pc' = "forget"
        /\ UNCHANGED <<cfg, files, turn, original, inf, outf, outd, registered, spoiled>>
    BY DEF Discard
  <1>1. CASE outd # "file"
    <2>1. disk' = disk
      BY <1>1 DEF Discard
    <2>2. WholeInv' /\ SavedInv'
      BY <1>0, <1>1, <2>1 DEF CliInv, WholeInv, SavedInv, Keeps, Pending, Partial, Unfinished, Spoiled, There, Whole, Synced
    <2> QED
      BY <1>0, <1>1, <2>1, <2>2
      DEF CliInv, TypeOK, PlaceInv, InputInv, FileInv, RegisterInv, Working, Writing, Stopped, There, Pending
  <1>2. CASE outd = "file"
    <2>1. /\ outf \in Paths /\ inf \in Paths /\ outf # inf /\ registered = outf
          /\ disk' = [disk EXCEPT ![outf] = Nothing]
      BY <1>0, <1>2 DEF Discard, CliInv, FileInv, RegisterInv, Writing
    <2>2. disk' \in [Paths -> Contents] /\ disk'[outf].kind = "none" /\ \A p \in Paths \ {outf} : disk'[p] = disk[p]
      BY <2>1, Removal
    <2>3. TypeOK'
      BY <1>0, <2>2 DEF CliInv, TypeOK, Contents
    <2>4. PlaceInv' /\ InputInv' /\ RegisterInv' /\ FileInv'
      BY <1>0, <1>2, <2>1, <2>2
      DEF CliInv, PlaceInv, InputInv, RegisterInv, FileInv, Working, Writing, Stopped, There, Pending
    <2>5. WholeInv'
      BY <1>0, <2>2 DEF CliInv, WholeInv, Partial, Unfinished, Spoiled, There, Whole
    <2>6. SavedInv'
      BY <1>0, <1>2, <2>2 DEF CliInv, SavedInv, Keeps, Pending, Writing, Whole, Synced
    <2> QED
      BY <2>3, <2>4, <2>5, <2>6 DEF CliInv
  <1> QED
    BY <1>1, <1>2

LEMMA ForgetStep == ASSUME CliInv, Forget PROVE CliInv'
  <1>0. /\ pc = "forget" /\ registered' = "none" /\ NextFile /\ turn <= Len(files)
        /\ UNCHANGED <<cfg, files, original, disk, inf, outf, outd, spoiled>>
        /\ pc' \in {"examine", "done"}
    BY DEF Forget, NextFile, CliInv, PlaceInv, Working, Writing
  <1>1. WholeInv' /\ SavedInv'
    BY <1>0 DEF CliInv, WholeInv, SavedInv, Keeps, Pending, Partial, Unfinished, Spoiled, Writing, There, Whole, Synced
  <1>2. inf' \in Paths \cup {"none", "stdin"}
    BY <1>0 DEF CliInv, TypeOK
  <1> QED
    BY <1>0, <1>1, <1>2, Given, NextTyped DEF CliInv

\* The input is removed when its output is complete, and on the disk if that is asked for.
LEMMA RemoveStep == ASSUME CliInv, Remove PROVE CliInv'
  <1>0. /\ pc = "remove" /\ registered = "none" /\ registered' = "none" /\ NextFile /\ turn <= Len(files)
        /\ UNCHANGED <<cfg, files, original, inf, outf, outd, spoiled>>
        /\ pc' \in {"examine", "done"} /\ inf' \in Paths \cup {"none", "stdin"}
    BY DEF Remove, NextFile, CliInv, TypeOK, PlaceInv, Working, Writing
  <1>1. CASE ~(outd = "file" /\ ~cfg.keep)
    <2>1. disk' = disk
      BY <1>1 DEF Remove
    <2>2. WholeInv' /\ SavedInv'
      BY <1>0, <2>1 DEF CliInv, WholeInv, SavedInv, Keeps, Pending, Partial, Unfinished, Spoiled, Writing, There, Whole, Synced
    <2> QED
      BY <1>0, <2>1, <2>2, Given, NextTyped DEF CliInv
  <1>2. CASE outd = "file" /\ ~cfg.keep
    <2>1. /\ outf \in Paths /\ inf \in Paths /\ outf # inf /\ There(outf)
          /\ disk[outf].of = disk[inf].of /\ (~cfg.force => disk[outf].kind = "file")
          /\ cfg.sync => Synced(outf) \/ Spoiled(outf)
          /\ disk' = [disk EXCEPT ![inf] = Nothing]
      BY <1>0, <1>2 DEF Remove, CliInv, FileInv, Writing
    <2>2. Whole(outf) \/ Spoiled(outf)
      BY <1>0, <2>1 DEF CliInv, WholeInv, Partial, Unfinished
    <2>3. disk' \in [Paths -> Contents] /\ disk'[inf].kind = "none" /\ \A p \in Paths \ {inf} : disk'[p] = disk[p]
      BY <2>1, Removal
    <2>4. WholeInv'
      BY <1>0, <2>3 DEF CliInv, WholeInv, Partial, Unfinished, Spoiled, There, Whole
    <2>5. SavedInv'
      <3> SUFFICES ASSUME ~cfg.force, NEW p \in Paths, original[p] = "file", p \in spoiled => cfg.keep
                   PROVE  \E q \in Paths : Keeps(q, p)'
        BY <1>0 DEF SavedInv
      <3>1. PICK q \in Paths : Keeps(q, p)
        BY <1>0 DEF CliInv, SavedInv
      <3>2. CASE q = inf
        <4>1. PICK x \in Paths : x = outf
          BY <2>1
        <4>2. disk'[x] = disk[x]
          BY <2>1, <2>3, <4>1
        <4>3. ~Spoiled(outf)
          BY <1>0, <1>2, <2>1, <3>1, <3>2 DEF Keeps, Spoiled
        <4>4. Keeps(x, p)'
          BY <1>0, <1>2, <2>1, <2>2, <3>1, <3>2, <4>1, <4>2, <4>3 DEF Keeps, Pending, Writing, Whole, Synced
        <4> QED
          BY <4>4
      <3>3. CASE q # inf
        <4>1. Keeps(q, p)'
          BY <1>0, <2>3, <3>1, <3>3 DEF Keeps, Pending, Writing, Whole, Synced
        <4> QED
          BY <4>1
      <3> QED
        BY <3>2, <3>3
    <2> QED
      BY <1>0, <2>3, <2>4, <2>5, Given, NextTyped DEF CliInv
  <1> QED
    BY <1>1, <1>2

-------------------------------------------------------------------------------
(* The interruptions. *)

\* SIGINT finds the output registered as long as it is not to be kept, except between
\* its creation and the assignment that registers it.
LEMMA SignalStep == ASSUME CliInv, Signal PROVE CliInv'
  <1>0. /\ pc \in {"examine"} \cup Working /\ UNCHANGED <<cfg, files, turn, original, inf, outf, outd, registered, spoiled>>
        /\ pc' = IF pc = "register" THEN "killed too early" ELSE "killed in time"
    BY DEF Signal, Running, CliInv, PlaceInv, Stopped
  <1>1. CASE registered = "none"
    <2>1. disk' = disk
      BY <1>1 DEF Signal
    <2>2. TypeOK' /\ PlaceInv' /\ InputInv' /\ FileInv' /\ RegisterInv'
      BY <1>0, <1>1, <2>1
      DEF CliInv, TypeOK, PlaceInv, InputInv, FileInv, RegisterInv, Working, Writing, Stopped
    <2>3. pc # "register" => ~Partial
      BY <1>0, <1>1, Given DEF CliInv, RegisterInv, FileInv, Partial, Unfinished, Writing, Working
    <2>4. WholeInv'
      BY <1>0, <2>1, <2>3 DEF CliInv, WholeInv, Partial, Unfinished, Working, Writing, There, Whole, Spoiled
    <2>5. SavedInv'
      BY <1>0, <2>1 DEF CliInv, SavedInv, Keeps, Pending, Working, Writing, Whole, Synced
    <2> QED
      BY <2>2, <2>4, <2>5 DEF CliInv
  <1>2. CASE registered # "none"
    <2>1. /\ registered = outf /\ outf \in Paths /\ Pending
          /\ disk' = [disk EXCEPT ![outf] = Nothing] /\ pc # "register"
      BY <1>0, <1>2 DEF Signal, CliInv, TypeOK, RegisterInv, Working, Stopped, Writing
    <2>2. disk' \in [Paths -> Contents] /\ disk'[outf].kind = "none" /\ \A p \in Paths \ {outf} : disk'[p] = disk[p]
      BY <2>1, Removal
    <2>3. TypeOK' /\ PlaceInv' /\ InputInv' /\ FileInv' /\ RegisterInv'
      BY <1>0, <2>1, <2>2
      DEF CliInv, TypeOK, Contents, PlaceInv, InputInv, FileInv, RegisterInv, Working, Writing, Stopped
    <2>4. WholeInv'
      BY <1>0, <2>1, <2>2 DEF CliInv, WholeInv, Partial, Unfinished, Working, Writing, There, Whole, Spoiled
    <2>5. SavedInv'
      BY ZenonT(60), <1>0, <2>1, <2>2 DEF CliInv, SavedInv, Keeps, Pending, Working, Writing, Whole, Synced
    <2> QED
      BY <2>3, <2>4, <2>5 DEF CliInv
  <1> QED
    BY <1>1, <1>2

LEMMA PowerOffStep == ASSUME CliInv, PowerOff PROVE CliInv'
  <1>0. /\ pc' = "off" /\ UNCHANGED <<cfg, files, turn, original, inf, outf, outd, registered, spoiled>>
        /\ pc # "off" /\ disk \in [Paths -> Contents]
    BY Given DEF PowerOff, Running
  <1>1. disk' \in [Paths -> Contents] /\ \A p \in Paths : Synced(p) => disk'[p] = disk[p]
    <2>1. \A p \in Paths : [disk[p] EXCEPT !.whole = FALSE] \in Contents
      BY <1>0 DEF Contents
    <2> QED
      BY <1>0, <2>1 DEF PowerOff, Synced
  <1>2. TypeOK' /\ PlaceInv' /\ InputInv' /\ FileInv' /\ RegisterInv' /\ WholeInv'
    BY <1>0, <1>1
    DEF CliInv, TypeOK, Contents, PlaceInv, InputInv, FileInv, RegisterInv, WholeInv, Working, Writing, Stopped
  <1>3. SavedInv'
    <2> SUFFICES ASSUME ~cfg.force, cfg.sync \/ cfg.keep, NEW p \in Paths, original[p] = "file", p \in spoiled => cfg.keep
                 PROVE  \E q \in Paths : Keeps(q, p)'
      BY <1>0 DEF SavedInv
    <2>1. PICK q \in Paths : Keeps(q, p)
      BY <1>0 DEF CliInv, SavedInv
    <2>2. disk'[q] = disk[q]
      BY <1>1, <2>1 DEF Keeps
    <2>3. Keeps(q, p)'
      BY <1>0, <2>1, <2>2 DEF Keeps, Pending, Writing, Whole, Synced
    <2> QED
      BY <2>3
  <1> QED
    BY <1>2, <1>3 DEF CliInv

LEMMA CliStep == ASSUME CliInv, [Next]_vars PROVE CliInv'
  <1>1. CASE UNCHANGED vars
    <2>1. TypeOK' /\ PlaceInv' /\ InputInv'
      BY <1>1 DEF vars, CliInv, TypeOK, PlaceInv, InputInv, There
    <2>2. FileInv' /\ RegisterInv'
      BY <1>1 DEF vars, CliInv, FileInv, RegisterInv, Pending, There, Synced, Spoiled
    <2>3. WholeInv'
      BY <1>1 DEF vars, CliInv, WholeInv, Partial, Unfinished, Spoiled, There, Whole
    <2>4. SavedInv'
      BY <1>1 DEF vars, CliInv, SavedInv, Keeps, Pending, Whole, Synced
    <2> QED
      BY <2>1, <2>2, <2>3, <2>4 DEF CliInv
  <1> QED
    BY <1>1, ExamineStep, NoFileStep, CreateStep, NoOutputStep, RegisterStep, ConvertStep,
       ConvertFailsStep, ConvertDiesStep, DiscardStep, ForgetStep, FinishStep, UnregisterStep, RemoveStep, SignalStep,
       PowerOffStep DEF Next, Terminated

THEOREM CliInvariant == Spec => []CliInv
  BY CliInit, CliStep, PTL DEF Spec

\* Every variable keeps its type, and what SIGINT would remove is never anything but the
\* output of the file that is being processed.
THEOREM CliTypeCorrect == Spec => []TypeOK
  BY CliInvariant, PTL DEF CliInv

\* Whatever is on the disk, whichever files are given and wherever the command is
\* interrupted, the contents of every file are there, as they were or converted,
\* but for an input that is removed although its output could not be synced or closed.
THEOREM NothingIsLost == Spec => []NothingLost
  <1>1. CliInv => NothingLost
    BY DEF CliInv, SavedInv, Keeps, Whole, NothingLost
  <1> QED
    BY <1>1, CliInvariant, PTL

\* However many files are given and conversions fail, no more than one output is left
\* half-written that is not for want of a sync() or close(), and only by a write thread
\* that is terminated or by a SIGINT before the output has been registered.
THEOREM NothingIsHalf == Spec => []NothingHalf
  <1>1. CliInv => NothingHalf
    BY DEF CliInv, WholeInv, Partial, Unfinished, Spoiled, There, Whole, NothingHalf
  <1> QED
    BY <1>1, CliInvariant, PTL
===============================================================================
