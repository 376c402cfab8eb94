---------------------------- MODULE ZipArchiveProofs ----------------------------
(***************************************************************************)
(* That an archive is read back as it was added to, and is never taken for *)
(* a shorter one, for all names, any number of members and all failures.   *)
(*                                                                         *)
(* The directory says where the members are, and it is only written at the *)
(* end: NeverHalf and ReadsBack follow from what stands in the file in the *)
(* meantime.  Ending says that nothing in the file ends a directory before *)
(* the writer has finished.  Where no write has stopped midway, Clean says *)
(* that the writer counts right and that the data of all entries are in    *)
(* the file.  Where one has, its counter is behind the file for good, and  *)
(* TornEarly says that no directory it leads to can be read without what   *)
(* that write has left: an archive opened to append to does not lose it.   *)
(***************************************************************************)
EXTENDS ZipArchive, TLAPS

NameSet == Names \cup {"none"}

Unit ==
  [kind : {"local"}, name : NameSet, empty : BOOLEAN] \cup [kind : {"data"}, name : NameSet]
    \cup [kind : {"central"}, entry : Entries] \cup [kind : {"end"}, count : Nat, at : Nat]
    \cup {Torn}

Types ==
  /\ disk \in Seq(Unit) /\ entries \in Seq(Entries) /\ member \in Entries
  /\ finished \in BOOLEAN /\ dropped \in BOOLEAN
  /\ pc \in {"none", "idle", "header", "payload", "directory", "end"}

Places ==
  /\ pos \in Nat /\ offset \in 0 .. pos /\ cdOffset \in Nat
  /\ pc # "none" => pos = Len(disk)
  /\ pc = "directory" => cdOffset = offset
  /\ pc = "end" => cdOffset + Len(entries) = offset

Ending ==
  /\ finished => /\ pc \in {"none", "idle"} /\ cdOffset < Len(disk)
                 /\ disk[Len(disk)] = End(Len(entries), cdOffset)
  /\ \A p \in 1 .. Len(disk) : disk[p].kind = "end" => finished /\ p = Len(disk)

\* Where the directory begins or would begin, as the writer counts.
DirStart == IF pc = "end" \/ finished THEN cdOffset ELSE offset

\* The local header and the data of an entry are in the file before n.
Whole(e, n) == Present(disk, e) /\ e.at + (IF e.empty THEN 1 ELSE 2) <= n

Clean ==
  /\ offset = Len(disk)
  /\ \A i \in 1 .. Len(entries) : Whole(entries[i], DirStart)
  /\ pc = "header" => member.at = offset
  /\ pc = "payload" => ~member.empty /\ member.at + 1 = offset /\ disk[offset].kind = "local"
  /\ pc = "end" \/ finished => \A i \in 1 .. Len(entries) : disk[cdOffset + i] = Central(entries[i])
  /\ finished => cdOffset + Len(entries) + 1 = Len(disk)

HasTorn == \E q \in 1 .. Len(disk) : disk[q] = Torn

\* As many entries of a directory would not fit in front of it.
Span == IF Len(entries) = 0 THEN 1 ELSE Len(entries)
TornEarly == \E q \in 1 .. Len(disk) : disk[q] = Torn /\ q <= DirStart + Span

\* There is a writer, or an archive that one has finished.
Live == pc # "none" \/ finished

Contents == Live => added = NamesOf(entries) /\ IF HasTorn THEN TornEarly ELSE Clean

ZipInv == Types /\ Places /\ Ending /\ Contents

-------------------------------------------------------------------------------
(* Units and files. *)

\* What kind a unit is tells what it holds.
LEMMA UnitKinds ==
  ASSUME NEW u \in Unit
  PROVE  /\ u.kind \in {"local", "data", "central", "end", "torn"}
         /\ u.kind = "torn" <=> u = Torn
         /\ u.kind = "central" => u.entry \in Entries
         /\ u.kind = "end" => u.count \in Nat /\ u.at \in Nat
  BY DEF Unit, Torn

LEMMA UnitsMade ==
  ASSUME NEW e \in Entries
  PROVE  /\ Local(e) \in Unit /\ Local(e).kind = "local"
         /\ Data(e) \in Unit /\ Data(e).kind = "data" /\ Data(e).name = e.name
         /\ Central(e) \in Unit /\ Central(e).kind = "central" /\ Central(e).entry = e
  BY DEF Entries, Unit, NameSet, Local, Data, Central

LEMMA EndMade ==
  ASSUME NEW n \in Nat, NEW at \in Nat
  PROVE  /\ End(n, at) \in Unit /\ End(n, at).kind = "end"
         /\ End(n, at).count = n /\ End(n, at).at = at
  BY DEF Unit, End

LEMMA TornMade == Torn \in Unit /\ Torn.kind = "torn"
  BY DEF Unit, Torn

LEMMA EntryMade ==
  ASSUME NEW name \in NameSet, NEW empty \in BOOLEAN, NEW at \in Nat
  PROVE  /\ Entry(name, empty, at) \in Entries /\ Entry(name, empty, at).at = at
         /\ Entry(name, empty, at).empty = empty
  BY DEF Entries, NameSet, Entry

LEMMA EntryFields ==
  ASSUME NEW e \in Entries
  PROVE  /\ e.name \in NameSet /\ e.at \in Nat
         /\ e.at + (IF e.empty THEN 1 ELSE 2) \in Nat
  <1>1. e.name \in NameSet /\ e.at \in Nat
    BY DEF Entries, NameSet
  <1> QED BY <1>1

\* A file that begins with another one.
Extends(g, f) == Len(f) <= Len(g) /\ \A i \in 1 .. Len(f) : g[i] = f[i]

\* The writer stands at the end of the file: a write appends (zip.cpp:183-205).
LEMMA PutAppends ==
  ASSUME Types, Places, pc # "none", NEW units \in Seq(Unit), Put(units)
  PROVE  /\ disk' \in Seq(Unit) /\ Len(disk') = Len(disk) + Len(units) /\ Extends(disk', disk)
         /\ \A i \in 1 .. Len(units) : disk'[Len(disk) + i] = units[i]
         /\ pos' = pos + Len(units)
  <1>1. pos = Len(disk) /\ disk \in Seq(Unit) /\ Len(disk) \in Nat /\ Len(units) \in Nat
    BY DEF Types, Places
  <1> DEFINE tail == SubSeq(disk, pos + Len(units) + 1, Len(disk))
             front == SubSeq(disk, 1, pos)
  <1>2. front = disk
    BY <1>1
  <1>3. tail = <<>>
    <2>1. Len(tail) = 0 /\ tail \in Seq(Unit)
      BY <1>1
    <2> QED BY <2>1
  <1>4. disk' = (disk \o units) \o tail
    BY <1>2 DEF Put
  <1>5. disk' = disk \o units
    <2>1. disk \o units \in Seq(Unit)
      BY <1>1
    <2>2. \A s \in Seq(Unit) : s \o <<>> = s
      OBVIOUS
    <2> HIDE DEF tail
    <2> QED BY <1>3, <1>4, <2>1, <2>2
  <1>6. \A i \in 1 .. Len(units) : Len(disk) + i \in 1 .. Len(disk) + Len(units) /\ Len(disk) + i > Len(disk)
    BY <1>1
  <1> HIDE DEF tail, front
  <1>7. /\ disk' \in Seq(Unit) /\ Len(disk') = Len(disk) + Len(units)
        /\ \A i \in 1 .. Len(disk) : disk'[i] = disk[i]
        /\ \A i \in 1 .. Len(units) : disk'[Len(disk) + i] = units[i]
    BY <1>1, <1>5, <1>6
  <1>8. pos' = pos + Len(units)
    BY DEF Put
  <1> QED BY <1>1, <1>7, <1>8 DEF Extends

\* A member stays where it is while the file before n does.
LEMMA PresentKept ==
  ASSUME NEW f, NEW g, NEW n \in Nat, Len(f) \in Nat, Len(g) \in Nat, n <= Len(f), n <= Len(g),
         \A i \in 1 .. n : g[i] = f[i],
         NEW e \in Entries, Present(f, e), e.at + (IF e.empty THEN 1 ELSE 2) <= n
  PROVE  Present(g, e)
  <1>1. e.at \in Nat /\ e.empty \in BOOLEAN
    BY DEF Entries
  <1>2. e.at + 1 \in 1 .. n
    BY <1>1
  <1>3. KindAt(g, e.at + 1) = KindAt(f, e.at + 1)
    BY <1>2 DEF KindAt
  <1>4. CASE e.empty
    BY <1>3, <1>4 DEF Present
  <1>5. CASE ~e.empty
    <2>1. e.at + 2 \in 1 .. n
      BY <1>1, <1>5
    <2>2. KindAt(g, e.at + 2) = KindAt(f, e.at + 2) /\ g[e.at + 2] = f[e.at + 2]
      BY <2>1 DEF KindAt
    <2> QED BY <1>3, <1>5, <2>2 DEF Present
  <1> QED BY <1>4, <1>5

-------------------------------------------------------------------------------
(* What a write keeps. *)

\* The entries' members are still there behind a write.
LEMMA WholeKept ==
  ASSUME Types, NEW n \in Nat, n <= Len(disk), disk' \in Seq(Unit), Extends(disk', disk),
         NEW e \in Entries, Whole(e, n)
  PROVE  Whole(e, n)'
  <1>1. Len(disk) \in Nat /\ Len(disk') \in Nat /\ n <= Len(disk')
    BY DEF Types, Extends
  <1>2. \A i \in 1 .. n : disk'[i] = disk[i]
    BY <1>1 DEF Extends
  <1>3. Present(disk, e) /\ e.at + (IF e.empty THEN 1 ELSE 2) <= n
    BY DEF Whole
  <1>4. Present(disk', e)
    BY <1>1, <1>2, <1>3, PresentKept
  <1> QED BY <1>3, <1>4 DEF Whole

\* A torn unit is not written over.
LEMMA TornStays ==
  ASSUME Types, Extends(disk', disk), disk' \in Seq(Unit), HasTorn
  PROVE  HasTorn'
  <1>1. PICK q \in 1 .. Len(disk) : disk[q] = Torn
    BY DEF HasTorn
  <1>2. q \in 1 .. Len(disk') /\ disk'[q] = Torn
    <2>1. Len(disk) \in Nat /\ Len(disk') \in Nat
      BY DEF Types
    <2> QED BY <1>1, <2>1 DEF Extends
  <1> QED BY <1>2 DEF HasTorn

LEMMA StartsAreNat ==
  ASSUME Types, Places
  PROVE  DirStart \in Nat /\ Span \in Nat \ {0} /\ DirStart + Span \in Nat
  <1>1. offset \in Nat /\ cdOffset \in Nat /\ Len(entries) \in Nat
    BY DEF Types, Places
  <1>2. DirStart \in Nat
    BY <1>1 DEF DirStart
  <1>3. Span \in Nat \ {0}
    BY <1>1 DEF Span
  <1> QED BY <1>2, <1>3

LEMMA TornEarlyStays ==
  ASSUME Types, Places, Extends(disk', disk), disk' \in Seq(Unit), TornEarly,
         DirStart' + Span' \in Nat, DirStart + Span <= DirStart' + Span'
  PROVE  TornEarly'
  <1>1. PICK q \in 1 .. Len(disk) : disk[q] = Torn /\ q <= DirStart + Span
    BY DEF TornEarly
  <1>2. Len(disk) \in Nat /\ Len(disk') \in Nat
    BY DEF Types
  <1>3. q \in 1 .. Len(disk') /\ disk'[q] = Torn
    BY <1>1, <1>2 DEF Extends
  <1>4. DirStart + Span \in Nat
    BY StartsAreNat
  <1>5. q <= DirStart' + Span'
    BY <1>1, <1>4
  <1> QED BY <1>3, <1>5 DEF TornEarly

\* Nothing but a torn unit makes a file one with a torn unit.
LEMMA TornNew ==
  ASSUME Types, NEW units \in Seq(Unit), \A i \in 1 .. Len(units) : units[i].kind # "torn",
         disk' \in Seq(Unit), Len(disk') = Len(disk) + Len(units), Extends(disk', disk),
         \A i \in 1 .. Len(units) : disk'[Len(disk) + i] = units[i],
         HasTorn'
  PROVE  HasTorn
  <1>1. PICK q \in 1 .. Len(disk') : disk'[q] = Torn
    BY DEF HasTorn
  <1>2. Len(disk) \in Nat /\ Len(units) \in Nat
    BY DEF Types
  <1>3. CASE q <= Len(disk)
    BY <1>1, <1>2, <1>3 DEF HasTorn, Extends
  <1>4. CASE q > Len(disk)
    <2> DEFINE i == q - Len(disk)
    <2>1. i \in 1 .. Len(units) /\ Len(disk) + i = q
      BY <1>1, <1>2, <1>4
    <2>2. units[i] = Torn
      BY <1>1, <2>1
    <2> QED BY <2>1, <2>2, TornMade
  <1> QED BY <1>1, <1>2, <1>3, <1>4

\* No unit ends a directory in a file that is being written.
LEMMA NoEndNew ==
  ASSUME Types, Ending, ~finished, NEW units \in Seq(Unit),
         \A i \in 1 .. Len(units) : units[i].kind # "end",
         disk' \in Seq(Unit), Len(disk') = Len(disk) + Len(units), Extends(disk', disk),
         \A i \in 1 .. Len(units) : disk'[Len(disk) + i] = units[i],
         NEW p \in 1 .. Len(disk')
  PROVE  disk'[p].kind # "end"
  <1>1. Len(disk) \in Nat /\ Len(units) \in Nat
    BY DEF Types
  <1>2. CASE p <= Len(disk)
    BY <1>1, <1>2 DEF Ending, Extends
  <1>3. CASE p > Len(disk)
    <2> DEFINE i == p - Len(disk)
    <2>1. i \in 1 .. Len(units) /\ Len(disk) + i = p
      BY <1>1, <1>3
    <2> QED BY <2>1
  <1> QED BY <1>1, <1>2, <1>3

-------------------------------------------------------------------------------
(* Opening. *)

\* Only a finished archive has a directory, and it is the one that was written
\* last (zip.cpp:502-504).
LEMMA OneDirectory ==
  ASSUME ZipInv, Ends(disk) # {}
  PROVE  /\ finished /\ Ends(disk) = {Len(disk)} /\ LastEnd(disk) = Len(disk)
         /\ disk[LastEnd(disk)].count = Len(entries) /\ disk[LastEnd(disk)].at = cdOffset
         /\ cdOffset \in Nat /\ cdOffset < Len(disk) /\ Len(entries) \in Nat /\ Len(disk) \in Nat
  <1>1. Len(disk) \in Nat /\ Len(entries) \in Nat /\ cdOffset \in Nat
    BY DEF ZipInv, Types, Places
  <1>2. PICK p \in 1 .. Len(disk) : disk[p].kind = "end"
    BY DEF Ends
  <1>3. finished /\ p = Len(disk)
    BY <1>2 DEF ZipInv, Ending
  <1>4. Ends(disk) = {Len(disk)}
    BY <1>2, <1>3 DEF Ends, ZipInv, Ending
  <1>5. LastEnd(disk) = Len(disk)
    BY <1>1, <1>4 DEF LastEnd
  <1>6. disk[Len(disk)] = End(Len(entries), cdOffset) /\ cdOffset < Len(disk)
    BY <1>3 DEF ZipInv, Ending
  <1> QED BY <1>1, <1>3, <1>4, <1>5, <1>6, EndMade

\* What an archive that can be opened lists are entries.
LEMMA DirectoryTypes ==
  ASSUME ZipInv, Listed(disk)
  PROVE  /\ Directory(disk) \in Seq(Entries) /\ Len(Directory(disk)) = Len(entries)
         /\ DOMAIN Directory(disk) = 1 .. Len(entries)
         /\ \A i \in 1 .. Len(entries) :
              /\ cdOffset + i \in 1 .. Len(disk) /\ disk[cdOffset + i].kind = "central"
              /\ Directory(disk)[i] = disk[cdOffset + i].entry
  <1>1. /\ finished /\ disk[LastEnd(disk)].count = Len(entries) /\ disk[LastEnd(disk)].at = cdOffset
        /\ Len(entries) \in Nat /\ Len(disk) \in Nat /\ cdOffset \in Nat
    BY OneDirectory DEF Listed
  <1>2. \A i \in 1 .. Len(entries) : KindAt(disk, cdOffset + i) = "central"
    BY <1>1 DEF Listed
  <1>3. \A i \in 1 .. Len(entries) : cdOffset + i \in 1 .. Len(disk) /\ disk[cdOffset + i].kind = "central"
    BY <1>2 DEF KindAt
  <1>4. Directory(disk) = [i \in 1 .. Len(entries) |-> disk[cdOffset + i].entry]
    BY <1>1 DEF Directory
  <1>5. \A i \in 1 .. Len(entries) : disk[cdOffset + i].entry \in Entries
    <2>1. \A p \in 1 .. Len(disk) : disk[p] \in Unit
      BY DEF ZipInv, Types
    <2> QED BY <1>3, <2>1, UnitKinds
  <1>6. Directory(disk) \in Seq(Entries) /\ Len(Directory(disk)) = Len(entries)
    BY <1>1, <1>4, <1>5
  <1> QED BY <1>3, <1>4, <1>6

\* A file that is cut off before its directory.
LEMMA CutOff ==
  ASSUME ZipInv, Listed(disk), disk' = SubSeq(disk, 1, cdOffset)
  PROVE  /\ disk' \in Seq(Unit) /\ Len(disk') = cdOffset
         /\ \A p \in 1 .. cdOffset : disk'[p] = disk[p] /\ disk'[p].kind # "end"
  <1>1. cdOffset \in Nat /\ cdOffset < Len(disk) /\ Len(disk) \in Nat /\ disk \in Seq(Unit)
    BY OneDirectory DEF Listed, ZipInv, Types
  <1>2. /\ disk' \in Seq(Unit) /\ Len(disk') = cdOffset
        /\ \A p \in 1 .. cdOffset : disk'[p] = disk[p]
    BY <1>1
  <1>3. ASSUME NEW p \in 1 .. cdOffset PROVE disk[p].kind # "end"
    BY <1>1, <1>3 DEF ZipInv, Ending
  <1> QED BY <1>2, <1>3

LEMMA NoNames == NamesOf(<<>>) = <<>>
  BY DEF NamesOf

LEMMA CreateStep == ZipInv /\ Create => ZipInv'
  <1> SUFFICES ASSUME ZipInv, Create PROVE ZipInv'
    OBVIOUS
  <1>1. /\ disk' = <<>> /\ pos' = 0 /\ offset' = 0 /\ entries' = <<>> /\ finished' = FALSE
        /\ added' = <<>> /\ pc' = "idle" /\ member' = member /\ cdOffset' = cdOffset /\ dropped' = dropped
    BY DEF Create
  <1>2. Types'
    <2>1. disk' \in Seq(Unit)
      BY <1>1
    <2>2. entries' \in Seq(Entries)
      BY <1>1
    <2> QED BY <1>1, <2>1, <2>2 DEF ZipInv, Types
  <1>3. Places' /\ Ending'
    BY <1>1 DEF ZipInv, Places, Ending
  <1>4. ~HasTorn' /\ Clean'
    BY <1>1 DEF HasTorn, Clean
  <1> QED BY <1>1, <1>2, <1>3, <1>4, NoNames DEF ZipInv, Contents

LEMMA OpenAppendStep == ZipInv /\ OpenAppend => ZipInv'
  <1> SUFFICES ASSUME ZipInv, OpenAppend PROVE ZipInv'
    OBVIOUS
  <1> DEFINE n == Len(entries)
  <1>1. /\ pc = "none" /\ Listed(disk) /\ finished
        /\ cdOffset \in Nat /\ cdOffset < Len(disk) /\ n \in Nat /\ Len(disk) \in Nat
        /\ disk[LastEnd(disk)].at = cdOffset
    BY OneDirectory DEF OpenAppend, Listed
  <1>2. /\ disk' = SubSeq(disk, 1, cdOffset) /\ pos' = cdOffset /\ offset' = cdOffset
        /\ entries' = Directory(disk) /\ finished' = FALSE /\ pc' = "idle"
        /\ added' = NamesOf(entries') /\ member' = member /\ cdOffset' = cdOffset /\ dropped' = dropped
    BY <1>1 DEF OpenAppend, Resume
  <1>3. /\ disk' \in Seq(Unit) /\ Len(disk') = cdOffset
        /\ \A p \in 1 .. cdOffset : disk'[p] = disk[p] /\ disk'[p].kind # "end"
    BY <1>1, <1>2, CutOff
  <1>4. /\ entries' \in Seq(Entries) /\ Len(entries') = n
        /\ \A i \in 1 .. n : /\ cdOffset + i \in 1 .. Len(disk) /\ disk[cdOffset + i].kind = "central"
                             /\ entries'[i] = disk[cdOffset + i].entry
    BY <1>1, <1>2, DirectoryTypes
  <1>5. Types'
    BY <1>2, <1>3, <1>4 DEF ZipInv, Types
  <1>6. Places' /\ Ending'
    BY <1>1, <1>2, <1>3 DEF Places, Ending
  <1>7. Live /\ DirStart = cdOffset /\ DirStart' = cdOffset
    BY <1>1, <1>2 DEF Live, DirStart
  <1>8. CASE HasTorn /\ n # 0
    <2>1. PICK q \in 1 .. Len(disk) : disk[q] = Torn /\ q <= cdOffset + n
      BY <1>1, <1>7, <1>8 DEF ZipInv, Contents, TornEarly, Span
    <2>2. q <= cdOffset
      <3>1. SUFFICES ASSUME q > cdOffset PROVE FALSE
        BY <1>1
      <3> DEFINE i == q - cdOffset
      <3>2. i \in 1 .. n /\ cdOffset + i = q
        BY <1>1, <2>1, <3>1
      <3>3. disk[q].kind = "central"
        BY <1>4, <3>2
      <3> QED BY <2>1, <3>3, TornMade
    <2>3. q \in 1 .. Len(disk') /\ disk'[q] = Torn
      BY <1>3, <2>1, <2>2
    <2>4. HasTorn'
      BY <2>3 DEF HasTorn
    <2>5. q <= DirStart' + Span'
      BY <1>1, <1>4, <1>7, <2>2 DEF Span
    <2>6. TornEarly'
      BY <2>3, <2>5 DEF TornEarly
    <2> QED BY <1>2, <1>5, <1>6, <2>4, <2>6 DEF ZipInv, Contents
  <1>9. CASE HasTorn /\ n = 0
    <2>1. HasTorn' => TornEarly'
      <3> SUFFICES ASSUME HasTorn' PROVE TornEarly'
        OBVIOUS
      <3>1. PICK q \in 1 .. Len(disk') : disk'[q] = Torn
        BY DEF HasTorn
      <3>2. q <= DirStart' + Span'
        BY <1>1, <1>3, <1>4, <1>7, <1>9 DEF Span
      <3> QED BY <3>1, <3>2 DEF TornEarly
    <2>2. Clean'
      BY <1>2, <1>3, <1>4, <1>9 DEF Clean
    <2> QED BY <1>2, <1>5, <1>6, <2>1, <2>2 DEF ZipInv, Contents
  <1>10. CASE ~HasTorn
    <2>1. Clean
      BY <1>7, <1>10 DEF ZipInv, Contents
    <2>2. \A i \in 1 .. n : entries'[i] = entries[i]
      <3>1. \A i \in 1 .. n : disk[cdOffset + i] = Central(entries[i]) /\ entries[i] \in Entries
        BY <1>1, <2>1 DEF Clean, ZipInv, Types
      <3> QED BY <1>4, <3>1, UnitsMade
    <2>3. ASSUME NEW i \in 1 .. n PROVE Whole(entries[i], cdOffset)'
      <3>1. entries[i] \in Entries /\ entries'[i] = entries[i]
        BY <2>2 DEF ZipInv, Types
      <3>2. /\ Present(disk, entries[i])
            /\ entries[i].at + (IF entries[i].empty THEN 1 ELSE 2) <= cdOffset
        BY <1>7, <2>1 DEF Clean, Whole
      <3>3. Present(disk', entries[i])
        <4>1. PICK e \in Entries : e = entries[i]
          BY <3>1
        <4>2. cdOffset <= Len(disk) /\ Len(disk') \in Nat
          BY <1>1, <1>3
        <4>3. \A p \in 1 .. cdOffset : disk'[p] = disk[p]
          BY <1>3
        <4>4. Present(disk, e) /\ e.at + (IF e.empty THEN 1 ELSE 2) <= cdOffset
          BY <3>2, <4>1
        <4>5. Len(disk) \in Nat /\ cdOffset \in Nat /\ cdOffset <= Len(disk')
          BY <1>1, <1>3
        <4>6. Present(disk', e)
          BY <4>2, <4>3, <4>4, <4>5, PresentKept
        <4> QED BY <4>1, <4>6
      <3> QED BY <1>2, <3>1, <3>2, <3>3 DEF Whole
    <2>4. Clean'
      BY <1>2, <1>3, <1>4, <1>7, <2>3 DEF Clean
    <2>5. ~HasTorn'
      BY <1>1, <1>3, <1>10 DEF HasTorn
    <2> QED BY <1>2, <1>5, <1>6, <2>4, <2>5 DEF ZipInv, Contents
  <1> QED BY <1>8, <1>9, <1>10

LEMMA SeekFailsStep == ZipInv /\ SeekFails => ZipInv'
  <1> SUFFICES ASSUME ZipInv, SeekFails PROVE ZipInv'
    OBVIOUS
  <1>1. /\ pc = "none" /\ Listed(disk) /\ cdOffset \in Nat
        /\ disk[LastEnd(disk)].at = cdOffset
    BY OneDirectory DEF SeekFails, Listed
  <1>2. /\ disk' = SubSeq(disk, 1, cdOffset) /\ finished' = FALSE /\ pc' = "none"
        /\ pos' = pos /\ offset' = offset /\ entries' = entries
        /\ member' = member /\ cdOffset' = cdOffset /\ dropped' = dropped
    BY <1>1 DEF SeekFails
  <1>3. /\ disk' \in Seq(Unit) /\ Len(disk') = cdOffset
        /\ \A p \in 1 .. cdOffset : disk'[p].kind # "end"
    BY <1>1, <1>2, CutOff
  <1>4. Types'
    BY <1>2, <1>3 DEF ZipInv, Types
  <1>5. Places'
    BY <1>2 DEF ZipInv, Places
  <1>6. Ending'
    BY <1>2, <1>3 DEF Ending
  <1> QED BY <1>2, <1>4, <1>5, <1>6 DEF ZipInv, Contents, Live

-------------------------------------------------------------------------------
(* Writing. *)

\* A write that fails, or stops midway, of no more units than TornEarly allows for
\* (zip.cpp:183-205).
LEMMA FailStep ==
  ASSUME ZipInv, pc # "none", ~finished, NEW units \in Seq(Unit), Len(units) <= Span,
         \A i \in 1 .. Len(units) - 1 : units[i].kind # "end",
         WriteFails(units), pc' \in {"none", "idle"}
  PROVE  ZipInv'
  <1>1. /\ offset' = offset /\ entries' = entries /\ finished' = FALSE /\ member' = member
        /\ cdOffset' = cdOffset /\ dropped' = dropped /\ added' = added
    BY DEF WriteFails, ZipInv, Types
  <1>2. /\ Len(disk) \in Nat /\ Len(units) \in Nat /\ Len(entries) \in Nat /\ pos = Len(disk)
        /\ offset \in Nat /\ offset <= pos /\ cdOffset \in Nat
    BY DEF ZipInv, Types, Places
  <1>3. /\ DirStart' = offset /\ DirStart <= offset /\ DirStart \in Nat
        /\ Span \in Nat \ {0} /\ Span' = Span
    <2>1. DirStart' = offset
      BY <1>1 DEF DirStart
    <2>2. DirStart <= offset
      BY <1>2 DEF DirStart, ZipInv, Places
    <2>3. DirStart \in Nat /\ Span \in Nat \ {0}
      BY StartsAreNat DEF ZipInv
    <2> QED BY <1>1, <2>1, <2>2, <2>3 DEF Span
  <1>4. Live /\ added = NamesOf(entries)
    BY DEF Live, ZipInv, Contents
  <1>5. CASE disk' = disk /\ pos' = pos
    <2>1. Types'
      BY <1>1, <1>5 DEF ZipInv, Types
    <2>2. Places' /\ Ending'
      BY <1>1, <1>5 DEF ZipInv, Places, Ending
    <2>3. disk \in Seq(Unit) /\ Extends(disk', disk) /\ disk' \in Seq(Unit)
      BY <1>5, <1>2 DEF ZipInv, Types, Extends
    <2>4. HasTorn' <=> HasTorn
      BY <1>5 DEF HasTorn
    <2>5. HasTorn => TornEarly'
      <3>1. DirStart' + Span' \in Nat /\ DirStart + Span <= DirStart' + Span'
        BY <1>2, <1>3
      <3> QED BY <1>4, <2>3, <3>1, TornEarlyStays DEF ZipInv, Contents
    <2>6. ~HasTorn => Clean'
      <3> SUFFICES ASSUME ~HasTorn PROVE Clean'
        OBVIOUS
      <3>1. Clean
        BY <1>4 DEF ZipInv, Contents
      <3>2. ASSUME NEW i \in 1 .. Len(entries) PROVE Whole(entries[i], offset)
        <4>1. Whole(entries[i], DirStart) /\ entries[i] \in Entries
          BY <3>1 DEF Clean, ZipInv, Types
        <4>2. entries[i].at + (IF entries[i].empty THEN 1 ELSE 2) \in Nat
          BY <4>1 DEF Entries
        <4> QED BY <1>2, <1>3, <4>1, <4>2 DEF Whole
      <3>3. \A i \in 1 .. Len(entries') : Whole(entries[i], DirStart)'
        BY <1>1, <1>3, <1>5, <3>2 DEF Whole
      <3> QED BY <1>1, <1>5, <3>1, <3>3 DEF Clean
    <2> QED BY <1>1, <1>4, <2>1, <2>2, <2>4, <2>5, <2>6 DEF ZipInv, Contents
  <1>6. CASE \E n \in 0 .. Len(units) - 1 : Put(Append(SubSeq(units, 1, n), Torn))
    <2>1. PICK n \in 0 .. Len(units) - 1 : Put(Append(SubSeq(units, 1, n), Torn))
      BY <1>6
    <2> DEFINE part == Append(SubSeq(units, 1, n), Torn)
    <2>2. /\ part \in Seq(Unit) /\ Len(part) = n + 1 /\ part[n + 1] = Torn
          /\ \A i \in 1 .. n : part[i] = units[i]
      <3>1. SubSeq(units, 1, n) \in Seq(Unit) /\ Len(SubSeq(units, 1, n)) = n
            /\ \A i \in 1 .. n : SubSeq(units, 1, n)[i] = units[i]
        BY <1>2
      <3> QED BY <3>1, TornMade
    <2> HIDE DEF part
    <2>3. /\ disk' \in Seq(Unit) /\ Len(disk') = Len(disk) + Len(part) /\ Extends(disk', disk)
          /\ \A i \in 1 .. Len(part) : disk'[Len(disk) + i] = part[i]
          /\ pos' = pos + Len(part)
      BY <2>1, <2>2, PutAppends DEF ZipInv, part
    <2>4. \A i \in 1 .. Len(part) : part[i].kind # "end"
      BY <2>2, <1>2, TornMade
    <2>5. Types'
      BY <1>1, <2>3 DEF ZipInv, Types
    <2>6. Places'
      BY <1>1, <1>2, <2>2, <2>3 DEF Places
    <2>7. Ending'
      BY <1>1, <2>2, <2>3, <2>4, NoEndNew DEF ZipInv, Ending
    <2> DEFINE q == Len(disk) + n + 1
    <2>8. q \in 1 .. Len(disk') /\ disk'[q] = Torn
      <3>1. n + 1 \in 1 .. Len(part) /\ q = Len(disk) + (n + 1)
        BY <1>2, <2>2
      <3> QED BY <1>2, <2>2, <2>3, <3>1
    <2>9. HasTorn'
      BY <2>8 DEF HasTorn
    <2>10. CASE HasTorn
      <3>1. DirStart' + Span' \in Nat /\ DirStart + Span <= DirStart' + Span'
        BY <1>2, <1>3
      <3>2. TornEarly'
        BY <1>4, <2>3, <2>10, <3>1, TornEarlyStays DEF ZipInv, Contents
      <3> QED BY <1>1, <1>4, <2>5, <2>6, <2>7, <2>9, <3>2 DEF ZipInv, Contents
    <2>11. CASE ~HasTorn
      <3>1. offset = Len(disk)
        BY <1>4, <2>11 DEF ZipInv, Contents, Clean
      <3>2. q <= DirStart' + Span'
        BY <1>2, <1>3, <3>1
      <3>3. TornEarly'
        BY <2>8, <3>2 DEF TornEarly
      <3> QED BY <1>1, <1>4, <2>5, <2>6, <2>7, <2>9, <3>3 DEF ZipInv, Contents
    <2> QED BY <2>10, <2>11
  <1> QED BY <1>5, <1>6 DEF WriteFails

\* What a write leaves that does not fail.
LEMMA WriteKeeps ==
  ASSUME ZipInv, pc # "none", ~finished, NEW units \in Seq(Unit),
         \A i \in 1 .. Len(units) : units[i].kind # "torn", Write(units)
  PROVE  /\ Len(disk) \in Nat /\ Len(units) \in Nat /\ offset \in Nat /\ Live /\ pos = Len(disk)
         /\ disk' \in Seq(Unit) /\ Len(disk') = Len(disk) + Len(units) /\ Extends(disk', disk)
         /\ \A i \in 1 .. Len(units) : disk'[Len(disk) + i] = units[i]
         /\ pos' = pos + Len(units) /\ offset' = offset + Len(units) /\ offset' \in 0 .. pos'
         /\ HasTorn' <=> HasTorn
         /\ ~HasTorn => /\ Clean /\ offset' = Len(disk')
                        /\ \A i \in 1 .. Len(entries) :
                             /\ Present(disk', entries[i])
                             /\ entries[i].at + (IF entries[i].empty THEN 1 ELSE 2) <= DirStart
  <1>1. Len(disk) \in Nat /\ Len(units) \in Nat /\ offset \in Nat /\ Live /\ pos = Len(disk) /\ offset <= pos
    BY DEF ZipInv, Types, Places, Live
  <1>2. /\ disk' \in Seq(Unit) /\ Len(disk') = Len(disk) + Len(units) /\ Extends(disk', disk)
        /\ \A i \in 1 .. Len(units) : disk'[Len(disk) + i] = units[i]
        /\ pos' = pos + Len(units)
    BY PutAppends DEF ZipInv, Write
  <1>3. offset' = offset + Len(units) /\ offset' \in 0 .. pos'
    <2>1. offset' = offset + Len(units)
      BY DEF Write
    <2> QED BY <1>1, <1>2, <2>1
  <1>4. HasTorn' <=> HasTorn
    BY <1>2, TornStays, TornNew DEF ZipInv
  <1>5. ASSUME ~HasTorn
        PROVE  /\ Clean /\ offset' = Len(disk')
               /\ \A i \in 1 .. Len(entries) :
                    /\ Present(disk', entries[i])
                    /\ entries[i].at + (IF entries[i].empty THEN 1 ELSE 2) <= DirStart
    <2>1. Clean
      BY <1>1, <1>5 DEF ZipInv, Contents
    <2>2. offset' = Len(disk')
      BY <1>1, <1>2, <1>3, <2>1 DEF Clean
    <2>3. ASSUME NEW i \in 1 .. Len(entries)
          PROVE  /\ Present(disk', entries[i])
                 /\ entries[i].at + (IF entries[i].empty THEN 1 ELSE 2) <= DirStart
      <3>1. PICK e \in Entries : e = entries[i]
        BY DEF ZipInv, Types
      <3>2. Whole(e, DirStart)
        BY <2>1, <3>1 DEF Clean
      <3>3. PICK n \in Nat : n = DirStart /\ n <= Len(disk)
        <4>1. DirStart \in Nat /\ DirStart <= offset
          BY StartsAreNat, <1>1 DEF ZipInv, DirStart, Places
        <4> QED BY <1>1, <4>1
      <3>4. Present(disk, e) /\ e.at + (IF e.empty THEN 1 ELSE 2) <= n
        BY <3>2, <3>3 DEF Whole
      <3>5. Len(disk') \in Nat /\ n <= Len(disk') /\ \A k \in 1 .. n : disk'[k] = disk[k]
        BY <1>1, <1>2, <3>3 DEF Extends
      <3>6. Present(disk', e)
        BY <1>1, <3>3, <3>4, <3>5, PresentKept
      <3> QED BY <3>1, <3>3, <3>4, <3>6
    <2> QED BY <2>1, <2>2, <2>3
  <1> QED BY <1>1, <1>2, <1>3, <1>4, <1>5

LEMMA WriteOneKeeps ==
  ASSUME ZipInv, pc # "none", ~finished, NEW u \in Unit, u.kind # "torn", Write(<<u>>)
  PROVE  /\ Len(disk) \in Nat /\ offset \in Nat /\ pos = Len(disk)
         /\ disk' \in Seq(Unit) /\ Len(disk') = Len(disk) + 1 /\ Extends(disk', disk)
         /\ disk'[Len(disk) + 1] = u
         /\ pos' = pos + 1 /\ offset' = offset + 1 /\ offset' \in 0 .. pos'
         /\ HasTorn' <=> HasTorn
         /\ ~HasTorn => /\ Clean /\ offset' = Len(disk')
                        /\ \A i \in 1 .. Len(entries) :
                             /\ Present(disk', entries[i])
                             /\ entries[i].at + (IF entries[i].empty THEN 1 ELSE 2) <= DirStart
         /\ u.kind # "end" => \A p \in 1 .. Len(disk') : disk'[p].kind # "end"
  <1> DEFINE units == <<u>>
  <1>1. units \in Seq(Unit) /\ Len(units) = 1 /\ units[1] = u
    OBVIOUS
  <1>2. \A i \in 1 .. Len(units) : units[i].kind # "torn"
    BY <1>1
  <1>3. Write(units)
    OBVIOUS
  <1> HIDE DEF units
  <1>4. /\ Len(disk) \in Nat /\ offset \in Nat /\ pos = Len(disk)
        /\ disk' \in Seq(Unit) /\ Len(disk') = Len(disk) + Len(units) /\ Extends(disk', disk)
        /\ \A i \in 1 .. Len(units) : disk'[Len(disk) + i] = units[i]
        /\ pos' = pos + Len(units) /\ offset' = offset + Len(units) /\ offset' \in 0 .. pos'
    BY <1>1, <1>2, <1>3, WriteKeeps
  <1>5. /\ HasTorn' <=> HasTorn
        /\ ~HasTorn => /\ Clean /\ offset' = Len(disk')
                       /\ \A i \in 1 .. Len(entries) :
                            /\ Present(disk', entries[i])
                            /\ entries[i].at + (IF entries[i].empty THEN 1 ELSE 2) <= DirStart
    BY <1>1, <1>2, <1>3, WriteKeeps
  <1>6. u.kind # "end" => \A p \in 1 .. Len(disk') : disk'[p].kind # "end"
    <2> SUFFICES ASSUME u.kind # "end" PROVE \A p \in 1 .. Len(disk') : disk'[p].kind # "end"
      OBVIOUS
    <2>1. \A i \in 1 .. Len(units) : units[i].kind # "end"
      BY <1>1
    <2> QED BY <1>1, <1>4, <2>1, NoEndNew DEF ZipInv
  <1> QED BY <1>1, <1>4, <1>5, <1>6

\* The entry of a complete member is made with its data behind it.
LEMMA RecordedAll ==
  ASSUME ZipInv, pc \in {"header", "payload"}, disk' \in Seq(Unit), ~HasTorn,
         \A i \in 1 .. Len(entries) : /\ Present(disk', entries[i])
                                      /\ entries[i].at + (IF entries[i].empty THEN 1 ELSE 2) <= DirStart,
         offset \in Nat, offset' \in Nat, offset <= offset', finished' = FALSE, pc' # "end",
         \/ entries' = entries
         \/ /\ entries' = Append(entries, member) /\ Present(disk', member)
            /\ member.at + (IF member.empty THEN 1 ELSE 2) <= offset'
  PROVE  \A i \in 1 .. Len(entries') : Whole(entries[i], DirStart)'
  <1>1. ~finished /\ DirStart = offset /\ DirStart' = offset'
    BY DEF ZipInv, Ending, DirStart
  <1>2. entries \in Seq(Entries) /\ Len(entries) \in Nat /\ member \in Entries
    BY DEF ZipInv, Types
  <1>3. ASSUME NEW i \in 1 .. Len(entries)
        PROVE  /\ Present(disk', entries[i])
               /\ entries[i].at + (IF entries[i].empty THEN 1 ELSE 2) <= offset'
    <2>1. entries[i] \in Entries
      BY <1>2
    <2>2. entries[i].at + (IF entries[i].empty THEN 1 ELSE 2) \in Nat
      BY <2>1, EntryFields
    <2> QED BY <1>1, <2>2
  <1>4. CASE entries' = entries
    BY <1>1, <1>3, <1>4 DEF Whole
  <1>5. CASE entries' # entries
    <2>1. entries' = Append(entries, member)
      BY <1>5
    <2>2. /\ Len(entries') = Len(entries) + 1 /\ entries'[Len(entries) + 1] = member
          /\ \A i \in 1 .. Len(entries) : entries'[i] = entries[i]
      BY <1>2, <2>1
    <2>3. ASSUME NEW i \in 1 .. Len(entries') PROVE Whole(entries[i], DirStart)'
      <3>1. CASE i \in 1 .. Len(entries)
        BY <1>1, <1>3, <2>2, <3>1 DEF Whole
      <3>2. CASE i = Len(entries) + 1
        BY <1>1, <1>5, <2>2, <3>2 DEF Whole
      <3> QED BY <1>2, <2>2, <3>1, <3>2
    <2> QED BY <2>3
  <1> QED BY <1>4, <1>5

\* The names of the entries.
LEMMA NameAppended ==
  ASSUME NEW e \in Seq(Entries), NEW m \in Entries
  PROVE  NamesOf(Append(e, m)) = Append(NamesOf(e), m.name)
  <1>1. Len(e) \in Nat /\ Len(Append(e, m)) = Len(e) + 1
    BY DEF NamesOf
  <1>2. NamesOf(e) = [i \in 1 .. Len(e) |-> e[i].name] /\ DOMAIN NamesOf(e) = 1 .. Len(e)
    BY DEF NamesOf
  <1>3. NamesOf(e) \in Seq(NameSet) /\ Len(NamesOf(e)) = Len(e) /\ m.name \in NameSet
    <2>1. \A i \in 1 .. Len(e) : e[i] \in Entries
      OBVIOUS
    <2>2. \A i \in 1 .. Len(e) : e[i].name \in NameSet
      BY <2>1, EntryFields
    <2> QED BY <1>1, <1>2, <2>2, EntryFields
  <1> DEFINE long == Append(NamesOf(e), m.name)
  <1>4. /\ long \in Seq(NameSet) /\ Len(long) = Len(e) + 1 /\ long[Len(e) + 1] = m.name
        /\ \A i \in 1 .. Len(e) : long[i] = e[i].name
    BY <1>1, <1>2, <1>3
  <1>5. /\ Append(e, m)[Len(e) + 1] = m /\ \A i \in 1 .. Len(e) : Append(e, m)[i] = e[i]
    BY <1>1
  <1> HIDE DEF long
  <1>6. \A i \in 1 .. Len(e) + 1 : long[i] = Append(e, m)[i].name
    BY <1>1, <1>4, <1>5
  <1>7. long = [i \in 1 .. Len(e) + 1 |-> Append(e, m)[i].name]
    <2>1. long = [i \in 1 .. Len(e) + 1 |-> long[i]]
      BY <1>4
    <2> QED BY <1>6, <2>1
  <1>8. NamesOf(Append(e, m)) = [i \in 1 .. Len(e) + 1 |-> Append(e, m)[i].name]
    BY <1>1 DEF NamesOf
  <1> QED BY <1>7, <1>8 DEF long

LEMMA AddStep == ZipInv /\ Add => ZipInv'
  <1> SUFFICES ASSUME ZipInv, Add PROVE ZipInv'
    OBVIOUS
  <1>1. /\ pc = "idle" /\ ~finished /\ pc' = "header"
        /\ disk' = disk /\ pos' = pos /\ offset' = offset /\ entries' = entries /\ finished' = finished
        /\ cdOffset' = cdOffset /\ dropped' = dropped /\ added' = added
    BY DEF Add
  <1>2. PICK name \in Names, empty \in BOOLEAN : member' = Entry(name, empty, offset)
    BY DEF Add
  <1>3. member' \in Entries /\ member'.at = offset
    <2>1. offset \in Nat /\ name \in NameSet
      BY DEF ZipInv, Places, NameSet
    <2> QED BY <1>2, <2>1, EntryMade
  <1>4. Types'
    BY <1>1, <1>3 DEF ZipInv, Types
  <1>5. Places' /\ Ending'
    BY <1>1 DEF ZipInv, Places, Ending
  <1>6. DirStart' = DirStart /\ (HasTorn' <=> HasTorn) /\ (TornEarly => TornEarly')
    BY <1>1 DEF DirStart, HasTorn, TornEarly, Span
  <1>7. Clean => Clean'
    <2>1. \A e, n : Whole(e, n)' = Whole(e, n)
      BY <1>1 DEF Whole
    <2> QED BY <1>1, <1>3, <1>6, <2>1 DEF Clean, Whole
  <1> QED BY <1>1, <1>4, <1>5, <1>6, <1>7 DEF ZipInv, Contents, Live

LEMMA WriteHeaderStep == ZipInv /\ WriteHeader => ZipInv'
  <1> SUFFICES ASSUME ZipInv, WriteHeader PROVE ZipInv'
    OBVIOUS
  <1>1. pc = "header" /\ ~finished /\ Live /\ member \in Entries /\ Span \in Nat \ {0}
    BY StartsAreNat DEF WriteHeader, ZipInv, Ending, Types, Live
  <1> DEFINE u == Local(member)
  <1>2. u \in Unit /\ u.kind = "local"
    BY <1>1, UnitsMade
  <1> HIDE DEF u
  <1> DEFINE units == <<u>>
  <1>3. units \in Seq(Unit) /\ Len(units) = 1 /\ units[1] = u
    BY <1>2
  <1>4. CASE WriteFails(units) /\ pc' = "idle"
    <2>1. Len(units) <= Span /\ \A i \in 1 .. Len(units) - 1 : units[i].kind # "end"
      BY <1>1, <1>3
    <2> HIDE DEF units
    <2> QED BY <1>1, <1>3, <1>4, <2>1, FailStep
  <1>5. CASE /\ Write(units) /\ Record
             /\ pc' = IF member.empty THEN "idle" ELSE "payload"
             /\ finished' = finished /\ member' = member /\ cdOffset' = cdOffset /\ dropped' = dropped
    <2>1. Write(<<u>>) /\ offset \in Nat /\ entries \in Seq(Entries)
      BY <1>5 DEF ZipInv, Types, Places
    <2>2. /\ Len(disk) \in Nat /\ offset \in Nat /\ pos = Len(disk)
          /\ disk' \in Seq(Unit) /\ Len(disk') = Len(disk) + 1 /\ Extends(disk', disk)
          /\ disk'[Len(disk) + 1] = u
          /\ pos' = pos + 1 /\ offset' = offset + 1 /\ offset' \in 0 .. pos'
          /\ HasTorn' <=> HasTorn
          /\ ~HasTorn => /\ Clean /\ offset' = Len(disk')
                         /\ \A i \in 1 .. Len(entries) :
                              /\ Present(disk', entries[i])
                              /\ entries[i].at + (IF entries[i].empty THEN 1 ELSE 2) <= DirStart
          /\ \A p \in 1 .. Len(disk') : disk'[p].kind # "end"
      BY <1>1, <1>2, <2>1, WriteOneKeeps
    <2>3. \/ ~member.empty /\ pc' = "payload" /\ entries' = entries /\ added' = added
          \/ /\ member.empty /\ pc' = "idle"
             /\ entries' = Append(entries, member) /\ added' = Append(added, member.name)
      BY <1>5 DEF Record
    <2>4. entries' \in Seq(Entries)
      <3>1. Append(entries, member) \in Seq(Entries)
        BY <1>1, <2>1
      <3> QED BY <2>1, <2>3, <3>1
    <2>5. Types'
      BY <1>1, <1>5, <2>2, <2>3, <2>4 DEF ZipInv, Types
    <2>6. Places'
      BY <1>5, <2>2, <2>3 DEF ZipInv, Places
    <2>7. Ending'
      BY <1>1, <1>5, <2>2 DEF Ending
    <2>8. added' = NamesOf(entries')
      <3>1. added = NamesOf(entries) /\ entries \in Seq(Entries)
        BY <1>1 DEF ZipInv, Contents, Types
      <3> QED BY <1>1, <2>3, <3>1, NameAppended
    <2>9. HasTorn => TornEarly'
      <3> SUFFICES ASSUME HasTorn PROVE TornEarly'
        OBVIOUS
      <3>1. DirStart = offset /\ DirStart' = offset + 1
        BY <1>1, <1>5, <2>2, <2>3 DEF DirStart
      <3>2. Span' \in Nat /\ Span <= Span'
        <4>1. Len(entries) \in Nat /\ Len(entries') \in Nat /\ Len(entries) <= Len(entries')
          BY <1>1, <2>3 DEF ZipInv, Types
        <4> QED BY <4>1 DEF Span
      <3>3. DirStart' + Span' \in Nat /\ DirStart + Span <= DirStart' + Span'
        <4>1. \A a, b, c \in Nat : b <= c => a + 1 + c \in Nat /\ a + b <= a + 1 + c
          OBVIOUS
        <4>2. Span \in Nat /\ offset \in Nat
          BY <1>1, <2>1
        <4> QED BY <3>1, <3>2, <4>1, <4>2
      <3> QED BY <1>1, <2>2, <3>3, TornEarlyStays DEF ZipInv, Contents
    <2>10. ~HasTorn => Clean'
      <3> SUFFICES ASSUME ~HasTorn PROVE Clean'
        OBVIOUS
      <3>1. offset = Len(disk) /\ member.at = offset
        BY <1>1, <2>2 DEF Clean
      <3>2. member.empty => Present(disk', member) /\ member.at + 1 <= offset'
        <4>1. KindAt(disk', member.at + 1) = "local"
          BY <1>2, <2>2, <3>1 DEF KindAt
        <4> QED BY <2>2, <3>1, <4>1 DEF Present
      <3>3. \A i \in 1 .. Len(entries') : Whole(entries[i], DirStart)'
        <4>1. finished' = FALSE /\ pc' # "end" /\ offset' \in Nat /\ offset <= offset'
          BY <1>1, <1>5, <2>2, <2>3
        <4> QED BY <1>1, <2>2, <2>3, <3>2, <4>1, RecordedAll
      <3>4. pc' = "payload" => /\ ~member'.empty /\ member'.at + 1 = offset'
                               /\ disk'[offset'].kind = "local"
        BY <1>2, <1>5, <2>2, <2>3, <3>1
      <3> QED BY <1>1, <1>5, <2>2, <2>3, <3>3, <3>4 DEF Clean
    <2> QED BY <2>2, <2>5, <2>6, <2>7, <2>8, <2>9, <2>10 DEF ZipInv, Contents
  <1> QED BY <1>4, <1>5 DEF WriteHeader, u

LEMMA WritePayloadStep == ZipInv /\ WritePayload => ZipInv'
  <1> SUFFICES ASSUME ZipInv, WritePayload PROVE ZipInv'
    OBVIOUS
  <1>1. pc = "payload" /\ ~finished /\ Live /\ member \in Entries /\ Span \in Nat \ {0} /\ pc' = "idle"
    BY StartsAreNat DEF WritePayload, ZipInv, Ending, Types, Live
  <1> DEFINE u == Data(member)
  <1>2. u \in Unit /\ u.kind = "data" /\ u.name = member.name
    BY <1>1, UnitsMade
  <1> HIDE DEF u
  <1> DEFINE units == <<u>>
  <1>3. units \in Seq(Unit) /\ Len(units) = 1 /\ units[1] = u
    BY <1>2
  <1>4. CASE WriteFails(units)
    <2>1. Len(units) <= Span /\ \A i \in 1 .. Len(units) - 1 : units[i].kind # "end"
      BY <1>1, <1>3
    <2> HIDE DEF units
    <2> QED BY <1>1, <1>3, <1>4, <2>1, FailStep
  <1>5. CASE /\ Write(units) /\ Record
             /\ finished' = finished /\ member' = member /\ cdOffset' = cdOffset /\ dropped' = dropped
    <2>1. Write(<<u>>) /\ offset \in Nat /\ entries \in Seq(Entries)
      BY <1>5 DEF ZipInv, Types, Places
    <2>2. /\ Len(disk) \in Nat /\ offset \in Nat /\ pos = Len(disk)
          /\ disk' \in Seq(Unit) /\ Len(disk') = Len(disk) + 1 /\ Extends(disk', disk)
          /\ disk'[Len(disk) + 1] = u
          /\ pos' = pos + 1 /\ offset' = offset + 1 /\ offset' \in 0 .. pos'
          /\ HasTorn' <=> HasTorn
          /\ ~HasTorn => /\ Clean /\ offset' = Len(disk')
                         /\ \A i \in 1 .. Len(entries) :
                              /\ Present(disk', entries[i])
                              /\ entries[i].at + (IF entries[i].empty THEN 1 ELSE 2) <= DirStart
          /\ \A p \in 1 .. Len(disk') : disk'[p].kind # "end"
      BY <1>1, <1>2, <2>1, WriteOneKeeps
    <2>3. entries' = Append(entries, member) /\ added' = Append(added, member.name)
      BY <1>1, <1>5 DEF Record
    <2>4. entries' \in Seq(Entries)
      <3>1. Append(entries, member) \in Seq(Entries)
        BY <1>1, <2>1
      <3> QED BY <2>1, <2>3, <3>1
    <2>5. Types'
      BY <1>1, <1>5, <2>2, <2>4 DEF ZipInv, Types
    <2>6. Places'
      BY <1>1, <1>5, <2>2 DEF ZipInv, Places
    <2>7. Ending'
      BY <1>1, <1>5, <2>2 DEF Ending
    <2>8. added' = NamesOf(entries')
      <3>1. added = NamesOf(entries) /\ entries \in Seq(Entries)
        BY <1>1 DEF ZipInv, Contents, Types
      <3> QED BY <1>1, <2>3, <3>1, NameAppended
    <2>9. HasTorn => TornEarly'
      <3> SUFFICES ASSUME HasTorn PROVE TornEarly'
        OBVIOUS
      <3>1. DirStart = offset /\ DirStart' = offset + 1
        BY <1>1, <1>5, <2>2, <2>3 DEF DirStart
      <3>2. Span' \in Nat /\ Span <= Span'
        <4>1. Len(entries) \in Nat /\ Len(entries') \in Nat /\ Len(entries) <= Len(entries')
          BY <1>1, <2>3 DEF ZipInv, Types
        <4> QED BY <4>1 DEF Span
      <3>3. DirStart' + Span' \in Nat /\ DirStart + Span <= DirStart' + Span'
        <4>1. \A a, b, c \in Nat : b <= c => a + 1 + c \in Nat /\ a + b <= a + 1 + c
          OBVIOUS
        <4>2. Span \in Nat /\ offset \in Nat
          BY <1>1, <2>1
        <4> QED BY <3>1, <3>2, <4>1, <4>2
      <3> QED BY <1>1, <2>2, <3>3, TornEarlyStays DEF ZipInv, Contents
    <2>10. ~HasTorn => Clean'
      <3> SUFFICES ASSUME ~HasTorn PROVE Clean'
        OBVIOUS
      <3>1. /\ offset = Len(disk) /\ member.at + 1 = offset /\ ~member.empty
            /\ disk[offset].kind = "local" /\ member.at \in Nat
        BY <1>1, <2>2, EntryFields DEF Clean
      <3>2. Present(disk', member) /\ member.at + 2 <= offset'
        <4>1. KindAt(disk', member.at + 1) = "local"
          <5>1. offset \in 1 .. Len(disk) /\ offset \in 1 .. Len(disk')
            BY <2>2, <3>1
          <5>2. disk'[offset] = disk[offset]
            BY <2>2, <5>1 DEF Extends
          <5> QED BY <3>1, <5>1, <5>2 DEF KindAt
        <4>2. member.at + 2 = Len(disk) + 1
          BY <3>1
        <4>3. KindAt(disk', member.at + 2) = "data" /\ disk'[member.at + 2].name = member.name
          BY <1>2, <2>2, <4>2 DEF KindAt
        <4> QED BY <2>2, <3>1, <4>1, <4>3 DEF Present
      <3>3. \A i \in 1 .. Len(entries') : Whole(entries[i], DirStart)'
        <4>1. finished' = FALSE /\ pc' # "end" /\ offset' \in Nat /\ offset <= offset'
          BY <1>1, <1>5, <2>2
        <4> QED BY <1>1, <2>2, <2>3, <3>1, <3>2, <4>1, RecordedAll
      <3> QED BY <1>1, <1>5, <2>2, <3>3 DEF Clean
    <2> QED BY <2>2, <2>5, <2>6, <2>7, <2>8, <2>9, <2>10 DEF ZipInv, Contents
  <1> QED BY <1>4, <1>5 DEF WritePayload, u

-------------------------------------------------------------------------------
(* Closing. *)

\* While neither the file nor the entries nor the beginning of the directory change,
\* nor do the contents of the archive.
LEMMA ContentsKept ==
  ASSUME Contents, Live \/ ~Live', disk' = disk, offset' = offset, entries' = entries,
         finished' = finished, added' = added, DirStart' = DirStart,
         pc' \in {"idle", "directory", "none"}, finished \/ pc' # "end",
         finished => cdOffset' = cdOffset
  PROVE  Contents'
  <1>1. CASE ~Live'
    BY <1>1 DEF Contents
  <1>2. CASE Live
    <2>1. added' = NamesOf(entries')
      BY <1>2 DEF Contents
    <2>2. (HasTorn' <=> HasTorn) /\ (TornEarly => TornEarly')
      BY DEF HasTorn, TornEarly, Span
    <2>3. Clean => Clean'
      <3>1. \A e, n : Whole(e, n)' = Whole(e, n)
        BY DEF Whole
      <3>2. \A i \in 1 .. Len(entries') : Whole(entries[i], DirStart)' = Whole(entries[i], DirStart)
        BY DEF Whole
      <3> QED BY <3>2 DEF Clean
    <2> QED BY <1>2, <2>1, <2>2, <2>3 DEF Contents
  <1> QED BY <1>1, <1>2

LEMMA CloseStep == ZipInv /\ Close => ZipInv'
  <1> SUFFICES ASSUME ZipInv, Close PROVE ZipInv'
    OBVIOUS
  <1>1. /\ pc = "idle" /\ ~finished /\ pc' = "directory" /\ dropped' = FALSE /\ cdOffset' = offset
        /\ disk' = disk /\ pos' = pos /\ offset' = offset /\ entries' = entries /\ finished' = finished
        /\ member' = member /\ added' = added
    BY DEF Close, Begin
  <1>2. Types'
    BY <1>1 DEF ZipInv, Types
  <1>3. Places' /\ Ending'
    BY <1>1 DEF ZipInv, Places, Ending
  <1>4. DirStart' = DirStart /\ Live
    BY <1>1 DEF DirStart, Live
  <1>5. Contents'
    BY <1>1, <1>4, ContentsKept DEF ZipInv
  <1> QED BY <1>2, <1>3, <1>5 DEF ZipInv

LEMMA DestroyStep == ZipInv /\ Destroy => ZipInv'
  <1> SUFFICES ASSUME ZipInv, Destroy PROVE ZipInv'
    OBVIOUS
  <1>1. /\ pc = "idle" /\ Live
        /\ disk' = disk /\ pos' = pos /\ offset' = offset /\ entries' = entries /\ finished' = finished
        /\ member' = member /\ added' = added
    BY DEF Destroy, Live
  <1>2. \/ finished /\ pc' = "none" /\ cdOffset' = cdOffset /\ dropped' = dropped
        \/ ~finished /\ pc' = "directory" /\ dropped' = TRUE /\ cdOffset' = offset
    BY DEF Destroy, Begin
  <1>3. Types'
    BY <1>1, <1>2 DEF ZipInv, Types
  <1>4. Places' /\ Ending'
    BY <1>1, <1>2 DEF ZipInv, Places, Ending
  <1>5. DirStart' = DirStart
    BY <1>1, <1>2 DEF DirStart
  <1>6. Contents'
    BY <1>1, <1>2, <1>5, ContentsKept DEF ZipInv
  <1> QED BY <1>3, <1>4, <1>6 DEF ZipInv

LEMMA CrashStep == ZipInv /\ Crash => ZipInv'
  <1> SUFFICES ASSUME ZipInv, Crash PROVE ZipInv'
    OBVIOUS
  <1>1. /\ pc # "none" /\ Live /\ pc' = "none"
        /\ disk' = disk /\ pos' = pos /\ offset' = offset /\ entries' = entries /\ finished' = finished
        /\ member' = member /\ added' = added /\ cdOffset' = cdOffset /\ dropped' = dropped
    BY DEF Crash, Live
  <1>2. Types'
    BY <1>1 DEF ZipInv, Types
  <1>3. Places' /\ Ending'
    BY <1>1 DEF ZipInv, Places, Ending
  <1>4. finished => DirStart' = DirStart
    BY <1>1 DEF DirStart
  <1>5. ~finished => ~Live'
    BY <1>1 DEF Live
  <1>6. Contents'
    BY <1>1, <1>4, <1>5, ContentsKept DEF ZipInv, Contents
  <1> QED BY <1>2, <1>3, <1>6 DEF ZipInv

LEMMA LeaveIs == Leave \in {"none", "idle"}
  BY DEF Leave

LEMMA WriteDirectoryStep == ZipInv /\ WriteDirectory => ZipInv'
  <1> SUFFICES ASSUME ZipInv, WriteDirectory PROVE ZipInv'
    OBVIOUS
  <1> DEFINE n == Len(entries)
             units == [i \in 1 .. n |-> Central(entries[i])]
  <1>1. /\ pc = "directory" /\ ~finished /\ Live /\ n \in Nat /\ entries \in Seq(Entries)
        /\ cdOffset = offset /\ offset \in Nat
    BY DEF WriteDirectory, ZipInv, Ending, Types, Live, Places
  <1>2. ASSUME NEW i \in 1 .. n
        PROVE  Central(entries[i]) \in Unit /\ Central(entries[i]).kind = "central"
    <2>1. entries[i] \in Entries
      BY <1>1
    <2> QED BY <2>1, UnitsMade
  <1>3. units \in Seq(Unit) /\ Len(units) = n /\ \A i \in 1 .. n : units[i] = Central(entries[i])
    BY <1>1, <1>2
  <1>4. \A i \in 1 .. Len(units) : units[i].kind # "torn" /\ units[i].kind # "end"
    BY <1>2, <1>3
  <1>5. \/ /\ Write(units) /\ pc' = "end"
           /\ UNCHANGED <<entries, finished, member, cdOffset, dropped, before, added>>
        \/ units # <<>> /\ WriteFails(units) /\ pc' = Leave
    BY DEF WriteDirectory
  <1> HIDE DEF units
  <1>6. CASE units # <<>> /\ WriteFails(units) /\ pc' = Leave
    <2>1. Len(units) <= Span
      BY <1>1, <1>3 DEF Span
    <2>2. \A i \in 1 .. Len(units) - 1 : units[i].kind # "end"
      BY <1>1, <1>3, <1>4
    <2> QED BY <1>1, <1>3, <1>6, <2>1, <2>2, FailStep, LeaveIs
  <1>7. CASE /\ Write(units) /\ pc' = "end"
             /\ UNCHANGED <<entries, finished, member, cdOffset, dropped, before, added>>
    <2>1. /\ Len(disk) \in Nat /\ pos = Len(disk)
          /\ disk' \in Seq(Unit) /\ Len(disk') = Len(disk) + n /\ Extends(disk', disk)
          /\ \A i \in 1 .. n : disk'[Len(disk) + i] = units[i]
          /\ pos' = pos + n /\ offset' = offset + n /\ offset' \in 0 .. pos'
      BY <1>1, <1>3, <1>4, <1>7, WriteKeeps
    <2>2. /\ HasTorn' <=> HasTorn
          /\ ~HasTorn => /\ Clean /\ offset' = Len(disk')
                         /\ \A i \in 1 .. n :
                              /\ Present(disk', entries[i])
                              /\ entries[i].at + (IF entries[i].empty THEN 1 ELSE 2) <= DirStart
      BY <1>1, <1>3, <1>4, <1>7, WriteKeeps
    <2>3. Types'
      BY <1>7, <2>1 DEF ZipInv, Types
    <2>4. Places'
      BY <1>1, <1>7, <2>1 DEF ZipInv, Places
    <2>5. Ending'
      <3>1. \A p \in 1 .. Len(disk') : disk'[p].kind # "end"
        BY <1>1, <1>3, <1>4, <2>1, NoEndNew DEF ZipInv
      <3> QED BY <1>1, <1>7, <3>1 DEF Ending
    <2>6. DirStart' = DirStart /\ DirStart = cdOffset /\ Span' = Span
      BY <1>1, <1>7 DEF DirStart, Span
    <2>7. HasTorn => TornEarly'
      <3>1. DirStart' + Span' \in Nat /\ DirStart + Span <= DirStart' + Span'
        BY <2>6, StartsAreNat DEF ZipInv
      <3> QED BY <1>1, <2>1, <3>1, TornEarlyStays DEF ZipInv, Contents
    <2>8. ~HasTorn => Clean'
      <3> SUFFICES ASSUME ~HasTorn PROVE Clean'
        OBVIOUS
      <3>1. \A i \in 1 .. Len(entries') : Whole(entries[i], DirStart)'
        BY <1>7, <2>2, <2>6 DEF Whole
      <3>2. cdOffset' = Len(disk)
        BY <1>1, <1>7, <2>2 DEF Clean
      <3>3. \A i \in 1 .. Len(entries') : disk'[cdOffset' + i] = Central(entries'[i])
        BY <1>3, <1>7, <2>1, <3>2
      <3> QED BY <1>1, <1>7, <2>2, <3>1, <3>3 DEF Clean
    <2>9. added' = NamesOf(entries')
      BY <1>1, <1>7 DEF ZipInv, Contents
    <2> QED BY <2>2, <2>3, <2>4, <2>5, <2>7, <2>8, <2>9 DEF ZipInv, Contents
  <1> QED BY <1>5, <1>6, <1>7

LEMMA WriteEndStep == ZipInv /\ WriteEnd => ZipInv'
  <1> SUFFICES ASSUME ZipInv, WriteEnd PROVE ZipInv'
    OBVIOUS
  <1> DEFINE n == Len(entries)
             u == End(n, cdOffset)
  <1>1. /\ pc = "end" /\ ~finished /\ Live /\ n \in Nat /\ cdOffset \in Nat /\ offset \in Nat
        /\ cdOffset + n = offset /\ offset <= Len(disk) /\ pc' \in {"none", "idle"}
    BY LeaveIs DEF WriteEnd, ZipInv, Ending, Types, Live, Places
  <1>2. u \in Unit /\ u.kind = "end"
    BY <1>1, EndMade
  <1>3. \/ /\ Write(<<u>>) /\ finished' = TRUE
           /\ UNCHANGED <<entries, member, cdOffset, dropped, before, added>>
        \/ WriteFails(<<u>>)
    BY DEF WriteEnd
  <1> HIDE DEF u
  <1>4. CASE WriteFails(<<u>>)
    <2> DEFINE units == <<u>>
    <2>1. units \in Seq(Unit) /\ Len(units) = 1
      BY <1>2
    <2>2. WriteFails(units)
      BY <1>4
    <2> HIDE DEF units
    <2>3. Len(units) <= Span /\ \A i \in 1 .. Len(units) - 1 : units[i].kind # "end"
      BY <1>1, <2>1 DEF Span
    <2> QED BY <1>1, <2>1, <2>2, <2>3, FailStep
  <1>5. CASE /\ Write(<<u>>) /\ finished' = TRUE
             /\ UNCHANGED <<entries, member, cdOffset, dropped, before, added>>
    <2>1. /\ Len(disk) \in Nat /\ pos = Len(disk)
          /\ disk' \in Seq(Unit) /\ Len(disk') = Len(disk) + 1 /\ Extends(disk', disk)
          /\ disk'[Len(disk) + 1] = u
          /\ pos' = pos + 1 /\ offset' = offset + 1 /\ offset' \in 0 .. pos'
          /\ HasTorn' <=> HasTorn
          /\ ~HasTorn => /\ Clean /\ offset' = Len(disk')
                         /\ \A i \in 1 .. n :
                              /\ Present(disk', entries[i])
                              /\ entries[i].at + (IF entries[i].empty THEN 1 ELSE 2) <= DirStart
      BY <1>1, <1>2, <1>5, WriteOneKeeps
    <2>2. Types'
      BY <1>1, <1>5, <2>1 DEF ZipInv, Types
    <2>3. Places'
      BY <1>1, <1>5, <2>1 DEF ZipInv, Places
    <2>4. Ending'
      <3>1. \A p \in 1 .. Len(disk') : disk'[p].kind = "end" => p = Len(disk')
        <4>1. \A p \in 1 .. Len(disk) : disk'[p].kind # "end"
          BY <1>1, <2>1 DEF ZipInv, Ending, Extends
        <4> QED BY <2>1, <4>1
      <3>2. cdOffset' < Len(disk') /\ disk'[Len(disk')] = End(Len(entries'), cdOffset')
        BY <1>1, <1>5, <2>1 DEF u
      <3> QED BY <1>1, <1>5, <3>1, <3>2 DEF Ending
    <2>5. DirStart' = DirStart /\ DirStart = cdOffset /\ Span' = Span
      BY <1>1, <1>5 DEF DirStart, Span
    <2>6. HasTorn => TornEarly'
      <3>1. DirStart' + Span' \in Nat /\ DirStart + Span <= DirStart' + Span'
        BY <2>5, StartsAreNat DEF ZipInv
      <3> QED BY <1>1, <2>1, <3>1, TornEarlyStays DEF ZipInv, Contents
    <2>7. ~HasTorn => Clean'
      <3> SUFFICES ASSUME ~HasTorn PROVE Clean'
        OBVIOUS
      <3>1. \A i \in 1 .. Len(entries') : Whole(entries[i], DirStart)'
        BY <1>5, <2>1, <2>5 DEF Whole
      <3>2. offset = Len(disk) /\ \A i \in 1 .. n : disk[cdOffset + i] = Central(entries[i])
        BY <1>1, <2>1 DEF Clean
      <3>3. \A i \in 1 .. n : cdOffset + i \in 1 .. Len(disk)
        BY <1>1, <3>2
      <3>4. \A i \in 1 .. Len(entries') : disk'[cdOffset' + i] = Central(entries'[i])
        BY <1>5, <2>1, <3>2, <3>3 DEF Extends
      <3>5. cdOffset' + Len(entries') + 1 = Len(disk')
        BY <1>1, <1>5, <2>1, <3>2
      <3> QED BY <1>1, <1>5, <2>1, <3>1, <3>4, <3>5 DEF Clean
    <2>8. added' = NamesOf(entries')
      BY <1>1, <1>5 DEF ZipInv, Contents
    <2> QED BY <2>1, <2>2, <2>3, <2>4, <2>6, <2>7, <2>8 DEF ZipInv, Contents
  <1> QED BY <1>3, <1>4, <1>5

-------------------------------------------------------------------------------
\* The strengthened invariant holds of every behaviour, for all names and failures.
THEOREM ZipInvariant == Spec => []ZipInv
  <1>1. Init => ZipInv
    <2> SUFFICES ASSUME Init PROVE ZipInv
      OBVIOUS
    <2>1. disk = <<>> /\ entries = <<>> /\ Len(disk) = 0 /\ Len(entries) = 0 /\ pc = "none" /\ finished = FALSE
      BY DEF Init
    <2>2. disk \in Seq(Unit) /\ entries \in Seq(Entries)
      BY <2>1
    <2>3. member \in Entries
      BY EntryMade DEF Init, NameSet
    <2>4. Types
      BY <2>1, <2>2, <2>3 DEF Init, Types
    <2>5. Places /\ Ending
      BY <2>1 DEF Init, Places, Ending
    <2>6. Contents
      BY <2>1 DEF Contents, Live
    <2> QED BY <2>4, <2>5, <2>6 DEF ZipInv
  <1>2. ZipInv /\ [Next]_vars => ZipInv'
    <2> SUFFICES ASSUME ZipInv, [Next]_vars PROVE ZipInv'
      OBVIOUS
    <2>1. CASE UNCHANGED vars
      <3>1. /\ disk' = disk /\ pos' = pos /\ offset' = offset /\ entries' = entries /\ finished' = finished
            /\ pc' = pc /\ member' = member /\ cdOffset' = cdOffset /\ dropped' = dropped /\ added' = added
        BY <2>1 DEF vars
      <3>2. Types' /\ Places' /\ Ending'
        BY <3>1 DEF ZipInv, Types, Places, Ending
      <3>3. (HasTorn' <=> HasTorn) /\ (Live' <=> Live) /\ (TornEarly' <=> TornEarly) /\ DirStart' = DirStart
        BY <3>1 DEF HasTorn, Live, TornEarly, Span, DirStart
      <3>4. Clean' <=> Clean
        <4>1. \A i \in 1 .. Len(entries') : Whole(entries[i], DirStart)' = Whole(entries[i], DirStart)
          BY <3>1, <3>3 DEF Whole
        <4> QED BY <3>1, <4>1 DEF Clean
      <3> QED BY <3>1, <3>2, <3>3, <3>4 DEF ZipInv, Contents
    <2> QED BY <2>1, CreateStep, OpenAppendStep, SeekFailsStep, AddStep, WriteHeaderStep, WritePayloadStep,
               CloseStep, DestroyStep, WriteDirectoryStep, WriteEndStep, CrashStep DEF Next
  <1> QED BY <1>1, <1>2, PTL DEF Spec

\* The variables have their types and the writer stands at the end of the file, never
\* before its counter, for all names and any length of the file (zip.cpp:183, 526-535).
THEOREM ZipTypeCorrect == Spec => []TypeOK
  <1>1. ZipInv => TypeOK
    BY DEF ZipInv, Types, Places, TypeOK
  <1> QED BY <1>1, ZipInvariant, PTL

\* An archive that has a directory is one that was finished and that nobody has begun
\* to change, whatever has failed and whenever the program was killed
\* (zip.cpp:471, 502-504, 526).
THEOREM NeverHalfWritten == Spec => []NeverHalf
  <1>1. ZipInv => NeverHalf
    BY OneDirectory DEF NeverHalf, Listed
  <1> QED BY <1>1, ZipInvariant, PTL

\* An archive whose directory was written lists exactly the members its caller knows
\* of, each with its data, for all names and any number of members, of calls that
\* fail and of times it is opened again (zip.cpp:422-459, 462-509).
THEOREM AddedIsReadBack == Spec => []ReadsBack
  <1>1. ZipInv => ReadsBack
    <2> SUFFICES ASSUME ZipInv, finished, \A i \in DOMAIN disk : disk[i] # Torn
                 PROVE  Readable(disk) /\ NamesOf(Directory(disk)) = added
      BY DEF ReadsBack
    <2> DEFINE n == Len(entries)
    <2>1. disk \in Seq(Unit) /\ Len(disk) \in Nat /\ n \in Nat /\ cdOffset \in Nat /\ entries \in Seq(Entries)
      BY DEF ZipInv, Types, Places
    <2>2. Clean /\ added = NamesOf(entries)
      <3>1. DOMAIN disk = 1 .. Len(disk)
        BY <2>1
      <3> QED BY <3>1 DEF ZipInv, Contents, Live, HasTorn
    <2>3. /\ cdOffset + n + 1 = Len(disk) /\ DirStart = cdOffset
          /\ \A i \in 1 .. n : disk[cdOffset + i] = Central(entries[i])
      BY <2>2 DEF Clean, DirStart
    <2>4. disk[Len(disk)] = End(n, cdOffset) /\ disk[Len(disk)].kind = "end"
      BY <2>1, EndMade DEF ZipInv, Ending
    <2>5. Ends(disk) # {}
      BY <2>1, <2>3, <2>4 DEF Ends
    <2>6. disk[LastEnd(disk)].count = n /\ disk[LastEnd(disk)].at = cdOffset
      BY <2>5, OneDirectory
    <2>7. ASSUME NEW i \in 1 .. n
          PROVE  /\ KindAt(disk, cdOffset + i) = "central"
                 /\ disk[cdOffset + i].entry = entries[i] /\ Present(disk, entries[i])
      <3>1. entries[i] \in Entries /\ cdOffset + i \in 1 .. Len(disk)
        BY <2>1, <2>3
      <3>2. Present(disk, entries[i])
        BY <2>2 DEF Clean, Whole
      <3> QED BY <2>3, <3>1, <3>2, UnitsMade DEF KindAt
    <2>8. Listed(disk)
      BY <2>5, <2>6, <2>7 DEF Listed
    <2>9. Directory(disk) = [i \in 1 .. n |-> entries[i]]
      BY <2>6, <2>7 DEF Directory
    <2>10. Directory(disk) = entries
      BY <2>1, <2>9
    <2>11. Readable(disk)
      BY <2>1, <2>7, <2>8, <2>10 DEF Readable
    <2> QED BY <2>2, <2>10, <2>11
  <1> QED BY <1>1, ZipInvariant, PTL
===============================================================================
