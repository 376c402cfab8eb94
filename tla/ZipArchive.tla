------------------------------ MODULE ZipArchive -------------------------------
(***************************************************************************)
(* ZipWriter on a file (src/src/pigzpp/zip.cpp): members are written one   *)
(* after the other, the directory of the archive behind the last one when  *)
(* the writer is closed or destroyed. An archive that is appended to loses *)
(* its directory at once and gets it back at the end. Any write may fail   *)
(* and the program may be killed at any time.                              *)
(*                                                                         *)
(* A file is a sequence of units: the local header of a member, its data,  *)
(* its entry in the directory, the record that ends the directory, or what *)
(* a write that failed has left behind. Offsets count units.               *)
(***************************************************************************)
EXTENDS Integers, Sequences

CONSTANTS
  Names,      \* names of members
  MaxUnits,   \* length of the file beyond which nothing is begun (bounds the model)
  Faults      \* "write" if writes may fail, "torn" if they may stop midway,
              \* "seek" if seek() may fail, "crash" if the program may be killed

ASSUME ZipAssumption == MaxUnits \in Nat /\ Faults \subseteq {"write", "torn", "seek", "crash"}

VARIABLES
  disk,      \* the file
  pos,       \* position in it of the descriptor
  offset,    \* sink.offset
  entries,   \* entries
  finished,  \* finished
  pc,        \* where the writer is, "none" without one
  member,    \* e, the member that is being added
  cdOffset,  \* cd_offset
  dropped,   \* write_central() has been called by the destructor
  before,    \* names in the archive that was opened to append to
  added      \* names the caller has been told are in the archive

vars == <<disk, pos, offset, entries, finished, pc, member, cdOffset, dropped, before, added>>

Local(e) == [kind |-> "local", name |-> e.name, empty |-> e.empty]
Data(e) == [kind |-> "data", name |-> e.name]
Central(e) == [kind |-> "central", entry |-> e]
End(n, at) == [kind |-> "end", count |-> n, at |-> at]
Torn == [kind |-> "torn"]

Entry(name, empty, at) == [name |-> name, empty |-> empty, at |-> at]

NamesOf(es) == [i \in 1 .. Len(es) |-> es[i].name]

-------------------------------------------------------------------------------
(* Reading an archive. *)

KindAt(file, p) == IF p \in 1 .. Len(file) THEN file[p].kind ELSE "none"

\* The last record that ends a directory.
Ends(file) == {p \in 1 .. Len(file) : file[p].kind = "end"}
LastEnd(file) == CHOOSE p \in Ends(file) : \A q \in Ends(file) : q <= p

\* Whether the directory is where it is said to be, and what it lists.
Listed(file) ==
  /\ Ends(file) # {}
  /\ LET end == file[LastEnd(file)]
     IN \A i \in 1 .. end.count : KindAt(file, end.at + i) = "central"
Directory(file) ==
  LET end == file[LastEnd(file)]
  IN [i \in 1 .. end.count |-> file[end.at + i].entry]

\* Whether a member is where the directory says.
Present(file, e) ==
  /\ KindAt(file, e.at + 1) = "local"
  /\ e.empty \/ (KindAt(file, e.at + 2) = "data" /\ file[e.at + 2].name = e.name)

Readable(file) ==
  Listed(file) /\ \A i \in DOMAIN Directory(file) : Present(file, Directory(file)[i])

-------------------------------------------------------------------------------
(* Opening. *)

Init ==
  /\ disk = <<>> /\ pos = 0 /\ offset = 0 /\ entries = <<>> /\ finished = FALSE
  /\ pc = "none" /\ member = Entry("none", TRUE, 0) /\ cdOffset = 0 /\ dropped = FALSE
  /\ before = <<>> /\ added = <<>>

\* Mutant of Create: an old file keeps what it held.
CreateInPlace ==
  /\ pc = "none" /\ pc' = "idle"
  /\ pos' = 0 /\ offset' = 0 /\ entries' = <<>> /\ finished' = FALSE
  /\ before' = <<>> /\ added' = <<>>
  /\ UNCHANGED <<disk, member, cdOffset, dropped>>

Create ==
  /\ pc = "none" /\ pc' = "idle"
  /\ disk' = <<>> /\ pos' = 0 /\ offset' = 0 /\ entries' = <<>> /\ finished' = FALSE
  /\ before' = <<>> /\ added' = <<>>
  /\ UNCHANGED <<member, cdOffset, dropped>>

\* The writer goes on where the directory began.
Resume(at) ==
  /\ pc' = "idle" /\ pos' = at /\ offset' = at
  /\ entries' = Directory(disk) /\ finished' = FALSE
  /\ before' = NamesOf(Directory(disk)) /\ added' = before'
  /\ UNCHANGED <<member, cdOffset, dropped>>

\* Mutant of OpenAppend: the file is not cut off.
OpenAppendInPlace ==
  /\ pc = "none" /\ Listed(disk)
  /\ Resume(disk[LastEnd(disk)].at)
  /\ UNCHANGED disk

\* The directory is read, and the file cut off before it.
OpenAppend ==
  /\ pc = "none" /\ Listed(disk)
  /\ LET at == disk[LastEnd(disk)].at
     IN disk' = SubSeq(disk, 1, at) /\ Resume(at)

\* The file is cut off already when the constructor fails.
SeekFails ==
  /\ "seek" \in Faults /\ pc = "none" /\ Listed(disk)
  /\ disk' = SubSeq(disk, 1, disk[LastEnd(disk)].at)
  /\ before' = NamesOf(Directory(disk)) /\ added' = before' /\ finished' = FALSE
  /\ UNCHANGED <<pos, offset, entries, pc, member, cdOffset, dropped>>

-------------------------------------------------------------------------------
(* Writing. *)

\* Sink::write(), which counts what it was asked to write once it has.
Put(units) ==
  /\ disk' = SubSeq(disk, 1, pos) \o units \o SubSeq(disk, pos + Len(units) + 1, Len(disk))
  /\ pos' = pos + Len(units)

Write(units) == Put(units) /\ offset' = offset + Len(units)

WriteFails(units) ==
  /\ \/ "write" \in Faults /\ UNCHANGED <<disk, pos>>
     \/ "torn" \in Faults /\ \E n \in 0 .. Len(units) - 1 : Put(Append(SubSeq(units, 1, n), Torn))
  /\ UNCHANGED <<offset, entries, finished, member, cdOffset, dropped, before, added>>

Add ==
  /\ pc = "idle" /\ ~finished /\ Len(disk) < MaxUnits
  /\ \E name \in Names, empty \in BOOLEAN : member' = Entry(name, empty, offset)
  /\ pc' = "header"
  /\ UNCHANGED <<disk, pos, offset, entries, finished, cdOffset, dropped, before, added>>

\* Mutant of Record: the entry is made before the data are written.
RecordEarly ==
  /\ entries' = IF pc = "header" THEN Append(entries, member) ELSE entries
  /\ added' = IF pc' = "idle" THEN Append(added, member.name) ELSE added

\* The entry is made when the member is complete.
Record ==
  /\ entries' = IF pc' = "idle" THEN Append(entries, member) ELSE entries
  /\ added' = IF pc' = "idle" THEN Append(added, member.name) ELSE added

WriteHeader ==
  /\ pc = "header"
  /\ \/ /\ Write(<<Local(member)>>)
        /\ pc' = IF member.empty THEN "idle" ELSE "payload"
        /\ Record
        /\ UNCHANGED <<finished, member, cdOffset, dropped, before>>
     \/ WriteFails(<<Local(member)>>) /\ pc' = "idle"

WritePayload ==
  /\ pc = "payload" /\ pc' = "idle"
  /\ \/ /\ Write(<<Data(member)>>)
        /\ Record
        /\ UNCHANGED <<finished, member, cdOffset, dropped, before>>
     \/ WriteFails(<<Data(member)>>)

-------------------------------------------------------------------------------
(* Closing. *)

\* Mutant of Begin: the directory is taken to begin at the first member.
BeginAtStart == cdOffset' = 0

\* write_central() notes where the directory begins.
Begin == cdOffset' = offset

\* close() of a writer that is finished fails at its first write, the descriptor
\* being closed, and changes nothing.
Close ==
  /\ pc = "idle" /\ ~finished /\ Len(disk) < MaxUnits
  /\ pc' = "directory" /\ dropped' = FALSE
  /\ Begin
  /\ UNCHANGED <<disk, pos, offset, entries, finished, member, before, added>>

\* The destructor closes a writer that has not been.
Destroy ==
  /\ pc = "idle"
  /\ \/ /\ finished /\ pc' = "none"
        /\ UNCHANGED <<cdOffset, dropped>>
     \/ /\ ~finished /\ pc' = "directory" /\ dropped' = TRUE
        /\ Begin
  /\ UNCHANGED <<disk, pos, offset, entries, finished, member, before, added>>

Leave == IF dropped THEN "none" ELSE "idle"

WriteDirectory ==
  LET units == [i \in 1 .. Len(entries) |-> Central(entries[i])]
  IN /\ pc = "directory"
     /\ \/ /\ Write(units) /\ pc' = "end"
           /\ UNCHANGED <<entries, finished, member, cdOffset, dropped, before, added>>
        \/ units # <<>> /\ WriteFails(units) /\ pc' = Leave

WriteEnd ==
  LET unit == End(Len(entries), cdOffset)
  IN /\ pc = "end" /\ pc' = Leave
     /\ \/ /\ Write(<<unit>>) /\ finished' = TRUE
           /\ UNCHANGED <<entries, member, cdOffset, dropped, before, added>>
        \/ WriteFails(<<unit>>)

\* The program is killed.
Crash ==
  /\ "crash" \in Faults /\ pc # "none"
  /\ pc' = "none"
  /\ UNCHANGED <<disk, pos, offset, entries, finished, member, cdOffset, dropped, before, added>>

Next ==
  \/ Create \/ OpenAppend \/ SeekFails \/ Add \/ WriteHeader \/ WritePayload
  \/ Close \/ Destroy \/ WriteDirectory \/ WriteEnd \/ Crash

Spec == Init /\ [][Next]_vars

-------------------------------------------------------------------------------

Entries == [name : Names \cup {"none"}, empty : BOOLEAN, at : Nat]

\* Every variable has the type its declaration gives it, and the writer stands at
\* the end of the file, not before its counter (zip.cpp:526-535, 183).
TypeOK ==
  /\ pos \in Nat /\ offset \in 0 .. pos /\ cdOffset \in Nat
  /\ pc # "none" => pos = Len(disk)
  /\ \A i \in 1 .. Len(entries) : entries[i] \in Entries
  /\ member \in Entries /\ finished \in BOOLEAN /\ dropped \in BOOLEAN
  /\ pc \in {"none", "idle", "header", "payload", "directory", "end"}

\* Unless a write has stopped midway, an archive whose directory was written, by
\* close() or by the destructor, lists exactly the members it had before and
\* those that were added without an exception, each with its data, however many
\* calls in between have failed (zip.cpp:422-459, 462-509).
ReadsBack ==
  finished /\ (\A i \in DOMAIN disk : disk[i] # Torn) =>
    Readable(disk) /\ NamesOf(Directory(disk)) = added

\* Whenever the program is killed, and whatever has failed, an archive that has a
\* directory is one that was finished or that nobody has begun to change: one
\* half written is never taken for a shorter one (zip.cpp:526, 471, 502-504).
NeverHalf == Listed(disk) => finished
===============================================================================
