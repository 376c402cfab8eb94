------------------------------- MODULE ZipLayout -------------------------------
(***************************************************************************)
(* The lengths, counts and offsets in a zip file: what ZipWriter           *)
(* (src/src/pigzpp/zip.cpp) and put_header and put_trailer (format.cpp)    *)
(* write into fields of 16, 32 and 64 bits, and what parse_archive() makes *)
(* of them, for ZipReader and for a ZipWriter that appends.                *)
(*                                                                         *)
(* A file is the set of its records, each with the place where it starts;  *)
(* names, comments and data are their lengths.  That data do not look like *)
(* a record is assumed.                                                    *)
(***************************************************************************)
EXTENDS Integers, Sequences

CONSTANTS
  Low32,     \* LOW32, the largest number a 32-bit field holds
  MaxShort,  \* 0xFFFF, the largest length a 16-bit field holds
  MaxCount,  \* 0xFFFF, too, the largest number of entries it holds
  Lengths,   \* lengths of members, compressed and not
  Names,     \* lengths of names
  Notes,     \* lengths of the comments of members
  Comments,  \* lengths of the comment of the archive
  MaxMembers \* bound on the number of members

ASSUME WidthsAssumption == {Low32, MaxShort, MaxCount} \subseteq Nat \ {0}
ASSUME LengthsAssumption ==
  Lengths \cup Names \cup Notes \cup Comments \subseteq Nat /\ MaxMembers \in Nat

VARIABLES
  pc,       \* "open" while written, "read" and "list" while read, "done", "refused"
  made,     \* the members that were added, by this writer or one before it
  entries,  \* Impl::entries, what the writer will list
  inTail,   \* history: whether every end record, and its locator, is where it is searched
  file,     \* the records written
  size,     \* length of the file, the counter of the sink
  end,      \* reader: entry_count, cd_size and cd_offset
  pos,      \* reader: pos
  found     \* reader: arc.entries

vars == <<pc, made, entries, inTail, file, size, end, pos, found>>

Smaller(a, b) == IF a <= b THEN a ELSE b

\* put_le into a field that holds up to most.
Field(v, most) == v % (most + 1)

\* Mutant of Wide: a length of LOW32 is taken to fit.
WideBeyond(v) == v > Low32

\* Whether a length or offset needs a ZIP64 field.
Wide(v) == v >= Low32

Narrow(v) == IF Wide(v) THEN Low32 ELSE v

\* What follows the last record.
Put(records, length) == file' = file \cup records /\ size' = size + length

-------------------------------------------------------------------------------
(* Writing. *)

Member(name, ulen, clen, offset, note) ==
  [name |-> name, ulen |-> ulen, clen |-> clen, offset |-> offset, note |-> note]

\* The values build_zip64_extra is asked for, in their order.
Extra64(e) ==
  (IF Wide(e.ulen) THEN <<e.ulen>> ELSE <<>>) \o (IF Wide(e.clen) THEN <<e.clen>> ELSE <<>>)
    \o (IF Wide(e.offset) THEN <<e.offset>> ELSE <<>>)

ExtraSize(values) == IF values = <<>> THEN 0 ELSE 4 + 8 * Len(values)

LocalExtra(e) == IF Wide(e.ulen) \/ Wide(e.clen) THEN 20 ELSE 0

\* The header of a member, and where it really ends.
Local(e, extra) ==
  [kind |-> "local", at |-> e.offset, name |-> Field(e.name, MaxShort), extra |-> extra,
   ends |-> e.offset + 30 + e.name + extra]

Central(at, e) ==
  [kind |-> "central", at |-> at,
   clen |-> Narrow(e.clen), ulen |-> Narrow(e.ulen), offset |-> Narrow(e.offset),
   name |-> Field(e.name, MaxShort), note |-> Field(e.note, MaxShort),
   extra |-> ExtraSize(Extra64(e)), values |-> IF e.name <= MaxShort THEN Extra64(e) ELSE <<>>]

\* What an entry of the directory takes.
EntrySize(e) == 46 + e.name + ExtraSize(Extra64(e)) + e.note

\* Where each entry of the directory of members es ends, counted from its beginning.
Ends(es) ==
  LET Place[n \in 0 .. Len(es)] == IF n = 0 THEN 0 ELSE Place[n - 1] + EntrySize(es[n])
  IN Place

\* The directory of members es, its first entry at place at.
Directory(at, es) == {Central(at + Ends(es)[i - 1], es[i]) : i \in DOMAIN es}

End64(at, count, cdSize, cdOffset) ==
  [kind |-> "end64", at |-> at, count |-> count, size |-> cdSize, offset |-> cdOffset]
Locator(at, off) == [kind |-> "locator", at |-> at, off |-> off]
EndOf(at, count, cdSize, cdOffset) ==
  [kind |-> "end", at |-> at, count |-> count, size |-> cdSize, offset |-> cdOffset]

\* What has to follow a locator, or else the end record itself, to be searched for it.
Follow(comment, z64) == comment + (IF z64 THEN 20 ELSE 0)

Init ==
  /\ pc = "open" /\ made = <<>> /\ entries = <<>> /\ inTail = TRUE
  /\ file = {} /\ size = 0
  /\ end = [count |-> 0, size |-> 0, offset |-> 0] /\ pos = 0 /\ found = <<>>

\* ZipWriter::Impl::add: a header and the data, deflated if that is shorter.
Add ==
  /\ pc = "open" /\ Len(made) < MaxMembers
  /\ \E name \in Names, ulen \in Lengths, clen \in Lengths, note \in Notes :
       /\ clen <= ulen
       /\ LET e == Member(name, ulen, clen, size, note)
          IN /\ made' = Append(made, e) /\ entries' = Append(entries, e)
             /\ Put({Local(e, LocalExtra(e))}, 30 + name + LocalExtra(e) + clen)
  /\ UNCHANGED <<pc, inTail, end, pos, found>>

\* A number of entries that the end record cannot tell.
Beyond16(count) == count > MaxCount

\* set_comment() and ZipWriter::Impl::write_central.
Finish ==
  /\ pc = "open" /\ pc' = "read"
  /\ \E comment \in Comments :
       LET count  == Len(entries)
           cdSize == Ends(entries)[count]
           after  == size + cdSize
           z64    == Beyond16(count) \/ Wide(cdSize) \/ Wide(size)
           tail   == IF z64 THEN 76 ELSE 0
       IN /\ Put(Directory(size, entries)
                   \cup (IF z64 THEN {End64(after, count, cdSize, size), Locator(after + 56, after)} ELSE {})
                   \cup {EndOf(after + tail, Smaller(count, MaxCount), Narrow(cdSize), Narrow(size))},
                 cdSize + tail + 22 + comment)
          /\ inTail' = (inTail /\ Follow(comment, z64) <= MaxShort)
  /\ UNCHANGED <<made, entries, end, pos, found>>

\* put_trailer's entry of member e: both lengths are in 64 bits if one of them needs
\* it, and a timestamp takes 9 bytes of the extra field.
StreamCentral(at, e) ==
  LET z64 == Wide(e.ulen) \/ Wide(e.clen)
  IN [Central(at, e) EXCEPT !.clen = IF z64 THEN Low32 ELSE e.clen,
                            !.ulen = IF z64 THEN Low32 ELSE e.ulen,
                            !.extra = IF z64 THEN 29 ELSE 9,
                            !.values = IF z64 /\ e.name <= MaxShort THEN <<e.ulen, e.clen>> ELSE <<>>]

\* put_header and put_trailer: one member, whose header has a timestamp, too, and
\* leaves the lengths to the descriptor of 24 bytes after the data.
Stream ==
  /\ pc = "open" /\ made = <<>> /\ file = {} /\ size = 0 /\ pc' = "read"
  /\ \E name \in Names, ulen \in Lengths, clen \in Lengths, note \in Notes :
       LET e    == Member(name, ulen, clen, 0, note)
           cdAt == 30 + name + 29 + clen + 24
           cent == 46 + name + StreamCentral(cdAt, e).extra + note
           tail == IF Wide(cdAt) THEN 76 ELSE 0
       IN /\ made' = <<e>>
          /\ Put({Local(e, 29), StreamCentral(cdAt, e)}
                   \cup (IF Wide(cdAt)
                         THEN {End64(cdAt + cent, 1, cent, cdAt), Locator(cdAt + cent + 56, cdAt + cent),
                               EndOf(cdAt + cent + tail, MaxCount, Low32, Low32)}
                         ELSE {EndOf(cdAt + cent, 1, cent, cdAt)}),
                 cdAt + cent + tail + 22)
          /\ inTail' = (inTail /\ Follow(0, Wide(cdAt)) <= MaxShort)
  /\ UNCHANGED <<entries, end, pos, found>>

-------------------------------------------------------------------------------
(* Reading. *)

\* The records of a kind that start at a place.
At(kind, place) == {r \in file : r.kind = kind /\ r.at = place}

\* The part of the file that is searched for its end record.
TailStart == size - Smaller(size, 22 + MaxShort)
EndsSeen == {r \in file : r.kind = "end" /\ r.at >= TailStart}

\* A field of the end record that may stand for a larger number.
Saturated(e) == e.count = MaxCount \/ e.size = Low32 \/ e.offset = Low32

Locators(e) == IF Saturated(e) /\ e.at - 20 >= TailStart THEN At("locator", e.at - 20) ELSE {}

\* The records whose numbers are taken for those that end record e may leave out.
Told(e) == IF Locators(e) = {} THEN {e} ELSE UNION {At("end64", l.off) : l \in Locators(e)}

Refuse == pc' = "refused" /\ UNCHANGED <<end, pos, found>>

\* The end of the archive is located, and the directory read into memory.
Locate ==
  /\ pc = "read"
  /\ LET told == UNION {Told(r) : r \in EndsSeen}
     IN \/ told = {} /\ Refuse
        \/ \E e \in told :
             IF e.offset + e.size > size THEN Refuse
             ELSE /\ end' = [count |-> e.count, size |-> e.size, offset |-> e.offset]
                  /\ pos' = 0 /\ found' = <<>> /\ pc' = "list"
  /\ UNCHANGED <<made, entries, inTail, file, size>>

\* parse_zip64_extra: the fields that are full, in their order, as far as there are values.
Resolved(c) ==
  LET full(v)    == IF v = Low32 THEN 1 ELSE 0
      take(v, i) == IF v = Low32 /\ i <= Len(c.values) THEN c.values[i] ELSE v
  IN Member(c.name, take(c.ulen, 1), take(c.clen, 1 + full(c.ulen)),
            take(c.offset, 1 + full(c.ulen) + full(c.clen)), c.note)

\* What the reader takes an entry of the directory to be long.
Extent(c) == 46 + c.name + c.extra + c.note

\* The next entry of the directory.
ListEntry ==
  /\ pc = "list" /\ Len(found) < end.count
  /\ LET here == {c \in At("central", end.offset + pos) : pos + Extent(c) <= end.size}
     IN \/ here = {} /\ Refuse
        \/ \E c \in here :
             /\ found' = Append(found, Resolved(c))
             /\ pos' = pos + Extent(c)
             /\ UNCHANGED <<pc, end>>
  /\ UNCHANGED <<made, entries, inTail, file, size>>

Listed ==
  /\ pc = "list" /\ Len(found) = end.count /\ pc' = "done"
  /\ UNCHANGED <<made, entries, inTail, file, size, end, pos, found>>

\* A ZipWriter that appends: the file is cut off where the directory began.
Reopen ==
  /\ pc = "done" /\ Len(made) < MaxMembers /\ pc' = "open"
  /\ entries' = found /\ size' = end.offset
  /\ file' = {r \in file : r.at < end.offset}
  /\ UNCHANGED <<made, inTail, end, pos, found>>

Next == Add \/ Finish \/ Stream \/ Locate \/ ListEntry \/ Listed \/ Reopen

Spec == Init /\ [][Next]_vars

-------------------------------------------------------------------------------

\* Names and comments that 16 bits can tell the length of, with room for the
\* locator in the part that is searched when there is one.
Fits == inTail /\ \A i \in DOMAIN made : made[i].name <= MaxShort /\ made[i].note <= MaxShort

\* member_data_offset().
DataAt(e) == {l.at + 30 + l.name + l.extra : l \in At("local", e.offset)}

\* An archive made by ZipWriter or by the command line, finished once or appended
\* to several times, lists exactly its members, with their lengths and places, and
\* finds the data of each behind its header, whichever of the numbers exceed 16 or
\* 32 bits or lie on the limit (zip.cpp:343-405, 462-509, 233-339, format.cpp:157-256).
ReadsBack ==
  pc \in {"done", "refused"} /\ Fits =>
    /\ pc = "done" /\ found = made
    /\ \A i \in DOMAIN made :
         DataAt(found[i]) = {l.ends : l \in At("local", made[i].offset)} /\ DataAt(found[i]) # {}
===============================================================================
