----------------------------- MODULE MCDecompress ------------------------------
(* Inputs for Decompress. *)
EXTENDS Decompress, SequencesExt

\* Everything that can stand behind a gzip header, up to four units.
Tails == UNION {[1 .. n -> {"gzip", "data", "end", "sum", "bad", "junk"}] : n \in 0 .. 4}

TwoMembers == <<"gzip", "data", "data", "end", "sum", "gzip", "data", "end">>

\* Any short input, and longer ones of two members, of other formats and without a header,
\* but none in which a member of another format follows a gzip member.
AnyFile ==
  {<<"gzip">> \o t : t \in Tails}
    \cup {SubSeq(TwoMembers \o <<s>>, 1, n) : s \in {"sum", "bad"}, n \in 6 .. 9}
    \cup {TwoMembers \o <<"sum", "junk", "junk">>}
    \cup {<<"zlib", "data", "data", "end">> \o t : t \in {<<>>, <<"sum">>, <<"bad">>, <<"sum", "gzip">>}}
    \cup {<<h, "data", "data", "end">> \o t : h \in {"zip", "zipbad"}, t \in {<<>>, <<"junk">>}}
    \cup {<<"zipd", "data", "data", "end">> \o t : t \in {<<>>, <<"sum">>, <<"bad">>}}
    \cup {<<>>, <<"junk">>, <<"junk", "data", "data">>, <<"zip", "data">>}

\* A gzip member, whole, and a member of another format, or part of one, behind it.
Foreign ==
  {SubSeq(<<"gzip", "data", "end", "sum", h, "data", "end", "sum">>, 1, n) :
     h \in {"zlib", "zip", "zipd"}, n \in 5 .. 8}

\* Inputs whose DEFLATE data ends too early or is invalid.
Uninflatable == {<<"gzip", "data", "junk">>, <<"gzip", "data", "data">>}
===============================================================================
