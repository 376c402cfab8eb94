------------------------------- MODULE MCCodecs --------------------------------
(* An instance for TLC of the four modules about files and fields written by one side
   and read by the other: they share nothing, and one of them runs in each behaviour. *)
EXTENDS ZipLayout, ZipDescriptor, RsyncLens, PngCodec

\* Distances on both sides of each limit of append_len().
BoundaryGaps == {1, 63, 64, 319, 320, 32831, 32832, 33088, 2129983, 2129984, LongestLen}

Grey(w, h, rows) == [width |-> w, height |-> h, channels |-> 1, pixels |-> rows]
Alpha(w, h, rows) == [width |-> w, height |-> h, channels |-> 2, pixels |-> rows]

\* All grey images of 2 by 2 pixels of three values, and some with two channels, or with
\* three rows.
SmallImages ==
  {Grey(2, 2, rows) : rows \in [1 .. 2 -> [1 .. 2 -> {0, 1, 3}]]}
    \cup {Alpha(2, 2, <<<<0, 3, 1, 3>>, second>>) : second \in [1 .. 4 -> {0, 2}]}
    \cup {Grey(3, 3, <<<<3, 0, 1>>, second, <<1, 2, 3>>>>) : second \in [1 .. 3 -> {0, 1, 3}]}
    \cup {Grey(4, 3, <<<<3, 0, 1, 2>>, <<0, 0, 1, 3>>, <<1, 2, 3, 0>>>>)}

\* The call of encode() in the behaviours that are about something else.
PngIdle ==
  PngInit /\ image = Grey(2, 2, <<<<0, 0>>, <<0, 0>>>>) /\ mode = 0 /\ ~isal /\ ~dense

OthersInit == Init /\ DescInit /\ LensInit

CodecsInit == OthersInit /\ PngInit

CodecsNext ==
  \/ DescInit /\ LensInit /\ PngIdle /\ Next /\ UNCHANGED <<descVars, lensVars, pngVars>>
  \/ Init /\ LensInit /\ PngIdle /\ DescNext /\ UNCHANGED <<vars, lensVars, pngVars>>
  \/ Init /\ DescInit /\ PngIdle /\ LensNext /\ UNCHANGED <<vars, descVars, pngVars>>
  \/ OthersInit /\ PngNext /\ UNCHANGED <<vars, descVars, lensVars>>

CodecsSpec == CodecsInit /\ [][CodecsNext]_<<vars, descVars, lensVars, pngVars>>
===============================================================================
