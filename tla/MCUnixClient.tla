---------------------------- MODULE MCUnixClient ----------------------------
(* A client of one or two channels.                                        *)
EXTENDS UnixClient

\* The first message is the longest.
LongAndShort == <<3, 1>>
Short        == <<1>>
None         == <<>>

Symmetry == Permutations(Channels)
=============================================================================
