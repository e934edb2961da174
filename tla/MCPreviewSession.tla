--------------------------- MODULE MCPreviewSession ---------------------------
(***************************************************************************)
(* PreviewSession for TLC.                                                 *)
(***************************************************************************)
EXTENDS PreviewSession

Sent(files, piece) ==
    [shape |-> "bencoded", info |-> TRUE, named |-> TRUE, piece |-> piece, files |-> files]

Video(shared, length) == [video |-> TRUE, shared |-> shared, length |-> length]

Other(length) == [video |-> FALSE, shared |-> 2, length |-> length]

\* Files that a piece shares with their neighbours, that end in the middle of a piece,
\* of one byte; and payloads one or both of the parsers refuse.
MCPayloads ==
    {Sent(<<Video(0, 16)>>, 3), Sent(<<Other(3), Video(0, 9), Video(1, 8)>>, 3),
     Sent(<<Video(0, 1)>>, 2), Sent(<<Other(2)>>, 2), Sent(<<Video(0, 3), Other(-1)>>, 2),
     [Sent(<<Video(0, 3)>>, 2) EXCEPT !.named = FALSE],
     [Sent(<<Video(0, 3)>>, 2) EXCEPT !.info = FALSE],
     [Sent(<<>>, 1) EXCEPT !.shape = "cut"], [Sent(<<>>, 1) EXCEPT !.shape = "other"]}

MCRetryRanges == <<3, 5>>
=============================================================================
