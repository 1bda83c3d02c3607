--------------------------- MODULE MCImageImport ---------------------------
(* Files of two or three chunks for TLC; a GiB holds two chunks.            *)
EXTENDS ImageImport

\* Two releases of a file whose zero chunks are in the same places; the second
\* needs a larger disk.
Old == <<0, 1>>
New == <<0, 2, 0>>
SameZeroFiles == {Old, New}
OldOrNone == {Old, NoFile}
OneFile == {Old}
BothFiles == {Old, New}

\* Two releases whose zero chunks differ.
OtherZeroFiles == {<<1, 0>>, <<0, 2>>}

\* A file without zero chunks.
WholeFile == {<<1, 2>>}
=============================================================================
