--------------------------- MODULE MCArchiveWriter ---------------------------
(***************************************************************************)
(* Two writers of one destination, which holds an archive of one file: the *)
(* first adds up to four times at x, y and y/x/x, the second closes an     *)
(* empty archive.  <<a>> and <<b>> have one digest, so that a copy of <<b>>*)
(* may be stored again; b and c have one chunk hash; <<a, c>> is of two    *)
(* runs of chunks, of which the second may have a file too many.           *)
(***************************************************************************)
EXTENDS ArchiveWriter

CONSTANTS a, b, c, zero, w1, w2

MCContent == {<<>>, <<a>>, <<b>>, <<a, c>>}
MCDigest == [s \in MCContent |-> IF s = <<b>> THEN <<a>> ELSE s]
MCHash == [x \in {a, b, c} |-> IF x = a THEN 1 ELSE 2]
MCPath == [w \in {w1, w2} |-> {<<"x">>, <<"y">>, <<"y", "x", "x">>}]
MCMaxAdds == [w \in {w1, w2} |-> IF w = w1 THEN 4 ELSE 0]
MCOld == Assemble(<<[dir |-> FALSE, parent |-> 0, name |-> "z", depth |-> 0,
                     spool |-> 0, size |-> 1, digest |-> <<c>>]>>, <<c>>)
==============================================================================
