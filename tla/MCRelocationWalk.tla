-------------------------- MODULE MCRelocationWalk --------------------------
(***************************************************************************)
(* Images with a header page and three data pages of two doublewords each, *)
(* and all relocation tables for one or two of those pages; a table        *)
(* without blocks, and one that names a page outside of the image.         *)
(***************************************************************************)
EXTENDS RelocationWalk

\* Each doubleword is a pointer into the image, another for each, or is not one.
MCContents == {[k \in 1..6 |-> IF k \in s THEN 64 + 2 * k ELSE 5] : s \in SUBSET (1..6)}

Offsets == {<<0>>, <<4>>, <<0, 4>>}
Blocks  == [page : {8, 16, 24}, offsets : Offsets]
MCTables == {<<b>> : b \in Blocks} \cup
            {t \in Blocks \X Blocks : t[1].page < t[2].page} \cup
            {<<>>, <<[page |-> 128, offsets |-> <<0>>]>>}

\* The section ends with the table or is filled up; the image ends with the
\* section or goes on.
MCPaddings == {<<0, 0>>, <<4, 0>>, <<8, 0>>, <<0, 8>>, <<8, 8>>}
=============================================================================
