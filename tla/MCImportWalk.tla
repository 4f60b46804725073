---------------------------- MODULE MCImportWalk ----------------------------
(***************************************************************************)
(* Images with up to two imports of up to two symbols each, with an ILT,   *)
(* without one, or with one that is not in the image; symbols with a name  *)
(* and without; headers that look like an entry of an import directory     *)
(* whose tables are in the image, or are not, and that have an end or lead *)
(* into the import directory.                                              *)
(***************************************************************************)
EXTENDS ImportWalk

\* Ordinals, names behind the tables of one or two imports, at the image's last
\* doublewords too, and names said to be in the header or outside of the image.
MCSymbols   == {ORDINAL_FLAG + 7, 1, 12, 14, 20, 21, 34, 500}
MCLibraries ==
  [ilt : {"table"}, count : 1..2, symbol : MCSymbols]
    \cup [ilt : {"table", "none", "outside"}, count : {0, 2}, symbol : {ORDINAL_FLAG + 7}]
MCHeaders   == {<<1, 3>>, <<5, 500>>, <<2, 9, 0, 0>>}
=============================================================================
