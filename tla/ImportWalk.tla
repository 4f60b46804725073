----------------------------- MODULE ImportWalk -----------------------------
(***************************************************************************)
(* ImageInfo::AnalyzeDataDirectory (replay/ImageInfo.cpp): the ranges of   *)
(* an image that hold no code though they may lie in its code section.  All *)
(* data directories are such grey areas, and so are the table of imports   *)
(* (ILT) and that of their addresses (IAT) of each library that the import *)
(* directory lists.  A table ends with a zero, the directory with an entry *)
(* whose Characteristics, the place of its ILT, are zero.                  *)
(*                                                                         *)
(* Memory is a sequence of doublewords; addresses and sizes count them.  An *)
(* entry of the import directory is reduced to the two fields the walk     *)
(* follows.  Unlike AnalyzeRelocationEntry it reads with no check.  An     *)
(* entry of an ILT is an ordinal, or it says where the hint and the name   *)
(* of a symbol are, which is then read as far as a zero byte.  The name of *)
(* a library is read only for a log entry, and no entry is enabled.        *)
(***************************************************************************)
EXTENDS LoadedImage

CONSTANTS
  Libraries,   \* what an import may be: [ilt, count, symbol], where each entry of
               \* its tables holds the symbol
  MaxCount,    \* the most entries of a table
  MaxImports,  \* the most libraries of an image
  Headers      \* the first doublewords of an image

ASSUME ImportWalkAssumption ==
  /\ MaxCount \in Nat /\ MaxImports \in Nat /\ Headers \subseteq Seq(Nat)
  /\ Libraries \subseteq [ilt : {"table", "none", "outside"}, count : 0..MaxCount,
                    symbol : Nat \ {0}]

ENTRY == 2    \* the size of an entry of the import directory
HINT  == 1    \* the size of a hint, which a name follows

\* An entry from here on is an ordinal: 0x80000000, scaled down to the numbers of
\* TLC, or in PE32+ its upper half.
ORDINAL_FLAG == 1073741824

VARIABLES
  imports, dirs, \* the image's imports and data directories
  thunk,        \* the size of a table's entry: PE32, PE32+, or 0: neither
  tail,         \* what follows the last table: "code", code without a zero byte
                \* ("packed"), nothing, or not even its final zero ("cut")
  import_directory_entry, ilt_addr, ilt_size, iat_addr, iat_size,
  grey_areas    \* pairs of a start and a size

\* pc is "dirs", "entry", "ilt", "iat", "done" or "outside".
import_image  == <<imports, words, dirs, thunk, tail>>
import_locals == <<import_directory_entry, ilt_addr, ilt_size, iat_addr, iat_size>>
import_vars   == <<import_image, pc, import_locals, grey_areas>>
-----------------------------------------------------------------------------
(***************************************************************************)
(* The image: a header, the import directory, the tables, code.            *)
(***************************************************************************)
Table == (MaxCount + 1) * thunk
Code  == <<9, 9, 9>>

\* As much code, none of its bytes zero.
PackedCode == <<16843009, 16843009, 16843009>>

IltRva(header, k) ==
  CASE imports[k].ilt = "none"    -> 0
    [] imports[k].ilt = "outside" -> \* behind the code, too
         Len(header) + ENTRY * (Len(imports) + 1) + 2 * Len(imports) * Table + Len(Code)
    [] OTHER -> Len(header) + ENTRY * (Len(imports) + 1) + 2 * (k - 1) * Table
IatRva(header, k) ==
  Len(header) + ENTRY * (Len(imports) + 1) + (2 * k - 1) * Table

\* Of an entry of two doublewords one is zero: the upper of a name's, the lower of
\* an ordinal's.
Half(symbol) == IF symbol >= ORDINAL_FLAG THEN 1 ELSE 0

ImportTable(library) ==
  [w \in 1..Table |->
     IF /\ (w - 1) \div thunk < library.count
        /\ thunk = 1 \/ (w - 1) % thunk = Half(library.symbol)
     THEN library.symbol ELSE 0]

Layout(header) ==
  header
    \o FlattenSeq([k \in 1..Len(imports) |-> <<IltRva(header, k), IatRva(header, k)>>])
    \o <<0, 0>>
    \o FlattenSeq([k \in 1..Len(imports) |->
                     ImportTable(imports[k]) \o ImportTable(imports[k])])

ImportInit ==
  /\ imports \in UNION {[1..n -> Libraries] : n \in 0..MaxImports}
  /\ thunk \in {0, 1, 2} /\ tail \in {"code", "packed", "none", "cut"}
  /\ \E header \in Headers, listed \in BOOLEAN :
       LET all == Layout(header)
       IN /\ words = CASE tail = "code" -> all \o Code
                       [] tail = "packed" -> all \o PackedCode
                       [] tail = "none" -> all
                       [] tail = "cut"  -> SubSeq(all, 1, Len(all) - thunk)
          /\ dirs = << <<0, 0>>,
                       IF listed THEN <<Len(header), ENTRY * (Len(imports) + 1)>>
                                 ELSE <<0, 0>>,
                       <<1, 1>> >>
  /\ import_directory_entry = 0 /\ ilt_addr = 0 /\ iat_addr = 0
  /\ ilt_size = 0 /\ iat_size = 0
  /\ grey_areas = <<>> /\ pc = "dirs"

\* IsAddrWithinModule
InImage(addr) == IsAddrMapped_Imp(addr, Len(words))

Doubleword(addr) == words[addr - m_address + 1]

Readable(addr, n) == \A a \in addr..(addr + n - 1) : InImage(a)
Zero(addr, n)     == \A a \in addr..(addr + n - 1) : Doubleword(a) = 0

\* Mutant: half of an entry of two doublewords decides.
HalfEntry == IF thunk = 2 THEN 1 ELSE thunk

\* The doublewords of an entry of a table that are compared with zero.
WholeEntry == thunk

\* What a loop over the table at addr does next, with size doublewords behind
\* it.  Only the table's beginning is checked to be in the image.
Ends(addr, size) ==
  InImage(addr) =>
    Readable(addr + size, thunk) /\ Zero(addr + size, WholeEntry)
GoesOn(addr, size) ==
  /\ InImage(addr) /\ Readable(addr + size, thunk)
  /\ ~Zero(addr + size, WholeEntry)
RunsOut(addr, size) == InImage(addr) /\ ~Readable(addr + size, thunk)

ZeroByte(d) == \E unit \in {1, 256, 65536, 16777216} : (d \div unit) % 256 = 0

\* The hint and the beginning of its name are in the image, the name's end is not:
\* the string is read over the end.
Endless(rva) ==
  LET name == m_address + rva + HINT
  IN /\ InImage(m_address + rva) /\ InImage(name)
     /\ \A a \in name..(m_address + Len(words) - 1) : ~ZeroByte(Doubleword(a))

\* The entry at addr is that of a name, which is read.
ReadsEndless(addr) ==
  Doubleword(addr + thunk - 1) < ORDINAL_FLAG /\ Endless(Doubleword(addr))
-----------------------------------------------------------------------------
\* A read outside of the image: an access violation, or other memory is taken
\* for a table.
Outside ==
  /\ \/ pc = "entry" /\ ~Readable(import_directory_entry, 1)
     \/ /\ pc = "entry" /\ Readable(import_directory_entry, 1)
        /\ Doubleword(import_directory_entry) # 0
        /\ ~Readable(import_directory_entry, ENTRY)
     \/ pc = "ilt" /\ RunsOut(ilt_addr, ilt_size)
     \/ pc = "ilt" /\ GoesOn(ilt_addr, ilt_size) /\ ReadsEndless(ilt_addr + ilt_size)
     \/ pc = "iat" /\ RunsOut(iat_addr, iat_size)
  /\ pc' = "outside"
  /\ UNCHANGED <<import_image, import_locals, grey_areas>>

\* Mutant: the index is counted from one.
IndexFromOne == 1

\* The place of the import directory among the data directories.
IMAGE_DIRECTORY_ENTRY_IMPORT == 2

\* The data directories: those that are there are grey.
Directories ==
  /\ pc = "dirs"
  /\ grey_areas' =
       IF thunk = 0 THEN <<>>
       ELSE FlattenSeq([k \in 1..Len(dirs) |->
              IF dirs[k] = <<0, 0>> THEN <<>> ELSE << <<m_address + dirs[k][1], dirs[k][2]>> >>])
  /\ import_directory_entry' = m_address + dirs[IMAGE_DIRECTORY_ENTRY_IMPORT][1]
  /\ pc' = IF thunk # 0 /\ InImage(import_directory_entry')
           THEN "entry" ELSE "done"
  /\ UNCHANGED <<import_image, ilt_addr, ilt_size, iat_addr, iat_size>>

\* The import directory ends, or its next entry is read.
LastEntry ==
  /\ pc = "entry" /\ Readable(import_directory_entry, 1)
  /\ Doubleword(import_directory_entry) = 0
  /\ pc' = "done"
  /\ UNCHANGED <<import_image, import_locals, grey_areas>>

Entry ==
  /\ pc = "entry" /\ Readable(import_directory_entry, ENTRY)
  /\ Doubleword(import_directory_entry) # 0
  /\ ilt_addr' = m_address + Doubleword(import_directory_entry)
  /\ iat_addr' = m_address + Doubleword(import_directory_entry + 1)
  /\ ilt_size' = 0 /\ iat_size' = 0
  /\ pc' = "ilt"
  /\ UNCHANGED <<import_image, import_directory_entry, grey_areas>>

\* The loop over the ILT, which reads the name of each symbol that has one.
IltItem ==
  /\ pc = "ilt" /\ GoesOn(ilt_addr, ilt_size) /\ ~ReadsEndless(ilt_addr + ilt_size)
  /\ ilt_size' = ilt_size + thunk
  /\ UNCHANGED <<import_image, pc, import_directory_entry, ilt_addr, iat_addr, iat_size,
                 grey_areas>>

IltEnd ==
  /\ pc = "ilt" /\ Ends(ilt_addr, ilt_size)
  /\ pc' = "iat"
  /\ UNCHANGED <<import_image, import_locals, grey_areas>>

\* The loop over the IAT; behind it both tables are grey, and the next entry of
\* the directory follows.
IatItem ==
  /\ pc = "iat" /\ GoesOn(iat_addr, iat_size)
  /\ iat_size' = iat_size + thunk
  /\ UNCHANGED <<import_image, pc, import_directory_entry, ilt_addr, ilt_size, iat_addr,
                 grey_areas>>

\* Mutant: the walk stays at its entry.
IatEndStays ==
  /\ pc = "iat" /\ Ends(iat_addr, iat_size)
  /\ pc' = "entry"
  /\ UNCHANGED <<import_image, import_locals, grey_areas>>

IatEnd ==
  /\ pc = "iat" /\ Ends(iat_addr, iat_size)
  /\ grey_areas' = grey_areas \o << <<ilt_addr, ilt_size>>, <<iat_addr, iat_size>> >>
  /\ import_directory_entry' = import_directory_entry + ENTRY
  /\ pc' = "entry"
  /\ UNCHANGED <<import_image, ilt_addr, ilt_size, iat_addr, iat_size>>

AnalyzeDataDirectory ==
  \/ Directories \/ LastEntry \/ Entry \/ IltItem \/ IltEnd \/ IatItem \/ IatEnd
  \/ Outside

Returned == pc \in {"done", "outside"} /\ UNCHANGED import_vars

ImportNext == AnalyzeDataDirectory \/ Returned

ImportSpec == ImportInit /\ [][ImportNext]_import_vars /\ WF_import_vars(AnalyzeDataDirectory)
-----------------------------------------------------------------------------
\* The imports in front of the first without an ILT, whose entry of the
\* directory has Characteristics zero though it is not the last.
Listed == Min({k \in 1..(Len(imports) + 1) :
                 k <= Len(imports) => imports[k].ilt = "none"}) - 1

\* The grey areas of an import: as much of each table as has entries.  A table
\* that is not in the image counts as empty.
AreasOf(k) ==
  LET entry == m_address + dirs[2][1] + ENTRY * (k - 1)
      size  == imports[k].count * thunk
  IN << <<m_address + Doubleword(entry), IF imports[k].ilt = "table" THEN size ELSE 0>>,
        <<m_address + Doubleword(entry + 1), size>> >>

DirectoryAreas == << <<m_address + dirs[2][1], dirs[2][2]>>, <<m_address + 1, 1>> >>

\* With an import directory the walk finds all directories and the tables of
\* all imports up to the first without an ILT, in order, entry for entry; a
\* library of a linker that writes no ILT hides itself and those behind it, for
\* which the comment takes only a last, empty entry (ImageInfo.cpp:225, 325-463).
GreyAreasExact ==
  pc = "done" /\ dirs[2] # <<0, 0>> =>
    grey_areas = IF thunk = 0 THEN <<>>
                 ELSE DirectoryAreas \o FlattenSeq([k \in 1..Listed |-> AreasOf(k)])

\* An import in front of the first without ILT names its symbols in a place from
\* which no zero byte follows in the image.
NameUnended ==
  \E k \in 1..Listed : /\ imports[k].ilt = "table" /\ imports[k].count > 0
                        /\ imports[k].symbol < ORDINAL_FLAG /\ Endless(imports[k].symbol)

\* The walk leaves the image only when a table's last zero is missing at its end,
\* when a symbol's name is not ended in the image, whose beginning only is checked,
\* or when there is no import directory: its place, 0, is taken for an address
\* in the image, and the image's header for an entry (ImageInfo.cpp:317-325,
\* 345-410).
OutsideOnlyBroken == pc = "outside" => tail = "cut" \/ NameUnended \/ dirs[2] = <<0, 0>>

\* The walk ends, whatever it walks over (ImageInfo.cpp:325-463).
ImportWalkEnds == <>(pc \in {"done", "outside"})
=============================================================================
