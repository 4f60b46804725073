--------------------------- MODULE RelocationWalk ---------------------------
(***************************************************************************)
(* ImageInfo::AnalyzeRelocationEntry (replay/ImageInfo.cpp): for each image *)
(* that is loaded the tool walks the .reloc section and collects the       *)
(* addresses that relocated pointers hold.  The section is a sequence of   *)
(* blocks, one for a page: the page's address, the block's length, and     *)
(* items of two bytes, a type and an offset in the page.                   *)
(*                                                                         *)
(* Memory is a sequence of words (two bytes).  A page has PAGE bytes       *)
(* instead of 4096, so that a word is type * PAGE + offset, and a word has *)
(* WORD values.  Every read goes through SecureDereference.                *)
(***************************************************************************)
EXTENDS LoadedImage

CONSTANTS
  PAGE,        \* bytes in a page
  Contents,    \* sequences of doublewords: what the data pages may hold
  Tables,      \* the relocation tables: sequences of [page, offsets]
  Paddings     \* pairs: zero bytes behind the table, in the section and after it

HIGHLOW == 3          \* the type of an item that is a whole pointer
WORD    == 16 * PAGE  \* 0x10000

ASSUME RelocationWalkAssumption ==
  /\ PAGE \in Nat \ {0} /\ Contents \subseteq Seq(Nat)
  /\ Paddings \subseteq Nat \X Nat

VARIABLES
  table,                \* the image's relocation table
  reloc_section_start, reloc_section_size,
  reloc_block_addr, block_base_addr, block_len, i,  \* the locals
  m_reloc_targets

\* pc is "head", "item", "done" or "thrown".
image  == <<table, words, reloc_section_start, reloc_section_size>>
locals == <<reloc_block_addr, block_base_addr, block_len, i>>
vars   == <<image, locals, pc, m_reloc_targets>>

-----------------------------------------------------------------------------
(***************************************************************************)
(* The image, as a linker lays it out: a header page, the data pages, the  *)
(* relocation table.                                                       *)
(***************************************************************************)
Zeros(n)     == [k \in 1..n |-> 0]
TwoWords(d)  == <<d % WORD, d \div WORD>>

\* A block has an even number of items; an item of type 0 fills it up.
Items(b)     == LET is == [k \in 1..Len(b.offsets) |-> HIGHLOW * PAGE + b.offsets[k]]
                IN is \o Zeros(Len(is) % 2)
BlockSize(b) == 8 + 2 * Len(Items(b))
Block(b)     == TwoWords(b.page) \o TwoWords(BlockSize(b)) \o Items(b)
TableWords(t) == FlattenSeq([k \in 1..Len(t) |-> Block(t[k])])

\* What a linker writes: pages begin at multiples of their size, and an image is
\* too small for the upper half of a page's address to look like an item.  A
\* block has an item for a byte of its page at most; with PAGE = 4096 that is
\* shorter than three pages.
ASSUME TablesAssumption ==
  /\ Tables \subseteq Seq([page : Nat, offsets : Seq(0..(PAGE - 1))])
  /\ \A t \in Tables : \A k \in 1..Len(t) :
       /\ t[k].page % PAGE = 0 /\ t[k].page < HIGHLOW * PAGE * WORD
       /\ BlockSize(t[k]) < HIGHLOW * PAGE

m_size == 2 * Len(words)

IsAddrWithinModule(addr) == IsAddrMapped_Imp(addr, m_size)

\* The doubleword at an address, whatever follows the image being zero.
WordAt(addr)       == LET k == (addr - m_address) \div 2 + 1
                      IN IF k \in 1..Len(words) THEN words[k] ELSE 0
DoublewordAt(addr) == WordAt(addr) + WORD * WordAt(addr + 2)

Init ==
  /\ table \in Tables
  /\ \E content \in Contents, padding \in Paddings :
       LET data == Zeros(PAGE \div 2) \o
                   FlattenSeq([k \in 1..Len(content) |-> TwoWords(content[k])])
       IN /\ words = data \o TableWords(table)
                     \o Zeros((padding[1] + padding[2]) \div 2)
          /\ reloc_section_start = m_address + 2 * Len(data)
          /\ reloc_section_size = 2 * Len(TableWords(table)) + padding[1]
  /\ reloc_block_addr = reloc_section_start
  /\ block_base_addr = 0 /\ block_len = 0 /\ i = 0
  /\ pc = "head"
  /\ m_reloc_targets = {}

-----------------------------------------------------------------------------
\* Mutant: every read counts as one of a doubleword and the next byte.
ThrowEarly(addrs) ==
  /\ \E addr \in addrs : ~IsAddrWithinModule(addr + 4)
  /\ pc' = "thrown"
  /\ UNCHANGED <<image, locals, m_reloc_targets>>

\* SecureDereference throws: out of the constructor, and no image is appended.
Throw(addrs) ==
  /\ \E addr \in addrs : ~IsAddrWithinModule(addr)
  /\ pc' = "thrown"
  /\ UNCHANGED <<image, locals, m_reloc_targets>>

\* The loop's condition does not hold any more.
Finish ==
  /\ pc = "head"
  /\ reloc_block_addr >= reloc_section_start + reloc_section_size
  /\ pc' = "done"
  /\ UNCHANGED <<image, locals, m_reloc_targets>>

\* Mutant: a block of zeros does not end the table.
BlockHeaderGoesOn ==
  /\ pc = "head"
  /\ reloc_block_addr < reloc_section_start + reloc_section_size
  /\ \A a \in {reloc_block_addr, reloc_block_addr + 4} : IsAddrWithinModule(a)
  /\ block_base_addr' = DoublewordAt(reloc_block_addr)
  /\ block_len' = DoublewordAt(reloc_block_addr + 4)
  /\ i' = 0
  /\ pc' = "item"
  /\ UNCHANGED <<image, reloc_block_addr, m_reloc_targets>>

\* A block's page and length; two zeros end the table.
BlockHeader ==
  /\ pc = "head"
  /\ reloc_block_addr < reloc_section_start + reloc_section_size
  /\ \/ Throw({reloc_block_addr, reloc_block_addr + 4})
     \/ /\ \A a \in {reloc_block_addr, reloc_block_addr + 4} : IsAddrWithinModule(a)
        /\ block_base_addr' = DoublewordAt(reloc_block_addr)
        /\ block_len' = DoublewordAt(reloc_block_addr + 4)
        /\ i' = 0
        /\ pc' = IF block_base_addr' = 0 /\ block_len' = 0 THEN "done" ELSE "item"
        /\ UNCHANGED <<image, reloc_block_addr, m_reloc_targets>>

\* Where an item of the current block points.
TargetAddr(item) == m_address + (item % PAGE) + block_base_addr

\* One turn of the loop over items, at reloc_block_addr + i + 8.
Item ==
  /\ pc = "item" /\ i < block_len
  /\ LET item_addr == reloc_block_addr + i + 8
         item      == WordAt(item_addr)
     IN \/ Throw({item_addr})
        \/ /\ IsAddrWithinModule(item_addr) /\ item \div PAGE = HIGHLOW
           /\ \/ Throw({TargetAddr(item)})
              \/ /\ IsAddrWithinModule(TargetAddr(item))
                 /\ LET reloc_target == DoublewordAt(TargetAddr(item))
                    IN m_reloc_targets' = IF IsAddrWithinModule(reloc_target)
                                          THEN m_reloc_targets \cup {reloc_target}
                                          ELSE m_reloc_targets
                 /\ i' = i + 2
                 /\ UNCHANGED <<image, reloc_block_addr, block_base_addr,
                                block_len, pc>>
        \/ /\ IsAddrWithinModule(item_addr) /\ item \div PAGE # HIGHLOW
           /\ i' = i + 2
           /\ UNCHANGED <<image, reloc_block_addr, block_base_addr, block_len,
                          pc, m_reloc_targets>>

\* Mutant: the loop may end an item early.
NextBlockEarly ==
  /\ pc = "item" /\ i + 10 >= block_len
  /\ reloc_block_addr' = reloc_block_addr + block_len
  /\ pc' = "head"
  /\ UNCHANGED <<image, block_base_addr, block_len, i, m_reloc_targets>>

\* On to the next block.
NextBlock ==
  /\ pc = "item" /\ i >= block_len
  /\ reloc_block_addr' = reloc_block_addr + block_len
  /\ pc' = "head"
  /\ UNCHANGED <<image, block_base_addr, block_len, i, m_reloc_targets>>

AnalyzeRelocationEntry == BlockHeader \/ Finish \/ Item \/ NextBlock

\* The constructor has returned, or not.
Stopped == pc \in {"done", "thrown"} /\ UNCHANGED vars

Next == AnalyzeRelocationEntry \/ Stopped

Spec == Init /\ [][Next]_vars /\ WF_vars(AnalyzeRelocationEntry)
-----------------------------------------------------------------------------
\* What the items of block k, and those of all blocks, point at.
Pointees(k) == {DoublewordAt(m_address + table[k].page + table[k].offsets[j]) :
                  j \in 1..Len(table[k].offsets)}
Described   == {d \in UNION {Pointees(k) : k \in 1..Len(table)} : IsAddrWithinModule(d)}

\* The walk counts a block's header among its items, and so goes 8 bytes into
\* the next block, whose page looks like an item when its number ends in 3: an
\* item at the beginning of the block's own page.
Mistaken == {DoublewordAt(m_address + table[k].page) :
               k \in {j \in 1..(Len(table) - 1) : (table[j + 1].page % WORD) \div PAGE = HIGHLOW}}

\* Every relocated pointer into the image is found, whatever the walk makes of
\* the bytes between blocks, and nothing else at any time, but for pages that
\* look like items (ImageInfo.cpp:155-189).
TargetsExact ==
  /\ pc = "done" => Described \subseteq m_reloc_targets
  /\ m_reloc_targets \subseteq Described \cup Mistaken

\* The walk throws only where it reads behind the table at the image's end, or
\* where the table names a page, or an item in it, that is outside: the 8 bytes
\* behind the last block decide about a table without a flaw
\* (ImageInfo.cpp:172-174, ImageInfo.h:85-97).
ThrowsOnlyOutside ==
  pc = "thrown" =>
    \/ \E n \in {0, 2, 4, 6} :
         reloc_section_start + 2 * Len(TableWords(table)) + n = m_address + m_size
    \/ \E k \in 1..Len(table) : \E offset \in {0} \cup Range(table[k].offsets) :
         ~IsAddrWithinModule(m_address + table[k].page + offset)

\* The walk of a table that a linker wrote ends (ImageInfo.cpp:155-165).
WalkEnds == <>(pc \in {"done", "thrown"})
=============================================================================
