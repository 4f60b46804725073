------------------------ MODULE MCCodeSectionSweeper ------------------------
(***************************************************************************)
(* Instances of CodeSectionSweeper: all sections of a few bytes.           *)
(***************************************************************************)
EXTENDS CodeSectionSweeper

CONSTANTS Alphabet, Outside   \* the bytes a section has, and the byte behind it

\* What bytes mean.  The byte behind a jump, a call or a lea is its operand:
\* a distance, or a place in the section.  A direct jump has a short form and a
\* long one.
Byte == <<"nop", "int3", "ret", "short jmp", "jcc", "call", "lea", "invalid", "long jmp">>
Wide == {"short jmp", "long jmp", "jcc", "call", "lea"}

Decode(bytes, addr) ==
  LET at(a) == IF a \in Code THEN bytes[a] ELSE Outside
      byte  == Byte[at(addr)]
  IN [type   |-> IF byte \in {"short jmp", "long jmp"} THEN "jmp" ELSE byte,
      length |-> CASE byte = "long jmp" -> JmpLength
                   [] byte \in Wide \ {"long jmp"} -> 2
                   [] OTHER -> 1,
      op     |-> CASE byte = "lea" -> m_code_section_start + at(addr + 1) - 1
                   [] byte \in Wide \ {"lea"} -> at(addr + 1) - 5
                   [] OTHER -> Indirect,
      e9     |-> byte = "long jmp"]

SmallSections == {[a \in Code |-> Decode(bytes, a)] : bytes \in [Code -> Alphabet]}

\* No target at all, the begin of the section, and every second address.
SmallTargets ==
  {{}, {m_code_section_start}, {a \in Code : (a - m_code_section_start) % 2 = 0}}
=============================================================================
