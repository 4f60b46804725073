---------------------------- MODULE StaticTrace ----------------------------
(***************************************************************************)
(* StaticTrace (replay/StaticTrace.h, StaticTrace.cpp): a run of           *)
(* instructions in a code section, from a start to the first instruction   *)
(* that does not fall through, and the addresses it leads to.              *)
(*                                                                         *)
(* A section gives for each of its addresses the instruction that libdasm  *)
(* reads there: [type, length, op, e9], where op is the operand of a       *)
(* direct jump or call as a distance, the address of a lea, or Indirect,   *)
(* and e9 whether its first byte is 0xE9, the long form of a direct jump.  *)
(***************************************************************************)
EXTENDS Integers, FiniteSets

CONSTANTS
  m_code_section_start, m_code_section_size,
  AddressSpace,  \* 2^32
  MaxLength,     \* of an instruction
  Indirect       \* an operand that is not in the instruction

ASSUME StaticTraceAssumption ==
  /\ m_code_section_start \in Nat \ {0} /\ m_code_section_size \in Nat \ {0}
  /\ AddressSpace \in Nat
  /\ m_code_section_start + m_code_section_size + MaxLength < AddressSpace
  /\ MaxLength \in Nat \ {0} /\ Indirect \notin Int

code_section_end == m_code_section_start + m_code_section_size
Code             == m_code_section_start..(code_section_end - 1)

IsAddrCode(addr) == addr \in Code

\* get_instruction fails: outside of the section, or no instruction.
Unreadable(section, addr) == ~IsAddrCode(addr) \/ section[addr].type = "invalid"

\* Where a direct jump or call goes.
DirectTargets(section, addr) ==
  LET i == section[addr]
  IN IF i.op = Indirect THEN {} ELSE {(addr + i.length + i.op) % AddressSpace}

\* The targets an instruction yields: where it goes, and where a call returns.
GenTargets(section, addr) ==
  (IF section[addr].type \in {"jmp", "jcc", "call"} THEN DirectTargets(section, addr)
   ELSE {})
  \cup (IF section[addr].type = "call" THEN {addr + section[addr].length} ELSE {})

\* The data an instruction takes the address of.
LeaTargets(section, addr) ==
  IF section[addr].type = "lea" /\ section[addr].op # Indirect
  THEN {section[addr].op} ELSE {}

\* What a trace from each address is: its size, gen_targets and lea_targets.
process(section) ==
  LET walk[addr \in m_code_section_start..(code_section_end + MaxLength)] ==
        IF Unreadable(section, addr) THEN [size |-> 0, gen |-> {}, lea |-> {}]
        ELSE LET i    == section[addr]
                 rest == IF i.type \in {"jmp", "call", "ret"}
                         THEN [size |-> 0, gen |-> {}, lea |-> {}]
                         ELSE walk[addr + i.length]
             IN [size |-> i.length + rest.size,
                 gen  |-> GenTargets(section, addr) \cup rest.gen,
                 lea  |-> LeaTargets(section, addr) \cup rest.lea]
  IN walk

\* Do the bytes from start1 on and those from start2 on meet?
Intersect(start1, size1, start2, size2) ==
  ~(start1 + size1 <= start2 \/ start1 >= start2 + size2)
=============================================================================
