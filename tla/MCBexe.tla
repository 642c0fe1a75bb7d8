-------------------------------- MODULE MCBexe -------------------------------
(* Every program of three instructions over the instruction set below, with  *)
(* one byte of data, two of bss and three of stack.                          *)
EXTENDS Bexe
Instructions ==
  {[op |-> o, addr |-> 0] : o \in {"JMP", "JE", "JL", "CALL"}}
  \cup {[op |-> o, addr |-> 2] : o \in {"JMP", "CALL"}}
  \cup {[op |-> o, mode |-> "reg", dst |-> "rax", src |-> "rbx"] : o \in {"ADD", "DIV", "CMP"}}
  \cup {[op |-> "MV", mode |-> "imm", dst |-> "rax", imm |-> 7], [op |-> "MV", mode |-> "reg", dst |-> "rbx", src |-> "rax"],
        [op |-> "SUB", mode |-> "imm", dst |-> "rax", imm |-> 1], [op |-> "CMP", mode |-> "imm", dst |-> "rax", imm |-> 1],
        [op |-> "MV", mode |-> "imm", dst |-> "rsp", imm |-> 1], [op |-> "SUB", mode |-> "imm", dst |-> "rsp", imm |-> 1]}
  \cup {[op |-> "PUSH", dst |-> "rax"], [op |-> "PUSH", dst |-> "rsp"], [op |-> "POP", dst |-> "rbx"], [op |-> "POP", dst |-> "rsp"]}
  \cup {[op |-> o] : o \in {"RET", "INT80", "INT", "HLT", "NOP", "BAD"}}
MCPrograms == [0..2 -> Instructions]
==============================================================================
