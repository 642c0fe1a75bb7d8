--------------------------------- MODULE Bexe --------------------------------
(***************************************************************************)
(* The shell's exec command and the virtual machine it runs               *)
(* (kernel/src/kernel/executor/bexe.c): bexe_load, the instruction loop of *)
(* bexe_execute and bexe_free, for any number of programs one after the    *)
(* other.                                                                  *)
(*                                                                         *)
(* The machine is scaled down: a word has two bytes instead of eight, and  *)
(* an instruction fills one byte, so that ip, rsp and return addresses are *)
(* byte addresses as in the code and a word can straddle any two bytes.    *)
(* rax and rbx stand for the fifteen registers that are not rsp, which is  *)
(* an operand like any other (index 4).  The bytes a code or data section  *)
(* is loaded with are not followed: a word read from there may be any.     *)
(* A syscall answers with any value and does not write the VM's memory:    *)
(* only fb_print takes a VM address, and it only reads.                    *)
(***************************************************************************)
EXTENDS Integers, Sequences

CONSTANTS
  BYTE,               \* the number of values of a byte (256 in the kernel)
  SIGN_BIT,           \* the worth of a word's highest bit (2^63 in the kernel)
  IP_LIMIT,           \* ip is kept modulo this (2^32 in the kernel)
  CODE, DATA, BSS, STACK,   \* the sizes of a program's sections and of the stack
  Programs,           \* the programs on the disk: functions from 0..CODE-1
  max_instructions

WORD == 2 * SIGN_BIT
Values == 0..(WORD - 1)
memory_size == CODE + DATA + BSS + STACK
Regs == {"rax", "rbx", "rsp"}

\* What the bytes of a code section can decode to: opcode and mode, and the operands the
\* two say follow.
Jumps == {"JMP", "JE", "JNE", "JL", "JG", "JLE", "JGE"}
TwoOperands == {"MV", "ADD", "SUB", "MUL", "DIV", "CMP"}
Instruction ==
  [op : TwoOperands, mode : {"reg"}, dst : Regs, src : Regs]
  \cup [op : TwoOperands, mode : {"imm"}, dst : Regs, imm : Values]
  \cup [op : Jumps \cup {"CALL"}, addr : 0..(IP_LIMIT - 1)]
  \cup [op : {"PUSH", "POP"}, dst : Regs]
  \cup [op : {"RET", "INT80", "INT", "HLT", "NOP", "BAD"}]

ASSUME BexeAssumption ==
  /\ {BYTE, SIGN_BIT, IP_LIMIT, CODE, STACK, max_instructions} \subseteq Nat \ {0}
  /\ BYTE * BYTE = 2 * SIGN_BIT
  /\ {DATA, BSS} \subseteq Nat
  \* With less than a word of code and data, rsp can wrap around below them unnoticed.
  /\ CODE + DATA >= 2
  /\ memory_size \in Values
  /\ \A p \in Programs : p \in [0..(CODE - 1) -> Instruction]

\* What a byte stored over the code can be decoded as.
Decodable == UNION {{p[a] : a \in 0..(CODE - 1)} : p \in Programs}

VARIABLES
  phase,              \* "shell"; "header", "sections": in bexe_load; "vm": until bexe_free
  program,            \* what the code section decodes to
  memory, regs, ip, flags, instruction_count,
  stop,               \* "no" while vm->running, then why it was cleared
  live,               \* the kmalloc'ed blocks of this exec
  current_vm_memory,  \* whose memory syscalls address: this VM's or an older one's
  served,             \* what the last syscall of this program found there
  moved,              \* history: the program set rsp itself, by an operand
  pushed,             \* history: until then, the words pushed and not popped, last first
  spilled             \* history: a push stored outside the VM's memory

vmVars == <<program, memory, regs, ip, flags, instruction_count, stop, served, moved, pushed, spilled>>
vars == <<phase, vmVars, live, current_vm_memory>>

rsp == regs["rsp"]
Addresses == 0..(memory_size - 1)
Blank == [a \in Addresses |-> 0]

\* No VM, as between two execs; a VM that starts has its rsp at the end of its memory.
VmAt(top) ==
  /\ memory' = Blank /\ regs' = [r \in Regs |-> IF r = "rsp" THEN top ELSE 0]
  /\ ip' = 0 /\ flags' = "none" /\ instruction_count' = 0 /\ stop' = "no"
  /\ served' = "none" /\ moved' = FALSE /\ pushed' = <<>> /\ spilled' = FALSE

Init ==
  /\ phase = "shell"
  /\ program = <<>> /\ memory = Blank /\ regs = [r \in Regs |-> 0]
  /\ ip = 0 /\ flags = "none" /\ instruction_count = 0 /\ stop = "no"
  /\ served = "none" /\ moved = FALSE /\ pushed = <<>> /\ spilled = FALSE
  /\ live = {}
  /\ current_vm_memory = "none"

------------------------------------------------------------------------------
(* Loading and freeing.                                                    *)

\* fat12_read_file returned a buffer.  When it does not, exec is over at once.
bexe_load_reads ==
  /\ phase = "shell"
  /\ phase' = "header"
  /\ live' = live \cup {"file"}
  /\ UNCHANGED <<vmVars, current_vm_memory>>

refused_keeps_file == live
\* A file that is refused is given back.
refused == live \ {"file"}

\* The file is shorter than a header, or its magic is another.
bexe_load_refuses ==
  /\ phase = "header"
  /\ phase' = "shell"
  /\ live' = refused
  /\ UNCHANGED <<vmVars, current_vm_memory>>

\* kmalloc of the VM structure, with or without success: the result is not looked at,
\* and address 0 is mapped (init_paging), so that the loading goes on there.
bexe_load_allocates ==
  /\ phase = "header"
  /\ phase' = "sections"
  /\ live' \in {live, live \cup {"vm"}}
  /\ UNCHANGED <<vmVars, current_vm_memory>>

\* kmalloc of the memory, unchecked too; nothing else allocates in between, so that it
\* fails when the smaller VM structure did not fit.  The file is freed.  Without a VM
\* structure the pointer returned is NULL and exec is over; a VM without memory of its own
\* runs at address 0.
bexe_load ==
  /\ phase = "sections"
  /\ \E allocated \in IF "vm" \in live THEN {{}, {"memory"}} ELSE {{}} :
       live' = (live \cup allocated) \ {"file"}
  /\ IF "vm" \in live
       THEN phase' = "vm" /\ program' \in Programs /\ VmAt(memory_size)
       ELSE phase' = "shell" /\ UNCHANGED vmVars
  /\ UNCHANGED current_vm_memory

\* The condition of bexe_execute's loop.
InLoop == phase = "vm" /\ stop = "no" /\ instruction_count < max_instructions

\* What bexe_free gives back; a memory pointer that is NULL is left alone.
freed == {"memory", "vm"}

\* The loop is left: bexe_execute returns to cmd_exec, which calls bexe_free.  The
\* global pointer that syscalls use keeps pointing at the freed block.
bexe_free ==
  /\ phase = "vm" /\ ~InLoop
  /\ phase' = "shell"
  /\ live' = live \ freed
  /\ current_vm_memory' = IF current_vm_memory = "own" THEN "older" ELSE current_vm_memory
  /\ program' = <<>> /\ VmAt(0)

------------------------------------------------------------------------------
(* Operands.                                                               *)

\* MODE_REG_REG: GET_REG of the source; MODE_REG_IMM: the immediate.
operand(i) == IF i.mode = "reg" THEN regs[i.src] ELSE i.imm

\* The reading of a word as int64_t.
signed(v) == IF v < SIGN_BIT THEN v ELSE v - WORD

Arithmetic(op, a, b) ==
  CASE op = "MV"  -> b
    [] op = "ADD" -> (a + b) % WORD
    [] op = "SUB" -> (a - b) % WORD
    [] op = "MUL" -> (a * b) % WORD
    [] op = "DIV" -> a \div b

differences_unsigned(a, b) == {a - b}

\* CMP's difference of two int64_t.  When it does not fit, C leaves it open: wrapped
\* around, or as if it did fit (the subtraction and the sign tests compiled together).
differences(a, b) == {signed((a - b) % WORD), signed(a) - signed(b)}

update_flags(result) ==
  IF result = 0 THEN "zero" ELSE IF result < 0 THEN "less" ELSE "greater"

\* The flags a jump is taken on.
Taken(op) ==
  CASE op = "JMP" -> {"none", "zero", "less", "greater"}
    [] op = "JE"  -> {"zero"}
    [] op = "JNE" -> {"none", "less", "greater"}
    [] op = "JL"  -> {"less"}
    [] op = "JG"  -> {"greater"}
    [] op = "JLE" -> {"zero", "less"}
    [] op = "JGE" -> {"zero", "greater"}

------------------------------------------------------------------------------
(* The stack.                                                              *)

overflows_code_only(r) == r < CODE
overflows_early(r) == r < CODE + DATA + BSS

\* push's check on the decremented rsp: the bss section is not counted.
overflows(r) == r < CODE + DATA

\* pop's check, rsp >= memory_size - 8 in the code.
underflows(r) == r >= memory_size - 2

push_slot_above(r) == (r - 1) % WORD
\* The address push stores to, r being rsp before the push.
push_slot(r) == (r - 2) % WORD

\* The word v stored at address a, low byte first; the address of its second byte may wrap
\* around to the first of the code.  Bytes outside the VM's memory are only noted.
store(a, v) ==
  LET next == (a + 1) % WORD
  IN  /\ memory' = [x \in Addresses |-> IF x = a THEN v % BYTE
                                        ELSE IF x = next THEN v \div BYTE ELSE memory[x]]
      /\ IF a < CODE \/ next < CODE
           THEN \E i \in Decodable :
                  program' = [x \in 0..(CODE - 1) |-> IF x \in {a, next} THEN i ELSE program[x]]
           ELSE program' = program
      /\ spilled' = (spilled \/ a \notin Addresses \/ next \notin Addresses)

\* The registers with rsp moved to r.
rsp_at(r) == [regs EXCEPT !["rsp"] = r]

push(v) ==
  /\ regs' = rsp_at(push_slot(rsp))
  /\ IF overflows(push_slot(rsp))
       THEN stop' = "overflow" /\ UNCHANGED <<memory, program, pushed, spilled>>
       ELSE /\ stop' = stop
            /\ store(push_slot(rsp), v)
            /\ pushed' = IF moved THEN <<>> ELSE <<v>> \o pushed

word_at(a) == memory[a] + BYTE * memory[a + 1]

\* The word pop returns (any, of the bytes a section was loaded with), and what it leaves.
popped == IF underflows(rsp) THEN {0} ELSE IF rsp < CODE + DATA THEN Values ELSE {word_at(rsp)}
after_pop == IF underflows(rsp) THEN regs ELSE rsp_at(rsp + 2)
pop ==
  IF underflows(rsp)
    THEN stop' = "underflow" /\ UNCHANGED pushed
    ELSE stop' = stop /\ pushed' = IF moved THEN <<>> ELSE Tail(pushed)

------------------------------------------------------------------------------
(* execute_instruction, one action per group of opcodes.                   *)

count_forward_only ==
  instruction_count' = instruction_count + (IF stop' = "no" /\ ip' > ip THEN 1 ELSE 0)

\* bexe_execute counts an instruction unless it cleared running.
count == instruction_count' = instruction_count + (IF stop' = "no" THEN 1 ELSE 0)

\* read_u8 found an instruction at ip, and it is one of ops.
fetches(ops) == InLoop /\ ip < CODE /\ program[ip].op \in ops

\* ip ran past the code section.
off_the_end ==
  /\ InLoop /\ ip >= CODE
  /\ stop' = "end"
  /\ count
  /\ UNCHANGED <<phase, program, memory, regs, ip, flags, served, moved, pushed, spilled, live, current_vm_memory>>

\* The history variables when an operand is set, rsp or another.
moves(is_rsp) ==
  /\ moved' = (moved \/ is_rsp)
  /\ pushed' = IF is_rsp THEN <<>> ELSE pushed

arithmetic ==
  LET i == program[ip]
      b == operand(i)
  IN  /\ fetches(TwoOperands \ {"CMP"})
      /\ ip' = ip + 1
      /\ IF i.op = "DIV" /\ b = 0
           THEN stop' = "division" /\ UNCHANGED regs
           ELSE /\ stop' = stop
                /\ regs' = [regs EXCEPT ![i.dst] = Arithmetic(i.op, @, b)]
      /\ moves(i.dst = "rsp" /\ stop' = "no")
      /\ count
      /\ UNCHANGED <<phase, program, memory, flags, served, spilled, live, current_vm_memory>>

cmp ==
  /\ fetches({"CMP"})
  /\ ip' = ip + 1
  /\ \E diff \in differences(regs[program[ip].dst], operand(program[ip])) :
       flags' = update_flags(diff)
  /\ stop' = stop /\ count
  /\ UNCHANGED <<phase, program, memory, regs, served, moved, pushed, spilled, live, current_vm_memory>>

jump ==
  /\ fetches(Jumps)
  /\ ip' = IF flags \in Taken(program[ip].op) THEN program[ip].addr ELSE ip + 1
  /\ stop' = stop /\ count
  /\ UNCHANGED <<phase, program, memory, regs, flags, served, moved, pushed, spilled, live, current_vm_memory>>

op_push ==
  /\ fetches({"PUSH"})
  /\ ip' = ip + 1
  /\ push(regs[program[ip].dst])
  /\ count
  /\ UNCHANGED <<phase, flags, served, moved, live, current_vm_memory>>

op_pop ==
  LET dst == program[ip].dst
  IN  /\ fetches({"POP"})
      /\ ip' = ip + 1
      /\ \E v \in popped : regs' = [after_pop EXCEPT ![dst] = v]
      /\ IF dst = "rsp"
           THEN moves(TRUE) /\ stop' = IF underflows(rsp) THEN "underflow" ELSE stop
           ELSE moved' = moved /\ pop
      /\ count
      /\ UNCHANGED <<phase, program, memory, flags, served, spilled, live, current_vm_memory>>

call ==
  /\ fetches({"CALL"})
  /\ push(ip + 1)
  /\ ip' = program[ip].addr
  /\ count
  /\ UNCHANGED <<phase, flags, served, moved, live, current_vm_memory>>

ret ==
  /\ fetches({"RET"})
  /\ pop
  /\ regs' = after_pop
  /\ \E v \in popped : ip' = v % IP_LIMIT
  /\ count
  /\ UNCHANGED <<phase, program, memory, flags, served, moved, spilled, live, current_vm_memory>>

memory_for_syscall_kept == current_vm_memory
\* execute_syscall points the syscalls at this VM's memory.
memory_for_syscall == "own"

\* INT: 0x80 goes through execute_syscall; any other number is passed straight on.
int ==
  /\ fetches({"INT80", "INT"})
  /\ ip' = ip + 1
  /\ current_vm_memory' =
       IF program[ip].op = "INT80" THEN memory_for_syscall ELSE current_vm_memory
  /\ served' = current_vm_memory'
  /\ \E result \in Values : regs' = [regs EXCEPT !.rax = result]
  /\ stop' = stop /\ count
  /\ UNCHANGED <<phase, program, memory, flags, moved, pushed, spilled, live>>

\* HLT; an unknown opcode or a bad MV mode stops the VM too.  NOP does nothing, and so
\* does an arithmetic instruction with a bad mode.
halt ==
  /\ fetches({"HLT", "BAD"})
  /\ ip' = ip + 1
  /\ stop' = IF program[ip].op = "HLT" THEN "halt" ELSE "bad"
  /\ count
  /\ UNCHANGED <<phase, program, memory, regs, flags, served, moved, pushed, spilled, live, current_vm_memory>>

nop ==
  /\ fetches({"NOP"})
  /\ ip' = ip + 1
  /\ stop' = stop /\ count
  /\ UNCHANGED <<phase, program, memory, regs, flags, served, moved, pushed, spilled, live, current_vm_memory>>

execute_instruction ==
  off_the_end \/ arithmetic \/ cmp \/ jump \/ op_push \/ op_pop \/ call \/ ret
  \/ int \/ halt \/ nop

Next ==
  \/ bexe_load_reads
  \/ bexe_load_refuses
  \/ bexe_load_allocates
  \/ bexe_load
  \/ execute_instruction
  \/ bexe_free

\* bexe_load, the loop of bexe_execute and cmd_exec after it run on without waiting for
\* anyone.
Fairness ==
  /\ WF_vars(bexe_load_refuses \/ bexe_load_allocates)
  /\ WF_vars(bexe_load)
  /\ WF_vars(execute_instruction)
  /\ WF_vars(bexe_free)

Spec == Init /\ [][Next]_vars /\ Fairness

------------------------------------------------------------------------------
(* Properties.                                                             *)

TypeOK ==
  /\ phase \in {"shell", "header", "sections", "vm"}
  /\ memory \in [Addresses -> 0..(BYTE - 1)]
  /\ regs \in [Regs -> Values]
  /\ ip \in Nat
  /\ flags \in {"none", "zero", "less", "greater"}
  /\ instruction_count \in 0..max_instructions
  /\ stop \in {"no", "end", "halt", "bad", "division", "overflow", "underflow"}
  /\ live \subseteq {"file", "vm", "memory"}
  /\ {current_vm_memory, served} \subseteq {"none", "own", "older"}
  /\ moved \in BOOLEAN /\ spilled \in BOOLEAN
  /\ pushed \in Seq(Values)

\* As long as a program moves rsp by push, pop, call and ret only, the words from rsp up are
\* what push and call stored there and nothing has taken back, in order.  So a ret whose
\* routine popped what it pushed finds the address behind its call, however the calls nest
\* (unless that is the only word: pop takes it for none, bexe.c:136).
StackHoldsPushes ==
  phase = "vm" /\ ~moved /\ stop # "overflow" =>
    /\ rsp + 2 * Len(pushed) = memory_size
    /\ \A k \in 1..Len(pushed) : word_at(rsp + 2 * (k - 1)) = pushed[k]

\* Every variable keeps its type, and to such a program push is refused only when stack and
\* bss together have no room for another word: no call is lost before that.
StackLimits ==
  /\ TypeOK
  /\ stop = "overflow" /\ ~moved => 2 * (Len(pushed) + 1) > STACK + BSS

\* Nor does such a program ever store into its code or its data section or outside its own
\* memory, whatever it calls and pushes.  (One that sets rsp below the size of a word can:
\* rsp wraps around and passes push's check.)
CodeAndDataIntact ==
  [][phase = "vm" /\ phase' = "vm" /\ ~moved' =>
       /\ program' = program /\ ~spilled'
       /\ \A a \in 0..(CODE + DATA - 1) : memory'[a] = memory[a]]_vars

\* However the loading failed or the program ended, the shell goes on with everything that
\* exec allocated given back.
NothingLeaks == phase = "shell" => live = {}

\* After a compare whose difference fits int64_t, each conditional jump is taken exactly
\* when the signed order of the operands says so.
JumpsFollowOrder ==
  [][(cmp /\ signed(regs[program[ip].dst]) - signed(operand(program[ip]))
               \in -SIGN_BIT..(SIGN_BIT - 1)) =>
       LET a == signed(regs[program[ip].dst])
           b == signed(operand(program[ip]))
       IN  /\ flags' \in Taken("JE") <=> a = b
           /\ flags' \in Taken("JNE") <=> a # b
           /\ flags' \in Taken("JL") <=> a < b
           /\ flags' \in Taken("JG") <=> a > b
           /\ flags' \in Taken("JLE") <=> a <= b
           /\ flags' \in Taken("JGE") <=> a >= b]_vars

\* A syscall through int 0x80, and from then on every syscall of the same program, the ones by
\* legacy interrupt numbers included, is served on that program's memory - also when an
\* earlier program left the global pointer on its freed memory.
OwnMemoryServed ==
  [][int /\ (fetches({"INT80"}) \/ served = "own") => served' = "own"]_vars

\* exec comes back to the shell whatever the file holds and the program does, loops included.
ExecReturns == phase # "shell" ~> phase = "shell"
==============================================================================
