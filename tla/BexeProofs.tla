------------------------------- MODULE BexeProofs -------------------------------
(***************************************************************************)
(* For every program, every size of its sections and of the stack, and     *)
(* every width of a byte: the safety properties of exec and the VM.  All   *)
(* follow from one inductive invariant, VmInv.  StackHoldsPushes needs in  *)
(* it that rsp stays above the data section while the program leaves it to *)
(* push, pop, call and ret (the check in push bites before the write), and *)
(* that the code is made of instructions; OwnMemoryServed needs that a     *)
(* program served on its own memory once has the global pointer set.       *)
(***************************************************************************)
EXTENDS Bexe, SequenceTheorems, TLAPS

------------------------------------------------------------------------------
(* Numbers and sequences.                                                  *)

\* A remainder is less than its modulus.
LEMMA ModRange ==
  ASSUME NEW x \in Int, NEW m \in Nat \ {0}
  PROVE  x % m \in 0..(m - 1)
  OBVIOUS

\* What does not exceed the width is kept, and one wrap-around takes away or adds the modulus.
LEMMA ModOneWrap ==
  ASSUME NEW x \in Int, NEW m \in Nat \ {0}, -m <= x, x < 2 * m
  PROVE  x % m = IF x < 0 THEN x + m ELSE IF x < m THEN x ELSE x - m
  <1>1. CASE x < 0
    BY <1>1
  <1>2. CASE 0 <= x /\ x < m
    BY <1>2
  <1>3. CASE m <= x
    BY <1>3
  <1> QED
    BY <1>1, <1>2, <1>3

\* A quotient is at most its dividend.
LEMMA DivRange ==
  ASSUME NEW x \in Nat, NEW m \in Nat \ {0}
  PROVE  x \div m \in 0..x
  OBVIOUS

\* A new first element (a block linked in at the head of the free list).
LEMMA ConsProps ==
  ASSUME NEW S, NEW s \in Seq(S), NEW e \in S
  PROVE  /\ <<e>> \o s \in Seq(S)
         /\ Len(<<e>> \o s) = Len(s) + 1
         /\ \A j \in 1..(Len(s) + 1) : (<<e>> \o s)[j] = IF j = 1 THEN e ELSE s[j - 1]
  OBVIOUS

------------------------------------------------------------------------------
(* The virtual machine.                                                    *)

\* The words of the stack, while push has not failed and rsp was left to it.
StackInv ==
  phase = "vm" /\ ~moved /\ stop # "overflow" =>
    /\ rsp >= CODE + DATA
    /\ rsp + 2 * Len(pushed) = memory_size
    /\ \A k \in 1..Len(pushed) : word_at(rsp + 2 * (k - 1)) = pushed[k]

\* What exec holds in each of its phases.
LiveInv ==
  /\ phase = "shell" => live = {}
  /\ phase = "header" => live = {"file"}
  /\ phase = "sections" => live \in {{"file"}, {"file", "vm"}}
  /\ phase = "vm" => live \subseteq {"vm", "memory"}

\* The inductive invariant.
VmInv ==
  /\ TypeOK
  /\ StackInv
  /\ stop = "overflow" /\ ~moved => 2 * (Len(pushed) + 1) > STACK + BSS
  /\ ~moved => ~spilled
  /\ LiveInv
  /\ phase = "vm" => program \in [0..(CODE - 1) -> Instruction]
  /\ served = "own" => current_vm_memory = "own"

\* The sizes, as numbers.
LEMMA Sizes ==
  /\ SIGN_BIT \in Nat \ {0} /\ WORD \in Nat \ {0} /\ IP_LIMIT \in Nat \ {0}
  /\ BYTE \in Nat \ {0} /\ BYTE * BYTE = WORD
  /\ CODE \in Nat \ {0} /\ STACK \in Nat \ {0} /\ max_instructions \in Nat \ {0}
  /\ DATA \in Nat /\ BSS \in Nat /\ CODE + DATA >= 2
  /\ memory_size = CODE + DATA + BSS + STACK /\ memory_size \in Nat
  /\ memory_size < WORD /\ Values = 0..(WORD - 1)
  BY BexeAssumption DEF WORD, memory_size, Values

\* A word is its two bytes.
LEMMA WordParts ==
  ASSUME NEW v \in Values
  PROVE  /\ v % BYTE \in 0..(BYTE - 1) /\ v \div BYTE \in 0..(BYTE - 1)
         /\ (v % BYTE) + BYTE * (v \div BYTE) = v
  <1>1. v \in Nat /\ v < BYTE * BYTE /\ BYTE \in Nat \ {0}
    BY Sizes
  <1>2. v % BYTE \in 0..(BYTE - 1)
    BY <1>1, ModRange
  <1>3. v \div BYTE \in Nat /\ (v % BYTE) + BYTE * (v \div BYTE) = v
    BY <1>1, DivRange
  <1>4. ASSUME NEW q \in Nat, NEW r \in Nat, r + BYTE * q < BYTE * BYTE
        PROVE  q < BYTE
    <2>1. q >= BYTE => BYTE * q >= BYTE * BYTE
      BY <1>1, <1>4
    <2> QED
      BY <2>1, <1>1, <1>4
  <1>5. v \div BYTE < BYTE
    BY <1>1, <1>2, <1>3, <1>4
  <1> QED
    BY <1>1, <1>2, <1>3, <1>5

\* Two bytes make a word.
LEMMA PartsWord ==
  ASSUME NEW lo \in 0..(BYTE - 1), NEW hi \in 0..(BYTE - 1)
  PROVE  lo + BYTE * hi \in Values
  <1>1. BYTE \in Nat \ {0} /\ BYTE * BYTE = WORD
    BY Sizes
  <1>2. BYTE * hi \in Nat /\ BYTE * hi <= BYTE * (BYTE - 1)
    BY <1>1
  <1>3. BYTE * (BYTE - 1) = BYTE * BYTE - BYTE
    BY <1>1
  <1> QED
    BY <1>1, <1>2, <1>3, Sizes

\* What an instruction that is fetched looks like.
LEMMA Fetched ==
  ASSUME VmInv, NEW ops, fetches(ops)
  PROVE  /\ program[ip] \in Instruction /\ program[ip].op \in ops
         /\ phase = "vm" /\ stop = "no" /\ instruction_count < max_instructions
         /\ ip \in Nat /\ ip < CODE
  <1>1. ip \in 0..(CODE - 1)
    BY Sizes DEF VmInv, TypeOK, fetches
  <1> QED
    BY <1>1 DEF VmInv, TypeOK, fetches, InLoop

\* The operands of an instruction with two: a register, and a word.
LEMMA Operands ==
  ASSUME TypeOK, NEW i \in Instruction, i.op \in TwoOperands
  PROVE  i.dst \in Regs /\ regs[i.dst] \in Values /\ operand(i) \in Values
  <1>1. CASE i \in [op : TwoOperands, mode : {"reg"}, dst : Regs, src : Regs]
    BY <1>1 DEF TypeOK, operand
  <1>2. CASE i \in [op : TwoOperands, mode : {"imm"}, dst : Regs, imm : Values]
    BY <1>2 DEF TypeOK, operand
  <1> QED
    BY <1>1, <1>2 DEF Instruction, TwoOperands, Jumps

\* Jumps and calls have an address, push and pop a register.
LEMMA OtherOperands ==
  ASSUME NEW i \in Instruction
  PROVE  /\ i.op \in Jumps \cup {"CALL"} => i.addr \in Nat
         /\ i.op \in {"PUSH", "POP"} => i.dst \in Regs
  BY Sizes DEF Instruction, TwoOperands, Jumps

\* Arithmetic stays within a word.
LEMMA ArithmeticType ==
  ASSUME NEW op \in TwoOperands \ {"CMP"}, NEW a \in Values, NEW b \in Values,
         op = "DIV" => b # 0
  PROVE  Arithmetic(op, a, b) \in Values
  <1>1. a \in Nat /\ b \in Nat /\ a <= WORD - 1 /\ b <= WORD - 1
    BY Sizes
  <1>2. (a + b) % WORD \in Values /\ (a - b) % WORD \in Values
    <2>1. a + b \in Int /\ a - b \in Int
      BY <1>1
    <2> QED
      BY <2>1, Sizes, ModRange
  <1>3. (a * b) % WORD \in Values
    <2>1. a * b \in Int
      BY <1>1
    <2> QED
      BY <2>1, Sizes, ModRange
  <1>4. op = "DIV" => a \div b \in Values
    <2>1. ASSUME b # 0 PROVE a \div b \in 0..a
      BY <2>1, <1>1, DivRange
    <2> QED
      BY <2>1, <1>1, Sizes
  <1> QED
    BY <1>2, <1>3, <1>4 DEF Arithmetic, TwoOperands

\* bexe_execute's counter stays within its limit.
LEMMA Counted ==
  ASSUME VmInv, InLoop, count
  PROVE  instruction_count' \in 0..max_instructions
  BY Sizes DEF VmInv, TypeOK, InLoop, count

\* What store leaves, whatever the address.
LEMMA StoreKeeps ==
  ASSUME VmInv, phase = "vm", NEW a \in Values, NEW v \in Values, store(a, v)
  PROVE  /\ memory' \in [Addresses -> 0..(BYTE - 1)]
         /\ program' \in [0..(CODE - 1) -> Instruction]
         /\ spilled' \in BOOLEAN
  <1>1. /\ v % BYTE \in 0..(BYTE - 1) /\ v \div BYTE \in 0..(BYTE - 1)
        /\ memory \in [Addresses -> 0..(BYTE - 1)] /\ program \in [0..(CODE - 1) -> Instruction]
    BY WordParts DEF VmInv, TypeOK
  <1>2. memory' \in [Addresses -> 0..(BYTE - 1)]
    BY <1>1 DEF store
  <1>3. Decodable \subseteq Instruction
    BY BexeAssumption DEF Decodable
  <1>4. program' \in [0..(CODE - 1) -> Instruction]
    BY <1>1, <1>3 DEF store
  <1> QED
    BY <1>2, <1>4 DEF store

\* A store between the data section and the end of memory leaves code and data alone.
LEMMA StoreInside ==
  ASSUME VmInv, NEW a \in Nat, a >= CODE + DATA, a + 1 < memory_size, NEW v \in Values, store(a, v)
  PROVE  /\ memory' = [x \in Addresses |-> IF x = a THEN v % BYTE
                                           ELSE IF x = a + 1 THEN v \div BYTE ELSE memory[x]]
         /\ program' = program /\ spilled' = spilled
         /\ \A x \in 0..(CODE + DATA - 1) : memory'[x] = memory[x]
  <1>1. (a + 1) % WORD = a + 1
    <2>1. a + 1 \in Int /\ -WORD <= a + 1 /\ a + 1 < 2 * WORD /\ ~(a + 1 < 0) /\ a + 1 < WORD
      BY Sizes
    <2> QED
      BY <2>1, Sizes, ModOneWrap
  <1>2. memory' = [x \in Addresses |-> IF x = a THEN v % BYTE
                                      ELSE IF x = a + 1 THEN v \div BYTE ELSE memory[x]]
    BY <1>1 DEF store
  <1>3. ~(a < CODE) /\ ~(a + 1 < CODE) /\ a \in Addresses /\ a + 1 \in Addresses
    BY Sizes DEF Addresses
  <1>4. program' = program
    BY <1>1, <1>3 DEF store
  <1>5. spilled' = spilled
    <2>1. spilled \in BOOLEAN
      BY DEF VmInv, TypeOK
    <2>2. spilled' = (spilled \/ a \notin Addresses \/ a + 1 \notin Addresses)
      BY <1>1 DEF store
    <2> QED
      BY <2>1, <2>2, <1>3
  <1>6. \A x \in 0..(CODE + DATA - 1) : x \in Addresses /\ x # a /\ x # a + 1
    BY Sizes DEF Addresses
  <1> QED
    BY <1>2, <1>4, <1>5, <1>6

\* push keeps the stack as it should be, whatever word is pushed.
LEMMA PushKeeps ==
  ASSUME VmInv, phase = "vm", stop = "no", NEW v \in Values, push(v), phase' = phase, moved' = moved
  PROVE  /\ memory' \in [Addresses -> 0..(BYTE - 1)] /\ regs' \in [Regs -> Values]
         /\ program' \in [0..(CODE - 1) -> Instruction] /\ spilled' \in BOOLEAN
         /\ pushed' \in Seq(Values) /\ stop' \in {"no", "overflow"}
         /\ StackInv'
         /\ stop' = "overflow" /\ ~moved => 2 * (Len(pushed') + 1) > STACK + BSS
         /\ ~moved => /\ spilled' = spilled /\ program' = program
                      /\ \A a \in 0..(CODE + DATA - 1) : memory'[a] = memory[a]
  <1> DEFINE s == push_slot(rsp)
  <1>1. /\ regs \in [Regs -> Values] /\ rsp \in Values /\ pushed \in Seq(Values) /\ Len(pushed) \in Nat
        /\ memory \in [Addresses -> 0..(BYTE - 1)] /\ spilled \in BOOLEAN /\ moved \in BOOLEAN
        /\ program \in [0..(CODE - 1) -> Instruction]
    BY DEF VmInv, TypeOK, rsp, Regs
  <1>2. s \in Values /\ s = IF rsp < 2 THEN rsp - 2 + WORD ELSE rsp - 2
    <2>1. rsp \in Nat /\ rsp < WORD /\ WORD > 2
      BY <1>1, Sizes
    <2>2. rsp - 2 \in Int /\ -WORD <= rsp - 2 /\ rsp - 2 < 2 * WORD /\ rsp - 2 < WORD
      <3>1. ASSUME NEW r \in Nat, NEW w \in Nat, r < w, w > 2
            PROVE  r - 2 \in Int /\ -w <= r - 2 /\ r - 2 < 2 * w /\ r - 2 < w
        BY <3>1
      <3> QED
        BY <2>1, <3>1, Sizes
    <2>3. (rsp - 2) % WORD = IF rsp - 2 < 0 THEN rsp - 2 + WORD ELSE rsp - 2
      BY <2>1, <2>2, Sizes, ModOneWrap
    <2>4. s = IF rsp < 2 THEN rsp - 2 + WORD ELSE rsp - 2
      BY <2>1, <2>3 DEF push_slot
    <2> QED
      BY <2>1, <2>4, Sizes
  <1>3. regs' = [regs EXCEPT !["rsp"] = s]
    BY DEF push, rsp_at
  <1>4. regs' \in [Regs -> Values] /\ rsp' = s
    BY <1>1, <1>2, <1>3 DEF rsp, Regs
  <1>5. CASE overflows(s)
    <2>1. stop' = "overflow" /\ memory' = memory /\ pushed' = pushed /\ program' = program /\ spilled' = spilled
      BY <1>5 DEF push
    <2>2. ~moved => 2 * (Len(pushed) + 1) > STACK + BSS
      <3> SUFFICES ASSUME ~moved PROVE 2 * (Len(pushed) + 1) > STACK + BSS
        OBVIOUS
      <3>1. rsp >= CODE + DATA /\ rsp + 2 * Len(pushed) = memory_size
        BY DEF VmInv, StackInv
      <3>2. s < CODE + DATA
        BY <1>5 DEF overflows
      <3> HIDE DEF s
      <3>3. rsp \in Nat /\ rsp - 2 < CODE + DATA
        BY <1>1, <1>2, <3>1, <3>2, Sizes
      <3> QED
        BY <1>1, <3>1, <3>3, Sizes
    <2> QED
      BY <1>1, <1>4, <2>1, <2>2 DEF StackInv
  <1>6. CASE ~overflows(s)
    <2>1. stop' = "no" /\ store(s, v) /\ pushed' = IF moved THEN <<>> ELSE <<v>> \o pushed
      BY <1>6 DEF push
    <2>2. /\ memory' \in [Addresses -> 0..(BYTE - 1)] /\ program' \in [0..(CODE - 1) -> Instruction]
          /\ spilled' \in BOOLEAN
      BY <1>2, <2>1, StoreKeeps
    <2>3. CASE moved
      <3>1. pushed' = <<>> /\ <<>> \in Seq(Values)
        BY <2>1, <2>3
      <3> QED
        BY <1>4, <2>1, <2>2, <2>3, <3>1 DEF StackInv
    <2>4. CASE ~moved
      <3>1. /\ rsp >= CODE + DATA /\ rsp + 2 * Len(pushed) = memory_size
            /\ \A k \in 1..Len(pushed) : word_at(rsp + 2 * (k - 1)) = pushed[k]
        BY <2>4 DEF VmInv, StackInv
      <3>2. rsp \in Nat /\ rsp <= memory_size
        BY <1>1, <3>1, Sizes
      <3>3. s = rsp - 2
        BY <1>2, <3>1, <3>2, Sizes
      <3>4. rsp - 2 \in Nat /\ rsp - 2 >= CODE + DATA /\ (rsp - 2) + 1 < memory_size
        BY <1>6, <3>1, <3>2, <3>3, Sizes DEF overflows
      <3>5. /\ memory' = [x \in Addresses |-> IF x = rsp - 2 THEN v % BYTE
                                              ELSE IF x = (rsp - 2) + 1 THEN v \div BYTE ELSE memory[x]]
            /\ program' = program /\ spilled' = spilled
            /\ \A x \in 0..(CODE + DATA - 1) : memory'[x] = memory[x]
        BY <2>1, <3>3, <3>4, StoreInside
      <3>6. /\ pushed' \in Seq(Values) /\ Len(pushed') = Len(pushed) + 1
            /\ \A j \in 1..(Len(pushed) + 1) : pushed'[j] = IF j = 1 THEN v ELSE pushed[j - 1]
        BY <1>1, <2>1, <2>4, ConsProps
      <3>7. ASSUME NEW k \in 1..(Len(pushed) + 1)
            PROVE  memory'[(rsp - 2) + 2 * (k - 1)] + BYTE * memory'[(rsp - 2) + 2 * (k - 1) + 1] = pushed'[k]
        <4> DEFINE x == (rsp - 2) + 2 * (k - 1)
        <4>1. x \in Addresses /\ x + 1 \in Addresses /\ x \in Nat
          BY <1>1, <3>1, <3>2, <3>4, Sizes DEF Addresses
        <4>2. CASE k = 1
          <5>1. x = rsp - 2 /\ x + 1 = (rsp - 2) + 1 /\ x + 1 # rsp - 2
            BY <4>2, <3>2
          <5>2. memory'[x] = v % BYTE /\ memory'[x + 1] = v \div BYTE
            BY <4>1, <5>1, <3>5
          <5>3. pushed'[k] = v
            BY <4>2, <3>6, <1>1
          <5> QED
            BY <5>2, <5>3, WordParts
        <4>3. CASE k # 1
          <5>1. k - 1 \in 1..Len(pushed) /\ x = rsp + 2 * ((k - 1) - 1)
            BY <4>3, <1>1, <3>2
          <5>2. memory[x] + BYTE * memory[x + 1] = pushed[k - 1]
            BY <5>1, <3>1 DEF word_at
          <5>3. x # rsp - 2 /\ x # (rsp - 2) + 1 /\ x + 1 # rsp - 2 /\ x + 1 # (rsp - 2) + 1
            BY <4>3, <3>2, <5>1, <1>1
          <5> HIDE DEF x
          <5>4. memory'[x] = memory[x] /\ memory'[x + 1] = memory[x + 1]
            BY <4>1, <5>3, <3>5
          <5>5. pushed'[k] = pushed[k - 1]
            BY <4>3, <3>6
          <5> QED
            BY <5>2, <5>4, <5>5 DEF x
        <4> QED
          BY <4>2, <4>3
      <3>8. (rsp - 2) + 2 * (Len(pushed) + 1) = memory_size
        <4>1. ASSUME NEW r \in Nat, NEW n \in Nat, r + 2 * n = memory_size
              PROVE  (r - 2) + 2 * (n + 1) = memory_size
          BY <4>1, Sizes
        <4> QED
          BY <4>1, <1>1, <3>1, <3>2
      <3>9. rsp' = rsp - 2
        BY <1>4, <3>3
      <3>10. StackInv'
        <4>1. rsp' >= CODE + DATA /\ rsp' + 2 * Len(pushed') = memory_size
          BY <3>4, <3>6, <3>8, <3>9
        <4>2. \A k \in 1..Len(pushed') : memory'[rsp' + 2 * (k - 1)] + BYTE * memory'[rsp' + 2 * (k - 1) + 1] = pushed'[k]
          BY <3>6, <3>7, <3>9
        <4> QED
          BY <4>1, <4>2 DEF StackInv, word_at, memory_size
      <3> QED
        BY <1>4, <2>1, <2>2, <3>5, <3>6, <3>10
    <2> QED
      BY <2>3, <2>4, <1>1
  <1> QED
    BY <1>5, <1>6

\* What pop returns and leaves in the registers.
LEMMA PopTypes ==
  ASSUME VmInv
  PROVE  popped \subseteq Values /\ after_pop \in [Regs -> Values]
  <1>1. /\ regs \in [Regs -> Values] /\ rsp \in Values /\ rsp \in Nat
        /\ memory \in [Addresses -> 0..(BYTE - 1)] /\ 0 \in Values
    BY Sizes DEF VmInv, TypeOK, rsp, Regs
  <1>2. CASE underflows(rsp)
    BY <1>1, <1>2 DEF popped, after_pop
  <1>3. CASE ~underflows(rsp)
    <2>1. rsp \in Addresses /\ rsp + 1 \in Addresses /\ rsp + 2 \in Values
      BY <1>1, <1>3, Sizes DEF underflows, Addresses
    <2>2. word_at(rsp) \in Values
      <3>1. memory[rsp] \in 0..(BYTE - 1) /\ memory[rsp + 1] \in 0..(BYTE - 1)
        BY <1>1, <2>1
      <3> QED
        BY <3>1, PartsWord DEF word_at
    <2> QED
      BY <1>1, <1>3, <2>1, <2>2 DEF popped, after_pop, rsp_at
  <1> QED
    BY <1>2, <1>3

\* pop keeps the stack as it should be.
LEMMA PopKeeps ==
  ASSUME VmInv, phase = "vm", stop = "no", pop, phase' = phase, memory' = memory, moved' = moved,
         regs' \in [Regs -> Values], rsp' = after_pop["rsp"]
  PROVE  /\ pushed' \in Seq(Values) /\ stop' \in {"no", "underflow"}
         /\ StackInv'
  <1>1. /\ rsp \in Nat /\ rsp < WORD /\ pushed \in Seq(Values) /\ Len(pushed) \in Nat
        /\ regs \in [Regs -> Values] /\ moved \in BOOLEAN
    BY Sizes DEF VmInv, TypeOK, rsp, Regs
  <1>2. CASE underflows(rsp)
    <2>1. stop' = "underflow" /\ rsp' = rsp /\ pushed' = pushed
      BY <1>2 DEF pop, after_pop, rsp
    <2> QED
      BY <1>1, <2>1 DEF VmInv, StackInv, word_at
  <1>3. CASE ~underflows(rsp) /\ moved
    <2>1. stop' = "no" /\ pushed' = <<>> /\ <<>> \in Seq(Values)
      BY <1>3 DEF pop
    <2> QED
      BY <1>3, <2>1 DEF StackInv
  <1>4. CASE ~underflows(rsp) /\ ~moved
    <2>1. stop' = "no" /\ pushed' = Tail(pushed) /\ rsp' = rsp + 2
      BY <1>1, <1>4 DEF pop, after_pop, rsp_at, Regs
    <2>2. /\ rsp >= CODE + DATA /\ rsp + 2 * Len(pushed) = memory_size
          /\ \A k \in 1..Len(pushed) : word_at(rsp + 2 * (k - 1)) = pushed[k]
      BY <1>4 DEF VmInv, StackInv
    <2>3. Len(pushed) >= 1
      BY <1>1, <1>4, <2>2, Sizes DEF underflows
    <2>4. /\ Tail(pushed) \in Seq(Values) /\ Len(Tail(pushed)) = Len(pushed) - 1
          /\ \A k \in 1..(Len(pushed) - 1) : Tail(pushed)[k] = pushed[k + 1]
      BY <1>1, <2>3, HeadTailProperties
    <2>5. \A k \in 1..(Len(pushed) - 1) : memory[(rsp + 2) + 2 * (k - 1)] + BYTE * memory[(rsp + 2) + 2 * (k - 1) + 1] = Tail(pushed)[k]
      <3> SUFFICES ASSUME NEW k \in 1..(Len(pushed) - 1)
                   PROVE  memory[(rsp + 2) + 2 * (k - 1)] + BYTE * memory[(rsp + 2) + 2 * (k - 1) + 1] = Tail(pushed)[k]
        OBVIOUS
      <3>1. k + 1 \in 1..Len(pushed) /\ (rsp + 2) + 2 * (k - 1) = rsp + 2 * ((k + 1) - 1)
        BY <1>1
      <3>2. word_at(rsp + 2 * ((k + 1) - 1)) = pushed[k + 1]
        BY <3>1, <2>2
      <3> QED
        BY <3>1, <3>2, <2>4 DEF word_at
    <2>6. (rsp + 2) + 2 * (Len(pushed) - 1) = memory_size /\ rsp + 2 >= CODE + DATA
      BY <1>1, <2>2, Sizes
    <2>7. StackInv'
      <3>1. rsp' >= CODE + DATA /\ rsp' + 2 * Len(pushed') = memory_size
        BY <2>1, <2>4, <2>6
      <3>2. \A k \in 1..Len(pushed') : memory'[rsp' + 2 * (k - 1)] + BYTE * memory'[rsp' + 2 * (k - 1) + 1] = pushed'[k]
        BY <2>1, <2>4, <2>5
      <3> QED
        BY <3>1, <3>2 DEF StackInv, word_at, memory_size
    <2> QED
      BY <2>1, <2>4, <2>7
  <1> QED
    BY <1>2, <1>3, <1>4

\* An instruction that writes neither memory nor code, and rsp only as the program's own
\* operand, keeps the invariant once it keeps the types of what it does change.
LEMMA QuietKeeps ==
  ASSUME VmInv, phase = "vm", stop = "no",
         UNCHANGED <<phase, program, memory, spilled, live>>,
         \/ moved' = moved /\ pushed' = pushed /\ rsp' = rsp
         \/ moved' = TRUE /\ pushed' = <<>>,
         regs' \in [Regs -> Values], ip' \in Nat, flags' \in {"none", "zero", "less", "greater"},
         instruction_count' \in 0..max_instructions,
         stop' \in {"no", "end", "halt", "bad", "division", "underflow"},
         {current_vm_memory', served'} \subseteq {"none", "own", "older"},
         served' = "own" => current_vm_memory' = "own"
  PROVE  VmInv'
  <1>0. <<>> \in Seq(Values)
    OBVIOUS
  <1>1. TypeOK'
    <2>1. moved' \in BOOLEAN /\ pushed' \in Seq(Values)
      BY <1>0 DEF VmInv, TypeOK
    <2> QED
      BY <2>1 DEF VmInv, TypeOK
  <1>2. StackInv'
    BY DEF VmInv, StackInv, word_at
  <1>3. LiveInv'
    BY DEF VmInv, LiveInv
  <1>4. ~moved' => ~spilled'
    BY DEF VmInv, TypeOK
  <1> QED
    BY <1>1, <1>2, <1>3, <1>4 DEF VmInv

\* The steps of bexe_load before there is a VM.
LEMMA LoadingKeeps ==
  ASSUME VmInv, bexe_load_reads \/ bexe_load_refuses \/ bexe_load_allocates
  PROVE  VmInv'
  <1>1. UNCHANGED <<vmVars, current_vm_memory>> /\ phase \in {"shell", "header"}
        /\ phase' \in {"shell", "header", "sections"}
    BY DEF bexe_load_reads, bexe_load_refuses, bexe_load_allocates
  <1>2. LiveInv' /\ live' \subseteq {"file", "vm", "memory"}
    BY DEF VmInv, LiveInv, bexe_load_reads, bexe_load_refuses, bexe_load_allocates, refused
  <1>3. TypeOK'
    BY <1>1, <1>2 DEF VmInv, TypeOK, vmVars
  <1>4. StackInv'
    BY <1>1 DEF StackInv
  <1> QED
    BY <1>1, <1>2, <1>3, <1>4 DEF VmInv, vmVars

\* The types of a fresh VM, or of none.
LEMMA FreshTypes ==
  ASSUME VmInv, NEW top \in Values, VmAt(top),
         phase' \in {"shell", "vm"}, live' \subseteq {"file", "vm", "memory"},
         current_vm_memory' \in {"none", "own", "older"}
  PROVE  TypeOK' /\ rsp' = top
  <1>1. memory' \in [Addresses -> 0..(BYTE - 1)] /\ regs' \in [Regs -> Values]
    BY Sizes DEF VmAt, Blank
  <1>2. rsp' = top
    BY DEF VmAt, rsp, Regs
  <1>3. 0 \in 0..max_instructions /\ <<>> \in Seq(Values)
    BY Sizes
  <1> QED
    BY <1>1, <1>2, <1>3 DEF VmAt, TypeOK

\* A program that is loaded starts with an empty stack, and the file is given back.
LEMMA LoadKeeps ==
  ASSUME VmInv, bexe_load
  PROVE  VmInv'
  <1>1. live \in {{"file"}, {"file", "vm"}} /\ phase = "sections"
    BY DEF bexe_load, VmInv, LiveInv
  <1>2. /\ live' \subseteq {"vm", "memory"}
        /\ "vm" \notin live => live' = {}
        /\ phase' = IF "vm" \in live THEN "vm" ELSE "shell"
    BY <1>1 DEF bexe_load
  <1>3. LiveInv'
    BY <1>2 DEF LiveInv
  <1>4. CASE "vm" \in live
    <2>1. VmAt(memory_size) /\ program' \in Programs /\ phase' = "vm" /\ current_vm_memory' = current_vm_memory
      BY <1>4 DEF bexe_load
    <2>2. memory_size \in Values /\ current_vm_memory \in {"none", "own", "older"}
      BY Sizes DEF VmInv, TypeOK
    <2>3. TypeOK' /\ rsp' = memory_size
      BY <1>2, <2>1, <2>2, FreshTypes
    <2>4. StackInv'
      <3>1. pushed' = <<>>
        BY <2>1 DEF VmAt
      <3> QED
        BY <2>3, <3>1, Sizes DEF StackInv, memory_size
    <2>5. program' \in [0..(CODE - 1) -> Instruction]
      BY <2>1, BexeAssumption
    <2> QED
      BY <1>3, <2>1, <2>3, <2>4, <2>5 DEF VmInv, VmAt
  <1>5. CASE "vm" \notin live
    <2>1. UNCHANGED <<vmVars, current_vm_memory>> /\ phase' = "shell" /\ live' = {}
      BY <1>2, <1>5 DEF bexe_load
    <2>2. TypeOK'
      BY <2>1 DEF VmInv, TypeOK, vmVars
    <2> QED
      BY <1>3, <2>1, <2>2 DEF VmInv, StackInv, vmVars
  <1> QED
    BY <1>4, <1>5

\* bexe_free gives back both blocks.
LEMMA FreeKeeps ==
  ASSUME VmInv, bexe_free
  PROVE  VmInv'
  <1>1. live' = {} /\ phase' = "shell" /\ VmAt(0)
    BY DEF bexe_free, VmInv, LiveInv, freed
  <1>2. 0 \in Values /\ current_vm_memory' \in {"none", "own", "older"}
    BY Sizes DEF bexe_free, VmInv, TypeOK
  <1>3. TypeOK'
    BY <1>1, <1>2, FreshTypes
  <1> QED
    BY <1>1, <1>3 DEF VmInv, VmAt, StackInv, LiveInv

\* Every instruction keeps the invariant.
LEMMA InstructionKeeps ==
  ASSUME VmInv, execute_instruction
  PROVE  VmInv'
  <1>0. /\ regs \in [Regs -> Values] /\ ip \in Nat /\ ip + 1 \in Nat
        /\ flags \in {"none", "zero", "less", "greater"}
        /\ {current_vm_memory, served} \subseteq {"none", "own", "older"}
        /\ served = "own" => current_vm_memory = "own"
        /\ moved \in BOOLEAN /\ live \subseteq {"file", "vm", "memory"}
    BY DEF VmInv, TypeOK
  <1>1. CASE off_the_end
    <2>1. instruction_count' \in 0..max_instructions
      BY <1>1, Counted DEF off_the_end
    <2> QED
      BY <1>0, <1>1, <2>1, QuietKeeps DEF off_the_end, InLoop, rsp
  <1>2. CASE arithmetic
    <2> DEFINE i == program[ip]
               b == operand(i)
    <2>1. i \in Instruction /\ i.op \in TwoOperands \ {"CMP"} /\ phase = "vm" /\ stop = "no"
      BY <1>2, Fetched DEF arithmetic
    <2>2. i.dst \in Regs /\ regs[i.dst] \in Values /\ b \in Values
      BY <2>1, Operands DEF VmInv
    <2>3. instruction_count' \in 0..max_instructions
      BY <1>2, Counted DEF arithmetic, fetches
    <2>4. \/ regs' = regs /\ stop' = "division"
          \/ /\ i.op = "DIV" => b # 0
             /\ stop' = "no"
             /\ regs' = [regs EXCEPT ![i.dst] = Arithmetic(i.op, regs[i.dst], b)]
      BY <1>2, <2>1 DEF arithmetic
    <2>5. moves(i.dst = "rsp" /\ stop' = "no")
      BY <1>2 DEF arithmetic
    <2>6. UNCHANGED <<phase, program, memory, flags, served, spilled, live, current_vm_memory>> /\ ip' = ip + 1
      BY <1>2 DEF arithmetic
    <2> HIDE DEF i, b
    <2>7. regs' \in [Regs -> Values]
      BY <1>0, <2>1, <2>2, <2>4, ArithmeticType
    <2>8. \/ moved' = moved /\ pushed' = pushed /\ rsp' = rsp
          \/ moved' = TRUE /\ pushed' = <<>>
      <3>1. CASE i.dst = "rsp" /\ stop' = "no"
        BY <3>1, <2>5, <1>0 DEF moves
      <3>2. CASE i.dst # "rsp"
        <4>1. rsp' = rsp
          BY <3>2, <2>2, <2>4, <1>0 DEF rsp, Regs
        <4> QED
          BY <3>2, <4>1, <2>5, <1>0 DEF moves
      <3>3. CASE stop' # "no"
        BY <3>3, <2>4, <2>5, <1>0 DEF moves, rsp
      <3> QED
        BY <3>1, <3>2, <3>3
    <2> QED
      BY <1>0, <2>1, <2>3, <2>4, <2>6, <2>7, <2>8, QuietKeeps
  <1>3. CASE cmp
    <2>1. phase = "vm" /\ stop = "no"
      BY <1>3, Fetched DEF cmp
    <2>2. instruction_count' \in 0..max_instructions
      BY <1>3, Counted DEF cmp, fetches
    <2>3. flags' \in {"zero", "less", "greater"}
      BY <1>3 DEF cmp, update_flags
    <2> QED
      BY <1>0, <1>3, <2>1, <2>2, <2>3, QuietKeeps DEF cmp, rsp
  <1>4. CASE jump
    <2>1. phase = "vm" /\ stop = "no" /\ program[ip].addr \in Nat
      BY <1>4, Fetched, OtherOperands DEF jump
    <2>2. instruction_count' \in 0..max_instructions
      BY <1>4, Counted DEF jump, fetches
    <2> QED
      BY <1>0, <1>4, <2>1, <2>2, QuietKeeps DEF jump, rsp
  <1>5. ASSUME phase = "vm", stop = "no", NEW v \in Values, push(v), instruction_count' \in 0..max_instructions,
               ip' \in Nat, UNCHANGED <<phase, flags, served, moved, live, current_vm_memory>>
        PROVE  VmInv'
    <2>1. /\ memory' \in [Addresses -> 0..(BYTE - 1)] /\ regs' \in [Regs -> Values]
          /\ program' \in [0..(CODE - 1) -> Instruction] /\ spilled' \in BOOLEAN
          /\ pushed' \in Seq(Values) /\ stop' \in {"no", "overflow"} /\ StackInv'
          /\ stop' = "overflow" /\ ~moved => 2 * (Len(pushed') + 1) > STACK + BSS
          /\ ~moved => spilled' = spilled
      BY <1>5, PushKeeps
    <2>2. TypeOK'
      BY <1>0, <1>5, <2>1 DEF VmInv, TypeOK
    <2>3. LiveInv'
      BY <1>5 DEF VmInv, LiveInv
    <2>4. ~moved' => ~spilled'
      BY <1>5, <2>1 DEF VmInv
    <2> QED
      BY <1>5, <2>1, <2>2, <2>3, <2>4 DEF VmInv
  <1>6. CASE op_push
    <2>1. phase = "vm" /\ stop = "no" /\ program[ip].dst \in Regs
      BY <1>6, Fetched, OtherOperands DEF op_push
    <2>2. instruction_count' \in 0..max_instructions
      BY <1>6, Counted DEF op_push, fetches
    <2>3. regs[program[ip].dst] \in Values /\ push(regs[program[ip].dst])
      BY <1>0, <1>6, <2>1 DEF op_push
    <2> QED
      BY <1>0, <1>5, <1>6, <2>1, <2>2, <2>3 DEF op_push
  <1>7. CASE call
    <2>1. phase = "vm" /\ stop = "no" /\ program[ip].addr \in Nat /\ ip < CODE
      BY <1>7, Fetched, OtherOperands DEF call
    <2>2. instruction_count' \in 0..max_instructions
      BY <1>7, Counted DEF call, fetches
    <2>3. ip + 1 \in Values
      BY <1>0, <2>1, Sizes
    <2> QED
      BY <1>5, <1>7, <2>1, <2>2, <2>3 DEF call
  <1>8. ASSUME phase = "vm", stop = "no", pop, instruction_count' \in 0..max_instructions, ip' \in Nat,
               regs' \in [Regs -> Values], rsp' = after_pop["rsp"],
               UNCHANGED <<phase, program, memory, flags, served, moved, spilled, live, current_vm_memory>>
        PROVE  VmInv'
    <2>1. pushed' \in Seq(Values) /\ stop' \in {"no", "underflow"} /\ StackInv'
      BY <1>8, PopKeeps
    <2>2. TypeOK'
      BY <1>0, <1>8, <2>1 DEF VmInv, TypeOK
    <2>3. LiveInv'
      BY <1>8 DEF VmInv, LiveInv
    <2> QED
      BY <1>8, <2>1, <2>2, <2>3 DEF VmInv
  <1>12. CASE op_pop
    <2> DEFINE dst == program[ip].dst
    <2>1. phase = "vm" /\ stop = "no" /\ dst \in Regs
      BY <1>12, Fetched, OtherOperands DEF op_pop
    <2>2. instruction_count' \in 0..max_instructions
      BY <1>12, Counted DEF op_pop, fetches
    <2>3. popped \subseteq Values /\ after_pop \in [Regs -> Values]
      BY PopTypes
    <2>4. PICK v \in popped : regs' = [after_pop EXCEPT ![dst] = v]
      BY <1>12 DEF op_pop
    <2>5. regs' \in [Regs -> Values]
      BY <2>1, <2>3, <2>4
    <2>6. UNCHANGED <<phase, program, memory, flags, served, spilled, live, current_vm_memory>> /\ ip' = ip + 1
      BY <1>12 DEF op_pop
    <2>7. CASE dst = "rsp"
      <3>1. moves(TRUE) /\ stop' \in {"no", "underflow"}
        BY <1>12, <2>1, <2>7 DEF op_pop
      <3>2. moved' = TRUE /\ pushed' = <<>>
        BY <3>1, <1>0 DEF moves
      <3> QED
        BY <1>0, <2>1, <2>2, <2>5, <2>6, <3>1, <3>2, QuietKeeps
    <2>8. CASE dst # "rsp"
      <3>1. moved' = moved /\ pop
        BY <1>12, <2>8 DEF op_pop
      <3>2. rsp' = after_pop["rsp"]
        BY <2>1, <2>3, <2>4, <2>8 DEF rsp, Regs
      <3> QED
        BY <1>0, <1>8, <2>1, <2>2, <2>5, <2>6, <3>1, <3>2
    <2> QED
      BY <2>7, <2>8
  <1>13. CASE ret
    <2>1. phase = "vm" /\ stop = "no"
      BY <1>13, Fetched DEF ret
    <2>2. instruction_count' \in 0..max_instructions
      BY <1>13, Counted DEF ret, fetches
    <2>3. popped \subseteq Values /\ after_pop \in [Regs -> Values]
      BY PopTypes
    <2>4. PICK v \in popped : ip' = v % IP_LIMIT
      BY <1>13 DEF ret
    <2>5. ip' \in Nat
      <3>1. v \in Int
        BY <2>3, <2>4, Sizes
      <3> QED
        BY <2>4, <3>1, Sizes, ModRange
    <2>6. regs' = after_pop /\ rsp' = after_pop["rsp"]
      BY <1>13 DEF ret, rsp
    <2> QED
      BY <1>8, <1>13, <2>1, <2>2, <2>3, <2>5, <2>6 DEF ret
  <1>9. CASE int
    <2>1. phase = "vm" /\ stop = "no"
      BY <1>9, Fetched DEF int
    <2>2. instruction_count' \in 0..max_instructions
      BY <1>9, Counted DEF int, fetches
    <2>3. regs' \in [Regs -> Values]
      BY <1>0, <1>9 DEF int, Regs
    <2>4. current_vm_memory' \in {"none", "own", "older"} /\ served' = current_vm_memory'
      BY <1>0, <1>9 DEF int, memory_for_syscall
    <2>5. rsp' = rsp
      BY <1>0, <1>9 DEF int, rsp, Regs
    <2> QED
      BY <1>0, <1>9, <2>1, <2>2, <2>3, <2>4, <2>5, QuietKeeps DEF int
  <1>10. CASE halt
    <2>1. phase = "vm" /\ stop = "no"
      BY <1>10, Fetched DEF halt
    <2>2. instruction_count' \in 0..max_instructions
      BY <1>10, Counted DEF halt, fetches
    <2> QED
      BY <1>0, <1>10, <2>1, <2>2, QuietKeeps DEF halt, rsp
  <1>11. CASE nop
    <2>1. phase = "vm" /\ stop = "no"
      BY <1>11, Fetched DEF nop
    <2>2. instruction_count' \in 0..max_instructions
      BY <1>11, Counted DEF nop, fetches
    <2> QED
      BY <1>0, <1>11, <2>1, <2>2, QuietKeeps DEF nop, rsp
  <1> QED
    BY <1>1, <1>2, <1>3, <1>4, <1>6, <1>7, <1>9, <1>10, <1>11, <1>12, <1>13
    DEF execute_instruction

\* The invariant holds when no program has run yet, and every step keeps it.
LEMMA VmInvHolds == Spec => []VmInv
  <1>1. Init => VmInv
    <2> SUFFICES ASSUME Init PROVE VmInv
      OBVIOUS
    <2>1. memory \in [Addresses -> 0..(BYTE - 1)] /\ regs \in [Regs -> Values]
      BY Sizes DEF Init, Blank
    <2>2. 0 \in 0..max_instructions /\ <<>> \in Seq(Values)
      BY Sizes
    <2> QED
      BY <2>1, <2>2 DEF Init, VmInv, TypeOK, StackInv, LiveInv
  <1>2. VmInv /\ [Next]_vars => VmInv'
    <2> SUFFICES ASSUME VmInv, [Next]_vars PROVE VmInv'
      OBVIOUS
    <2>1. CASE UNCHANGED vars
      BY <2>1 DEF vars, vmVars, VmInv, TypeOK, StackInv, LiveInv, word_at, rsp
    <2> QED
      BY <2>1, LoadingKeeps, LoadKeeps, FreeKeeps, InstructionKeeps DEF Next
  <1> QED
    BY <1>1, <1>2, PTL DEF Spec

\* As long as a program leaves rsp to push, pop, call and ret, the words from rsp up are what
\* was pushed and not taken back, in order, until push refuses.
THEOREM StackHoldsPushesHolds == Spec => []StackHoldsPushes
  <1>1. VmInv => StackHoldsPushes
    BY DEF VmInv, StackInv, StackHoldsPushes
  <1> QED
    BY <1>1, VmInvHolds, PTL

\* Every variable keeps its type, and push refuses such a program only when stack and bss
\* have no room for another word.
THEOREM StackLimitsHold == Spec => []StackLimits
  <1>1. VmInv => StackLimits
    BY DEF VmInv, StackLimits
  <1> QED
    BY <1>1, VmInvHolds, PTL

\* exec has given back all it allocated whenever the shell goes on, also when the file was
\* refused or an allocation failed.
THEOREM NothingLeaksHolds == Spec => []NothingLeaks
  <1>1. VmInv => NothingLeaks
    BY DEF VmInv, LiveInv, NothingLeaks
  <1> QED
    BY <1>1, VmInvHolds, PTL

\* A program that leaves rsp to push, pop, call and ret never stores into its code or data
\* section or outside its memory.
THEOREM CodeAndDataIntactHolds == Spec => CodeAndDataIntact
  <1>1. VmInv /\ VmInv' /\ [Next]_vars =>
          [phase = "vm" /\ phase' = "vm" /\ ~moved' =>
             /\ program' = program /\ ~spilled'
             /\ \A a \in 0..(CODE + DATA - 1) : memory'[a] = memory[a]]_vars
    <2> SUFFICES ASSUME VmInv, VmInv', Next, phase = "vm", phase' = "vm", ~moved'
                 PROVE  /\ program' = program /\ ~spilled'
                        /\ \A a \in 0..(CODE + DATA - 1) : memory'[a] = memory[a]
      OBVIOUS
    <2>0. ~spilled'
      BY DEF VmInv
    <2>1. CASE memory' = memory /\ program' = program
      BY <2>0, <2>1
    <2>2. CASE op_push
      <3>1. stop = "no" /\ program[ip].dst \in Regs
        BY <2>2, Fetched, OtherOperands DEF op_push
      <3>2. regs[program[ip].dst] \in Values /\ push(regs[program[ip].dst]) /\ moved' = moved
        BY <2>2, <3>1 DEF op_push, VmInv, TypeOK
      <3> QED
        BY <2>0, <3>1, <3>2, PushKeeps
    <2>3. CASE call
      <3>1. stop = "no" /\ ip \in Nat /\ ip < CODE
        BY <2>3, Fetched DEF call
      <3>2. ip + 1 \in Values /\ push(ip + 1) /\ moved' = moved
        BY <2>3, <3>1, Sizes DEF call
      <3> QED
        BY <2>0, <3>1, <3>2, PushKeeps
    <2>4. CASE bexe_load_reads \/ bexe_load_refuses \/ bexe_load_allocates \/ bexe_load \/ bexe_free
      BY <2>4 DEF bexe_load_reads, bexe_load_refuses, bexe_load_allocates, bexe_load, bexe_free
    <2> QED
      BY <2>1, <2>2, <2>3, <2>4
      DEF Next, execute_instruction, off_the_end, arithmetic, cmp, jump, op_pop, ret, int, halt, nop
  <1> QED
    BY <1>1, VmInvHolds, PTL DEF Spec, CodeAndDataIntact

\* From the first int 0x80 of a program on, all its system calls address its own memory,
\* whatever earlier programs left in the global pointer.
THEOREM OwnMemoryServedHolds == Spec => OwnMemoryServed
  <1>1. VmInv /\ [Next]_vars =>
          [int /\ (fetches({"INT80"}) \/ served = "own") => served' = "own"]_vars
    BY DEF VmInv, int, fetches, memory_for_syscall
  <1> QED
    BY <1>1, VmInvHolds, PTL DEF Spec, OwnMemoryServed

\* The two readings of a difference that fits int64_t agree.
LEMMA DifferenceFits ==
  ASSUME NEW a \in Values, NEW b \in Values,
         signed(a) - signed(b) \in -SIGN_BIT..(SIGN_BIT - 1)
  PROVE  \A d \in differences(a, b) : d = signed(a) - signed(b)
  <1>1. a \in Nat /\ b \in Nat /\ a < WORD /\ b < WORD /\ WORD = 2 * SIGN_BIT
    BY Sizes DEF WORD
  <1>2. (a - b) % WORD = IF a - b < 0 THEN a - b + WORD ELSE a - b
    <2>1. a - b \in Int /\ -WORD <= a - b /\ a - b < WORD /\ a - b < 2 * WORD
      BY <1>1, Sizes
    <2> QED
      BY <2>1, Sizes, ModOneWrap
  <1>3. signed((a - b) % WORD) = signed(a) - signed(b)
    BY <1>1, <1>2, Sizes DEF signed
  <1> QED
    BY <1>3 DEF differences

\* After a compare whose difference fits int64_t, each conditional jump is taken exactly
\* when the signed order of the operands says so, for words of every width.
THEOREM JumpsFollowOrderHolds == Spec => JumpsFollowOrder
  <1> DEFINE a == signed(regs[program[ip].dst])
             b == signed(operand(program[ip]))
             ordered == /\ flags' \in Taken("JE") <=> a = b
                        /\ flags' \in Taken("JNE") <=> a # b
                        /\ flags' \in Taken("JL") <=> a < b
                        /\ flags' \in Taken("JG") <=> a > b
                        /\ flags' \in Taken("JLE") <=> a <= b
                        /\ flags' \in Taken("JGE") <=> a >= b
  <1>1. VmInv /\ [Next]_vars =>
          [cmp /\ a - b \in -SIGN_BIT..(SIGN_BIT - 1) => ordered]_vars
    <2> SUFFICES ASSUME VmInv, cmp, a - b \in -SIGN_BIT..(SIGN_BIT - 1)
                 PROVE  ordered
      OBVIOUS
    <2>1. program[ip] \in Instruction /\ program[ip].op = "CMP"
      BY Fetched DEF cmp
    <2>2. regs[program[ip].dst] \in Values /\ operand(program[ip]) \in Values
      BY <2>1, Operands DEF VmInv, TwoOperands
    <2>3. a \in Int /\ b \in Int
      BY <2>2, Sizes DEF signed
    <2>4. flags' = update_flags(a - b)
      BY <2>2, DifferenceFits DEF cmp
    <2> HIDE DEF a, b
    <2>5. flags' = IF a = b THEN "zero" ELSE IF a < b THEN "less" ELSE "greater"
      BY <2>3, <2>4 DEF update_flags
    <2> QED
      BY <2>3, <2>5 DEF Taken
  <1> QED
    BY <1>1, VmInvHolds, PTL DEF Spec, JumpsFollowOrder
==============================================================================
