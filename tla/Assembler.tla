------------------------------ MODULE Assembler -------------------------------
(***************************************************************************)
(* The assembler (assembler/main.py) and its agreement with the decoder of *)
(* the virtual machine (kernel/src/kernel/executor/bexe.c): one pass over  *)
(* the source lines that emits bytes and notes references to labels, then  *)
(* resolve_labels, which patches the references, then the BEXE file, whose *)
(* code, data and bss bexe_load lays out one after the other.              *)
(*                                                                         *)
(* A line is what is left of it after comments, macros, constants and the  *)
(* beginner syntax are expanded; a label in front of something else is a   *)
(* step of its own.  Instructions are taken by their form: which operands  *)
(* they have, not which registers or which of the opcodes of a group.  A   *)
(* byte is a record: what it is (t), its number (v) and the line it comes  *)
(* from (id).                                                              *)
(***************************************************************************)
EXTENDS Integers, Sequences, FiniteSets, SequencesExt

CONSTANTS
  Labels,
  MAX_LINES,      \* bound: the lines of a program, labels aside
  MAX_DEFS        \* bound: how often it writes a label

ASSUME AssemblerAssumption == MAX_LINES \in Nat /\ MAX_DEFS \in Nat

VARIABLES
  phase,          \* "parse", "resolve", "done" (the file is written) or "error"
  lines,          \* the lines parsed so far
  current_section,
  code, data, bss,                    \* data and bss hold the line of each byte
  labels, data_labels, bss_labels,    \* label |-> offset, -1 if it has none
  unresolved_refs,
  resolved,       \* how many of them resolve_labels has patched
  starts,         \* history: where instructions start
  forms,          \* history: the forms used
  displaced,      \* history: the places of the references that were written [label+disp]
  home            \* history: where each label was written, and what came after it

labelVars == <<labels, data_labels, bss_labels>>
sectionVars == <<code, data, bss>>
historyVars == <<starts, forms, displaced, home>>
vars == <<phase, lines, current_section, sectionVars, labelVars, unresolved_refs, resolved, historyVars>>

------------------------------------------------------------------------------
(* Instructions.                                                           *)

\* The addressing modes.
REG_REG == 0
REG_IMM == 1
MEM_IMM == 2
MEM_REG == 3
REG_MEM == 4

NoReg == 255      \* the register byte of an absent base or index
Number == 9       \* the numbers programs write

\* What encode_one_operand_instruction, encode_two_operand_instruction and parse_line emit
\* for each form, a field being <<what, value, bytes>>; "ref" is four zero bytes that
\* unresolved_refs notes.  The memory operands are [l], [l+disp] (mv_disp) and [reg]: of a
\* label and a displacement only the label is encoded.
fields ==
  [ret       |-> << <<"none", 0, 1>> >>,
   int       |-> << <<"int", 0, 1>>, <<"byte", 128, 1>> >>,
   jmp_label |-> << <<"jump", 0, 1>>, <<"ref", 0, 4>> >>,
   jmp_num   |-> << <<"jump", 0, 1>>, <<"imm", Number, 4>> >>,
   push_reg  |-> << <<"stack", 0, 1>>, <<"reg", 0, 1>> >>,
   push_num  |-> << <<"stack", 0, 1>>, <<"imm", Number, 4>> >>,
   inc_reg   |-> << <<"unknown", 0, 1>>, <<"reg", 0, 1>> >>,
   mv_reg    |-> << <<"mv", 0, 1>>, <<"reg", 0, 1>>, <<"mode", REG_REG, 1>>, <<"reg", 0, 1>> >>,
   mv_num    |-> << <<"mv", 0, 1>>, <<"reg", 0, 1>>, <<"mode", REG_IMM, 1>>, <<"imm", Number, 4>> >>,
   mv_byte   |-> << <<"mv", 0, 1>>, <<"reg", 0, 1>>, <<"mode", REG_IMM, 1>>, <<"imm", Number, 1>> >>,
   mv_label  |-> << <<"mv", 0, 1>>, <<"reg", 0, 1>>, <<"mode", REG_IMM, 1>>, <<"ref", 0, 4>> >>,
   mv_load   |-> << <<"mv", 0, 1>>, <<"reg", 0, 1>>, <<"mode", REG_MEM, 1>>, <<"reg", NoReg, 1>>,
                    <<"reg", NoReg, 1>>, <<"ref", 0, 4>> >>,
   mv_disp   |-> << <<"mv", 0, 1>>, <<"reg", 0, 1>>, <<"mode", REG_MEM, 1>>, <<"reg", NoReg, 1>>,
                    <<"reg", NoReg, 1>>, <<"ref", 0, 4>> >>,
   mv_store  |-> << <<"mv", 0, 1>>, <<"mode", MEM_IMM, 1>>, <<"reg", NoReg, 1>>,
                    <<"reg", NoReg, 1>>, <<"ref", 0, 4>>, <<"ref", 0, 4>> >>,
   add_reg   |-> << <<"arith", 0, 1>>, <<"reg", 0, 1>>, <<"mode", REG_REG, 1>>, <<"reg", 0, 1>> >>,
   add_num   |-> << <<"arith", 0, 1>>, <<"reg", 0, 1>>, <<"mode", REG_IMM, 1>>, <<"imm", Number, 4>> >>,
   add_store |-> << <<"arith", 0, 1>>, <<"mode", MEM_REG, 1>>, <<"reg", 0, 1>>, <<"reg", NoReg, 1>>,
                    <<"imm", 0, 4>>, <<"reg", 0, 1>> >>]

Forms == DOMAIN fields
\* The forms whose line is a single word.
OneWord == {"ret"}
\* The forms without a memory operand, a size, a number to push or an opcode the virtual
\* machine lacks.
Common ==
  {"ret", "int", "jmp_label", "jmp_num", "push_reg", "mv_reg", "mv_num", "mv_label", "add_reg", "add_num"}

\* The bytes of the first k fields of a form, and of line n when it has that form.
width(form, k) == FoldFunctionOnSet(+, 0, [i \in DOMAIN fields[form] |-> fields[form][i][3]], 1..k)
emitted(form, n) ==
  FlattenSeq([i \in DOMAIN fields[form] |->
    [b \in 1..fields[form][i][3] |->
       [t |-> fields[form][i][1], v |-> fields[form][i][2], id |-> n]]])

\* The fields of a form that refer to a label.
ref_fields(form) == {i \in DOMAIN fields[form] : fields[form][i][1] = "ref"}

patch_offset_after(form, i) == Len(code) + width(form, i)
\* The size of the code when the zero bytes of field i are about to be added to it.
patch_offset(form, i) == Len(code) + width(form, i - 1)

------------------------------------------------------------------------------

Sections == {"text", "data", "bss"}
Unset == [l \in Labels |-> -1]
Nowhere == [section |-> "none", id |-> 0, defs |-> 0]

Init ==
  /\ phase = "parse" /\ lines = 0
  /\ current_section = "text"
  /\ code = <<>> /\ data = <<>> /\ bss = <<>>
  /\ labels = Unset /\ data_labels = Unset /\ bss_labels = Unset
  /\ unresolved_refs = <<>> /\ resolved = 0
  /\ starts = {} /\ forms = {} /\ displaced = {}
  /\ home = [l \in Labels |-> Nowhere]

\* The next line is parsed.
parse_line == phase = "parse" /\ lines < MAX_LINES /\ lines' = lines + 1

\* The labels written in section s that nothing followed yet now have line n.
settled(s, n) ==
  [l \in Labels |-> IF home[l].section = s /\ home[l].id = 0
                      THEN [home[l] EXCEPT !.id = n] ELSE home[l]]

error == phase' = "error"

set_section ==
  /\ parse_line
  /\ current_section' \in Sections
  /\ UNCHANGED <<phase, sectionVars, labelVars, unresolved_refs, resolved, historyVars>>

\* The present size of the section.
here ==
  CASE current_section = "text" -> Len(code)
    [] current_section = "data" -> Len(data)
    [] current_section = "bss" -> Len(bss)

set_label(table, s, l) == IF current_section = s THEN [table EXCEPT ![l] = here] ELSE table

\* A later label of the same name in the same section replaces the one before.
define_label(l) ==
  /\ phase = "parse" /\ home[l].defs < MAX_DEFS
  /\ labels' = set_label(labels, "text", l)
  /\ data_labels' = set_label(data_labels, "data", l)
  /\ bss_labels' = set_label(bss_labels, "bss", l)
  /\ home' = [home EXCEPT ![l] = [section |-> current_section, id |-> 0, defs |-> @.defs + 1]]
  /\ UNCHANGED <<phase, lines, current_section, sectionVars, unresolved_refs, resolved, starts, forms, displaced>>

\* db and the like: they add to the data also from the bss section.
define_data ==
  /\ parse_line
  /\ IF current_section = "text" THEN error /\ UNCHANGED <<data, home>>
     ELSE /\ data' = Append(data, lines + 1)
          /\ home' = settled("data", lines + 1)
          /\ phase' = phase
  /\ UNCHANGED <<current_section, code, bss, labelVars, unresolved_refs, resolved, starts, forms, displaced>>

\* resb and the like.
reserve ==
  /\ parse_line
  /\ IF current_section = "bss"
       THEN /\ bss' = bss \o <<lines + 1, lines + 1>>
            /\ home' = settled("bss", lines + 1)
            /\ phase' = phase
       ELSE error /\ UNCHANGED <<bss, home>>
  /\ UNCHANGED <<current_section, code, data, labelVars, unresolved_refs, resolved, starts, forms, displaced>>

\* An instruction whose labels are all l.  Outside the text section it is an error, or
\* ignored if it is one word.
instruction(form, l) ==
  /\ parse_line
  /\ \/ /\ current_section = "text"
        /\ code' = code \o emitted(form, lines + 1)
        /\ unresolved_refs' = unresolved_refs \o
             [k \in 1..Cardinality(ref_fields(form)) |->
                [offset |-> patch_offset(form, SetToSortSeq(ref_fields(form), <)[k]), label |-> l]]
        /\ starts' = starts \cup {Len(code)}
        /\ forms' = forms \cup {form}
        /\ displaced' = IF form = "mv_disp"
                          THEN displaced \cup {patch_offset(form, i) : i \in ref_fields(form)}
                          ELSE displaced
        /\ home' = settled("text", lines + 1)
        /\ phase' = phase
     \/ /\ current_section # "text"
        /\ IF form \in OneWord THEN phase' = phase ELSE error
        /\ UNCHANGED <<code, unresolved_refs, historyVars>>
  /\ UNCHANGED <<current_section, data, bss, labelVars, resolved>>

\* The files have been read.
end_of_files ==
  /\ phase = "parse"
  /\ phase' = "resolve"
  /\ UNCHANGED <<lines, current_section, sectionVars, labelVars, unresolved_refs, resolved, historyVars>>

------------------------------------------------------------------------------
(* resolve_labels and write_bexe.                                          *)

\* The sizes of the sections when the references are resolved.
code_size == Len(code)
data_size == Len(data)

address_bss_after_code(l) ==
  IF labels[l] >= 0 THEN labels[l]
  ELSE IF data_labels[l] >= 0 THEN code_size + data_labels[l]
  ELSE IF bss_labels[l] >= 0 THEN code_size + bss_labels[l]
  ELSE -1

\* Where the label is in the program's memory: text labels come first.
address(l) ==
  IF labels[l] >= 0 THEN labels[l]
  ELSE IF data_labels[l] >= 0 THEN code_size + data_labels[l]
  ELSE IF bss_labels[l] >= 0 THEN code_size + data_size + bss_labels[l]
  ELSE -1

\* The next reference is patched; a label that is nowhere ends it all.
resolve_labels ==
  /\ phase = "resolve"
  /\ resolved < Len(unresolved_refs)
  /\ LET r == unresolved_refs[resolved + 1]
         a == address(r.label)
     IN  IF a >= 0
           THEN /\ code' = [i \in 1..Max({Len(code), r.offset + 4}) |->
                     IF i \in (r.offset + 1)..(r.offset + 4)
                       THEN [t |-> "imm", v |-> a, id |-> 0] ELSE code[i]]
                /\ resolved' = resolved + 1
                /\ UNCHANGED phase
           ELSE error /\ UNCHANGED <<code, resolved>>
  /\ UNCHANGED <<lines, current_section, data, bss, labelVars, unresolved_refs, historyVars>>

write_bexe ==
  /\ phase = "resolve"
  /\ resolved = Len(unresolved_refs)
  /\ phase' = "done"
  /\ UNCHANGED <<lines, current_section, sectionVars, labelVars, unresolved_refs, resolved, historyVars>>

Next ==
  \/ set_section
  \/ \E l \in Labels : define_label(l)
  \/ define_data \/ reserve
  \/ \E f \in Forms, l \in Labels : instruction(f, l)
  \/ end_of_files
  \/ resolve_labels \/ write_bexe

Spec == Init /\ [][Next]_vars

------------------------------------------------------------------------------
(* The program in the virtual machine.                                     *)

\* bexe_load: the line of the byte at address a; 0 in the stack and behind it.
image(a) ==
  LET m == [i \in DOMAIN code |-> code[i].id] \o data \o bss
  IN  IF a < Len(m) THEN m[a + 1] ELSE 0

decoded_without_mode(p) ==
  LET op == code[p + 1].t
  IN  CASE op = "none" -> 1
        [] op \in {"int", "stack"} -> 2
        [] op = "jump" -> 5
        [] op \in {"mv", "arith"} -> 7
        [] OTHER -> 0

\* execute_instruction: how many bytes it reads at p, 0 when it stops instead.
decoded(p) ==
  LET op == code[p + 1].t
      mode == IF p + 3 <= Len(code) THEN code[p + 3].v ELSE REG_REG
  IN  CASE op = "none" -> 1
        [] op \in {"int", "stack"} -> 2
        [] op = "jump" -> 5
        [] op \in {"mv", "arith"} /\ mode = REG_REG -> 4
        [] op \in {"mv", "arith"} /\ mode = REG_IMM -> 7
        [] op = "arith" /\ mode \notin {REG_REG, REG_IMM} -> 3
        [] OTHER -> 0

------------------------------------------------------------------------------
(* Properties.                                                             *)

TypeOK ==
  /\ phase \in {"parse", "resolve", "done", "error"}
  /\ current_section \in Sections
  /\ \A i \in DOMAIN code : code[i].v \in Nat /\ code[i].id \in 0..MAX_LINES
  /\ data \in Seq(1..MAX_LINES) /\ bss \in Seq(1..MAX_LINES)
  /\ \A l \in Labels :
       labels[l] \in -1..Len(code) /\ data_labels[l] \in -1..Len(data) /\ bss_labels[l] \in -1..Len(bss)
  /\ resolved \in 0..Len(unresolved_refs)
  /\ forms \subseteq Forms

\* Where the virtual machine may be between two instructions of the assembler's.
Boundaries == starts \cup {Len(code)}

\* The virtual machine reads a program of the common forms in the instructions the
\* assembler wrote: after each one it reads it is at the start of the next, or at the end,
\* and every text label, so every jump to one, is such a place.
DecoderAgrees ==
  phase = "done" /\ forms \subseteq Common =>
    /\ \A p \in starts : decoded(p) > 0 /\ p + decoded(p) \in Boundaries
    /\ \A l \in Labels : labels[l] >= 0 => labels[l] \in Boundaries

\* The four bytes of a reference, as the virtual machine reads them.
Operand(r) == code[r.offset + 1].v
References == {unresolved_refs[i] : i \in DOMAIN unresolved_refs}

\* In a written program every reference to a label that is written once, before or after it,
\* and without a displacement, leads to what follows the label in its section, wherever in memory that section begins,
\* and none is left open.  Every variable keeps its type.
ReferencesLeadHome ==
  /\ TypeOK
  /\ phase = "done" =>
       /\ \A i \in DOMAIN code : code[i].t # "ref"
       /\ \A r \in References :
            r.offset \notin displaced /\ home[r.label].defs = 1 /\ home[r.label].id # 0 =>
              image(Operand(r)) = home[r.label].id

\* Patching touches nothing but the four bytes left for it: no opcode, register or mode, and
\* no size.
PatchesInPlace ==
  [][phase = "resolve" =>
       /\ Len(code') = Len(code)
       /\ \A i \in DOMAIN code : code[i].t # "ref" => code'[i] = code[i]]_vars
==============================================================================
