------------------------------ MODULE Scheduler ------------------------------
(***************************************************************************)
(* The process table and the switches of kernel/src/x86_64/scheduler       *)
(* (scheduler.c, switch.asm) with the callers that reach them: the boot    *)
(* code, the timer interrupt and the shell's kill and nice.                *)
(*                                                                         *)
(* Two things are kept apart: what the table says (state, current_process) *)
(* and what the CPU does (`cpu', the stack it runs on, and the context     *)
(* each slot's stack_ptr would resume).  change_process enables interrupts *)
(* before context_switch, so a yield has a window in which its two slot    *)
(* pointers are held while interrupts run, and interrupts also fall        *)
(* between its marking of the caller and change_process.  A timer          *)
(* interrupt has no such window, because its end-of-interrupt is sent only *)
(* after change_process returns and the controller holds every other line  *)
(* back until then.                                                        *)
(*                                                                         *)
(* cpu_time_used, pml4_phys and entry_point are not kept: no decision of   *)
(* the scheduler reads them.                                               *)
(***************************************************************************)
EXTENDS Integers, FiniteSets

CONSTANTS
  MAX_PROCESS_COUNT,
  DEFAULT_TIME_SLICE,
  PID_LIMIT,        (* pids are integers modulo this (2^32 in the kernel)  *)
  Stacks,           (* the stacks kmalloc can provide                      *)
  BootStack,        (* the stack the boot loader started the kernel on     *)
  Priorities,       (* the priorities callers use                          *)
  TIMER_COUNT       (* irq_handler's static timer_count, which gates       *)
                    (* change_process at > 100.  Nothing increments it: it *)
                    (* is 0 in the kernel as it stands.                    *)

ASSUME SchedulerAssumption ==
  /\ MAX_PROCESS_COUNT \in Nat \ {0}
  /\ DEFAULT_TIME_SLICE \in Nat \ {0}
  /\ PID_LIMIT \in Nat /\ PID_LIMIT > MAX_PROCESS_COUNT + 1
  /\ BootStack \notin Stacks
  /\ Priorities \subseteq Nat
  /\ TIMER_COUNT \in Nat

VARIABLES
  initialized,
  processes,        (* the array; slots at process_count and above keep    *)
                    (* whatever they last held                             *)
  process_count, current_process, next_pid,
  allocated,        (* the stacks kmalloc gave out and kfree did not get   *)
  cpu,              (* the stack the CPU runs on                           *)
  yielding,         (* a yield has marked its caller and comes to          *)
                    (* change_process next                                 *)
  window,           (* the slots a yield will save to and load from        *)
  in_service,       (* a timer interrupt awaits its end-of-interrupt       *)
  disturbed,        (* something ran that can misplace a context; see      *)
                    (* SavedContexts                                       *)
  served            (* history: the slots switched to since the table was  *)
                    (* last changed or all of them had their turn          *)

tableVars == <<initialized, processes, process_count, current_process, next_pid, allocated>>
cpuVars == <<cpu, yielding, window, in_service, disturbed>>
vars == <<tableVars, cpuVars, served>>

Slots == 0..(MAX_PROCESS_COUNT - 1)
Used == 0..(process_count - 1)
States == {"READY", "RUNNING", "BLOCKED", "TERMINATED"}
Pids == 0..(PID_LIMIT - 1)

NoWindow == [save |-> 0, load |-> 0]      \* a real window has two slots
Windows == [save : Slots, load : Slots]

\* What a stack_ptr resumes: a stack, and the code found there.  "entry" is the
\* frame setup_initial_stack builds; "tick" returns into irq_handler, which sends
\* the end-of-interrupt and then goes on with the window it had interrupted, and
\* "marked" is a tick that fell between a yield's marking and its change_process.
Ticks == {"tick", "marked"}
Contexts == [stack : Stacks \cup {BootStack}, resume : {"entry", "yield"} \cup Ticks,
             window : Windows]
Context(s, r, w) == [stack |-> s, resume |-> r, window |-> w]

Process == [pid : Pids, state : States, priority : Nat, time_slice : 0..DEFAULT_TIME_SLICE,
            stack_base : Stacks \cup {BootStack}, stack_ptr : Contexts]

\* A zeroed slot.
Blank == [pid |-> 0, state |-> "READY", priority |-> 0, time_slice |-> 0,
          stack_base |-> BootStack, stack_ptr |-> Context(BootStack, "entry", NoWindow)]

Init ==
  /\ initialized = FALSE
  /\ processes = [i \in Slots |-> Blank]
  /\ process_count = 0 /\ current_process = 0 /\ next_pid = 0
  /\ allocated = {}
  /\ cpu = BootStack
  /\ yielding = FALSE
  /\ window = NoWindow
  /\ in_service = FALSE
  /\ disturbed = FALSE
  /\ served = {}

\* get_process_by_pid finds slot i.
Finds(i, pid) ==
  /\ initialized
  /\ i \in Used /\ processes[i].pid = pid
  /\ \A j \in 0..(i - 1) : processes[j].pid # pid

\* The CPU executes ordinary code, not a yield.
InProcess == ~yielding /\ window = NoWindow
\* The controller delivers an interrupt.
Interruptible == ~in_service

------------------------------------------------------------------------------
(* The process table.                                                      *)

scheduler_init ==
  /\ InProcess
  /\ ~initialized
  /\ next_pid' = 1 /\ current_process' = 0
  /\ \/ \E s \in Stacks \ allocated :
          /\ processes' = [processes EXCEPT ![0] =
               [pid |-> 0, state |-> "RUNNING", priority |-> 0,
                time_slice |-> DEFAULT_TIME_SLICE, stack_base |-> s,
                stack_ptr |-> Context(s, "entry", NoWindow)]]
          /\ allocated' = allocated \cup {s}
          /\ process_count' = 1
          /\ initialized' = TRUE
     \/ \* kmalloc failed
        /\ process_count' = 0
        /\ UNCHANGED <<processes, allocated, initialized>>
  /\ served' = {}
  /\ UNCHANGED cpuVars

PidAfter_wraps_to_zero(p, k) == (p + k) % PID_LIMIT

\* The k-th pid tried from p on: pid++ skips 0 when it wraps.
PidAfter(p, k) == ((p - 1 + k) % (PID_LIMIT - 1)) + 1

UsedPids == {processes[i].pid : i \in Used}

\* A call that returns -1 (no room, no stack) changes nothing.  The kernel calls it
\* only before it enables interrupts, so nothing interleaves with it.
create_process(priority) ==
  /\ InProcess
  /\ initialized
  /\ process_count < MAX_PROCESS_COUNT
  /\ \E s \in Stacks \ allocated, k \in 0..MAX_PROCESS_COUNT :
       LET pid == PidAfter(next_pid, k)
       IN  /\ pid \notin UsedPids
           /\ \A j \in 0..(k - 1) : PidAfter(next_pid, j) \in UsedPids
           /\ processes' = [processes EXCEPT ![process_count] =
                [pid |-> pid, state |-> "READY", priority |-> priority,
                 time_slice |-> DEFAULT_TIME_SLICE, stack_base |-> s,
                 stack_ptr |-> Context(s, "entry", NoWindow)]]
           /\ next_pid' = PidAfter(pid, 1)
           /\ allocated' = allocated \cup {s}
  /\ process_count' = process_count + 1
  /\ served' = {}
  /\ UNCHANGED <<initialized, current_process, cpuVars>>

adjust_current_by_bound_only(i, n) == IF current_process >= n THEN 0 ELSE current_process

\* current_process after slot i of n + 1 is closed up, leaving n.
adjust_current(i, n) ==
  IF current_process >= n THEN 0
  ELSE IF current_process > i THEN current_process - 1
  ELSE current_process

free_stack_after_shift(i) ==
  allocated \ {processes[IF i < process_count - 1 THEN i + 1 ELSE i].stack_base}

\* The stacks in use after slot i's is given back.
free_process_stack(i) == allocated \ {processes[i].stack_base}

\* cmd_kill in the keyboard interrupt: terminate_process frees the stack and shifts
\* the later slots down; the last one keeps its old contents.
terminate_process(pid) ==
  /\ Interruptible
  /\ pid # 0
  /\ \E i \in Used :
       /\ Finds(i, pid)
       /\ allocated' = free_process_stack(i)
       /\ processes' = [j \in Slots |->
            IF i <= j /\ j < process_count - 1 THEN processes[j + 1]
            ELSE IF i = j THEN [processes[j] EXCEPT !.state = "TERMINATED"]
            ELSE processes[j]]
       /\ process_count' = process_count - 1
       /\ current_process' = adjust_current(i, process_count - 1)
       /\ disturbed' = (disturbed \/ window # NoWindow \/ i = current_process
                        \/ (i < current_process /\ current_process = process_count - 1))
  /\ served' = {}
  /\ UNCHANGED <<initialized, next_pid, cpu, yielding, window, in_service>>

block_process(pid) ==
  /\ InProcess
  /\ \E i \in Used :
       /\ Finds(i, pid)
       /\ processes[i].state = "RUNNING"
       /\ processes' = [processes EXCEPT ![i].state = "BLOCKED"]
  /\ served' = {}
  /\ UNCHANGED <<initialized, process_count, current_process, next_pid, allocated, cpuVars>>

unblock_process(pid) ==
  /\ Interruptible \/ InProcess
  /\ \E i \in Used :
       /\ Finds(i, pid)
       /\ processes[i].state = "BLOCKED"
       /\ processes' = [processes EXCEPT ![i].state = "READY"]
  /\ served' = {}
  /\ UNCHANGED <<initialized, process_count, current_process, next_pid, allocated, cpuVars>>

\* The shell's nice, also in the keyboard interrupt; pid 0 is refused.
cmd_nice(pid, priority) ==
  /\ Interruptible
  /\ pid # 0
  /\ \E i \in Used :
       /\ Finds(i, pid)
       /\ processes' = [processes EXCEPT ![i].priority = priority]
  /\ served' = {}
  /\ UNCHANGED <<initialized, process_count, current_process, next_pid, allocated, cpuVars>>

------------------------------------------------------------------------------
(* change_process.  table is the array it starts from.                     *)

\* How far find_next_process walks from current to reach slot i.
distance(i) == (i - current_process - 1) % process_count

Best_from_slot_zero(table, i) ==
  /\ table[i].state = "READY"
  /\ \A j \in Used : table[j].state = "READY" =>
       \/ table[i].priority < table[j].priority
       \/ table[i].priority = table[j].priority /\ i <= j

\* Slot i is READY, and no READY slot beats it: lower priority number first, then
\* round robin order.
Best(table, i) ==
  /\ table[i].state = "READY"
  /\ \A j \in Used : table[j].state = "READY" =>
       \/ table[i].priority < table[j].priority
       \/ table[i].priority = table[j].priority /\ distance(i) <= distance(j)

\* find_next_process may return slot i.
find_next_process(table, i) ==
  IF \E j \in Used : table[j].state = "READY" THEN Best(table, i)
  ELSE IF table[current_process].state = "RUNNING" THEN i = current_process
  ELSE i = 0

\* The current slot after the time slice is decremented.
Ticked(p) == [p EXCEPT !.time_slice = IF @ > 0 THEN @ - 1 ELSE 0]

\* The current process has time left: change_process lets it run on.
RunsOn(table) ==
  LET p == Ticked(table[current_process])
  IN  /\ process_count > 1
      /\ p.time_slice > 0 /\ p.state = "RUNNING"
      /\ processes' = [table EXCEPT ![current_process] = p]

\* The slice is used up (or the process is not RUNNING).
Spent(table) ==
  LET p == Ticked(table[current_process])
  IN  process_count > 1 /\ ~(p.time_slice > 0 /\ p.state = "RUNNING")

\* change_process finds nobody else, or is alone, and returns without a switch.
Stays(table) ==
  \/ /\ process_count <= 1
     /\ processes' = table
  \/ /\ Spent(table)
     /\ find_next_process(table, current_process)
     /\ processes' = [table EXCEPT ![current_process].time_slice = DEFAULT_TIME_SLICE]

\* change_process hands over from the current slot to slot n; the table is `switched'.
HandsOver(table, n) ==
  /\ Spent(table)
  /\ n # current_process
  /\ find_next_process(table, n)

switched(table, n) ==
  [table EXCEPT
    ![current_process].state = IF @ = "RUNNING" THEN "READY" ELSE @,
    ![current_process].time_slice = DEFAULT_TIME_SLICE,
    ![n].state = "RUNNING",
    ![n].time_slice = DEFAULT_TIME_SLICE]

\* served after slot n got the CPU: its second turn starts a new round.
turn(n) == IF n \in served THEN {n} ELSE served \cup {n}

\* context_switch: the running context goes to slot s of the table, slot l's is
\* resumed.  A context that was saved in the timer interrupt ends that interrupt.
context_switch(table, s, l, from) ==
  LET saved == [table EXCEPT ![s].stack_ptr = from]
      to    == saved[l].stack_ptr
  IN  /\ processes' = saved
      /\ cpu' = to.stack
      /\ window' = to.window
      /\ yielding' = (to.resume = "marked")

\* The timer interrupt: on_irq0, then change_process if the gate is open.  A switch
\* leaves the interrupt in service unless the resumed context ends one itself.
timer_irq ==
  /\ Interruptible
  /\ initialized
  /\ TIMER_COUNT > 100
  /\ \/ /\ RunsOn(processes) \/ Stays(processes)
        /\ UNCHANGED <<current_process, cpuVars, served>>
     \/ \E n \in Used :
          /\ HandsOver(processes, n)
          /\ context_switch(switched(processes, n), current_process, n,
                            Context(cpu, IF yielding THEN "marked" ELSE "tick", window))
          /\ current_process' = n
          /\ served' = turn(n)
          /\ in_service' = (processes[n].stack_ptr.resume \notin Ticks)
          /\ disturbed' = (disturbed \/ window # NoWindow)
  /\ UNCHANGED <<initialized, process_count, next_pid, allocated>>

\* The caller of a yield becomes READY and gives up its slice.
Yielded ==
  [processes EXCEPT ![current_process].state = IF @ = "RUNNING" THEN "READY" ELSE @,
                    ![current_process].time_slice = 0]

\* yield up to its call of change_process; interrupts are on.  They are not told
\* apart between its look at current_process and its two writes.
yield ==
  /\ InProcess
  /\ initialized
  /\ processes' = Yielded
  /\ yielding' = TRUE
  /\ UNCHANGED <<initialized, process_count, current_process, next_pid, allocated,
                 cpu, window, in_service, disturbed, served>>

\* yield's change_process, up to the sti before context_switch.  There may be time on
\* the slice again when the timer has been faster.
yield_changes ==
  /\ yielding
  /\ yielding' = FALSE
  /\ \/ /\ RunsOn(processes) \/ Stays(processes)
        /\ UNCHANGED <<current_process, window, served>>
     \/ \E n \in Used :
          /\ HandsOver(processes, n)
          /\ processes' = switched(processes, n)
          /\ current_process' = n
          /\ served' = turn(n)
          /\ window' = [save |-> current_process, load |-> n]
  /\ UNCHANGED <<initialized, process_count, next_pid, allocated, cpu, in_service, disturbed>>

\* yield's context_switch, through the two pointers it has held since.
yield_switch ==
  /\ window # NoWindow
  /\ context_switch(processes, window.save, window.load, Context(cpu, "yield", NoWindow))
  /\ in_service' = (in_service /\ processes[window.load].stack_ptr.resume \notin Ticks)
  /\ UNCHANGED <<initialized, process_count, current_process, next_pid, allocated, disturbed, served>>

Next ==
  \/ scheduler_init
  \/ \E p \in Priorities : create_process(p)
  \/ \E pid \in Pids : terminate_process(pid)
  \/ \E pid \in Pids : block_process(pid)
  \/ \E pid \in Pids : unblock_process(pid)
  \/ \E pid \in Pids, p \in Priorities : cmd_nice(pid, p)
  \/ timer_irq
  \/ yield
  \/ yield_changes
  \/ yield_switch

Spec == Init /\ [][Next]_vars

------------------------------------------------------------------------------
(* Properties.                                                             *)

TypeOK ==
  /\ initialized \in BOOLEAN
  /\ processes \in [Slots -> Process]
  /\ process_count \in 0..MAX_PROCESS_COUNT
  /\ current_process \in Slots
  /\ next_pid \in Pids
  /\ allocated \subseteq Stacks
  /\ cpu \in Stacks \cup {BootStack}
  /\ yielding \in BOOLEAN
  /\ window \in Windows
  /\ in_service \in BOOLEAN
  /\ disturbed \in BOOLEAN
  /\ served \subseteq Slots

\* The table is sound whatever is created, killed and switched, also when pids have
\* wrapped: the kernel keeps slot 0, it alone has pid 0, no pid is used twice,
\* current_process names a used slot, and every variable keeps its type.
TableSound ==
  /\ TypeOK
  /\ initialized =>
       /\ process_count > 0 /\ current_process < process_count
       /\ processes[0].pid = 0 /\ next_pid # 0
       /\ \A i, j \in Used : processes[i].pid = processes[j].pid => i = j

\* Each process has a stack of its own, and the stacks kmalloc gave out are exactly
\* those: terminate_process neither leaks one nor frees one twice.
StacksAccounted ==
  /\ allocated = {processes[i].stack_base : i \in Used}
  /\ \A i, j \in Used : processes[i].stack_base = processes[j].stack_base => i = j

\* Only the process that current_process names is marked RUNNING.
RunningIsCurrent ==
  \A i \in Used : processes[i].state = "RUNNING" => i = current_process

\* The stack slot i's process really runs on: the kernel stays on the boot stack.
OwnStack(i) == IF processes[i].pid = 0 THEN BootStack ELSE processes[i].stack_base

\* Every process resumes on its own stack, the CPU is on the stack of the current
\* process (of the yielding one, in a yield's window) and no other process is marked
\* RUNNING - unless a kill hit the current process, hit a lower slot while the last
\* slot was current, or fell into a yield's window, or a timer switch fell into such
\* a window.
SavedContexts ==
  initialized /\ ~disturbed =>
    LET on == IF window = NoWindow THEN current_process ELSE window.save
    IN  /\ window # NoWindow => window.load = current_process /\ window.save \in Used
        /\ cpu = OwnStack(on)
        /\ \A i \in Used \ {on} : processes[i].stack_ptr.stack = OwnStack(i)
        /\ RunningIsCurrent

\* Nobody waits through two turns of another: a process gets the CPU for the second time
\* since the table last changed only when every READY process as urgent has had it since.
\* That is so while no process that could run is more urgent: with one, change_process
\* comes back to the first of the others after each of its slices, and the rest wait.
TurnsTaken ==
  [][LET n == current_process'
     IN  (n # current_process /\ process_count' = process_count
          /\ n \in served
          /\ \A j \in Used : processes[j].state \in {"READY", "RUNNING"} =>
                processes[j].priority >= processes[n].priority)
         => \A j \in Used : processes[j].state = "READY"
                             /\ processes[j].priority = processes[n].priority
                             => j \in served]_vars

==============================================================================
