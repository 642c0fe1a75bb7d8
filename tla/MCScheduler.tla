----------------------------- MODULE MCScheduler -----------------------------
(* Four slots (the least for which a kill moves the current process down    *)
(* one), four interchangeable stacks, five pids that wrap, two priorities.  *)
EXTENDS Scheduler, TLC
CONSTANTS s1, s2, s3, s4
MCStacks == {s1, s2, s3, s4}
MCPriorities == {0, 1}
StackSymmetry == Permutations(MCStacks)

\* Pids wrap in tables that are not full; a full table is followed for the first
\* processes created, and misplaced contexts while there are two of those.  The states
\* just past the bound are checked too.
Bound ==
  /\ process_count = MAX_PROCESS_COUNT => next_pid = 4
  /\ disturbed => next_pid = 3

\* Slots from process_count on are overwritten before they are read, except through
\* the slot pointers of a yield: states that differ in such slots only are one.
NobodyHoldsSlots ==
  window = NoWindow /\ \A i \in Slots : processes[i].stack_ptr.window = NoWindow
LiveView ==
  <<initialized, process_count, current_process, next_pid, allocated, cpuVars, served,
    [i \in Slots |->
       IF NobodyHoldsSlots /\ i >= process_count THEN Blank ELSE processes[i]]>>
==============================================================================
