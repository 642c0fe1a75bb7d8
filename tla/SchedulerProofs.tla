---------------------------- MODULE SchedulerProofs ----------------------------
(***************************************************************************)
(* For every number of slots, stacks, pids and priorities, with the timer  *)
(* gate open or shut: the process table stays sound, stacks are accounted  *)
(* for and contexts resume where they belong.                              *)
(*                                                                         *)
(* TableSound and StacksAccounted are inductive together, once it is known *)
(* what the table holds before scheduler_init has succeeded.  They depend  *)
(* only on which process is in which slot, which a switch leaves alone.    *)
(* SavedContexts needs besides that no saved context holds a yield's       *)
(* window, which only a timer switch in such a window could bring about.   *)
(***************************************************************************)
EXTENDS Scheduler, TLAPS

------------------------------------------------------------------------------
(* Numbers.                                                                *)

\* A remainder is less than its modulus.
LEMMA ModRange ==
  ASSUME NEW x \in Int, NEW m \in Nat \ {0}
  PROVE  x % m \in 0..(m - 1)
  OBVIOUS

------------------------------------------------------------------------------
(* The inductive invariant.                                                *)

\* Before scheduler_init has succeeded.
BeforeInit ==
  ~initialized =>
    /\ process_count = 0 /\ current_process = 0 /\ allocated = {}
    /\ cpu = BootStack /\ ~yielding /\ window = NoWindow

\* The inductive invariant of the table.
TableInv == TableSound /\ StacksAccounted /\ BeforeInit

\* Two tables have the same processes in the same slots.
SameProcesses(t, u) ==
  \A i \in Slots : t[i].pid = u[i].pid /\ t[i].stack_base = u[i].stack_base

------------------------------------------------------------------------------
(* What the updates of the table return.                                   *)

\* The sizes, as numbers.
LEMMA Bounds ==
  /\ MAX_PROCESS_COUNT \in Nat \ {0} /\ DEFAULT_TIME_SLICE \in Nat \ {0}
  /\ PID_LIMIT \in Nat /\ PID_LIMIT - 1 \in Nat \ {0}
  /\ 0 \in Slots /\ 0 \in Pids /\ 1 \in Pids
  /\ NoWindow \in Windows
  BY SchedulerAssumption DEF Slots, Pids, NoWindow, Windows

\* A pid that create_process tries is never 0.
LEMMA PidAfterRange ==
  ASSUME NEW p \in Pids, NEW k \in Nat
  PROVE  PidAfter(p, k) \in Pids \ {0}
  <1>1. p - 1 + k \in Int
    BY Bounds DEF Pids
  <1>2. (p - 1 + k) % (PID_LIMIT - 1) \in 0..(PID_LIMIT - 1 - 1)
    BY <1>1, Bounds, ModRange
  <1> QED
    BY <1>2, Bounds DEF PidAfter, Pids

\* One field of one slot is changed.
LEMMA SetState ==
  ASSUME NEW t \in [Slots -> Process], NEW i \in Slots, NEW s \in States
  PROVE  LET u == [t EXCEPT ![i].state = s]
         IN  /\ u \in [Slots -> Process]
             /\ \A j \in Slots : j # i => u[j] = t[j]
             /\ u[i].pid = t[i].pid /\ u[i].stack_base = t[i].stack_base
             /\ u[i].stack_ptr = t[i].stack_ptr /\ u[i].state = s
             /\ u[i].priority = t[i].priority /\ u[i].time_slice = t[i].time_slice
  BY DEF Process

\* Another priority.
LEMMA SetPriority ==
  ASSUME NEW t \in [Slots -> Process], NEW i \in Slots, NEW p \in Nat
  PROVE  LET u == [t EXCEPT ![i].priority = p]
         IN  /\ u \in [Slots -> Process]
             /\ \A j \in Slots : j # i => u[j] = t[j]
             /\ u[i].pid = t[i].pid /\ u[i].stack_base = t[i].stack_base
             /\ u[i].stack_ptr = t[i].stack_ptr /\ u[i].state = t[i].state
  BY DEF Process

\* Another time slice.
LEMMA SetSlice ==
  ASSUME NEW t \in [Slots -> Process], NEW i \in Slots, NEW n \in 0..DEFAULT_TIME_SLICE
  PROVE  LET u == [t EXCEPT ![i].time_slice = n]
         IN  /\ u \in [Slots -> Process]
             /\ \A j \in Slots : j # i => u[j] = t[j]
             /\ u[i].pid = t[i].pid /\ u[i].stack_base = t[i].stack_base
             /\ u[i].stack_ptr = t[i].stack_ptr /\ u[i].state = t[i].state
             /\ u[i].priority = t[i].priority
  BY DEF Process

\* Another saved context.
LEMMA SetContext ==
  ASSUME NEW t \in [Slots -> Process], NEW i \in Slots, NEW c \in Contexts
  PROVE  LET u == [t EXCEPT ![i].stack_ptr = c]
         IN  /\ u \in [Slots -> Process]
             /\ \A j \in Slots : j # i => u[j] = t[j]
             /\ u[i].pid = t[i].pid /\ u[i].stack_base = t[i].stack_base
             /\ u[i].stack_ptr = c /\ u[i].state = t[i].state
  BY DEF Process

\* A slot after the tick differs in its time slice only.
LEMMA TickedProps ==
  ASSUME NEW p \in Process
  PROVE  /\ Ticked(p) \in Process
         /\ Ticked(p).pid = p.pid /\ Ticked(p).stack_base = p.stack_base
         /\ Ticked(p).stack_ptr = p.stack_ptr /\ Ticked(p).state = p.state
         /\ Ticked(p).priority = p.priority
  BY Bounds DEF Process, Ticked

\* yield's own part touches the caller's state and slice only.
LEMMA YieldedProps ==
  ASSUME TypeOK
  PROVE  /\ Yielded \in [Slots -> Process]
         /\ \A j \in Slots : j # current_process => Yielded[j] = processes[j]
         /\ LET u == Yielded[current_process]
                p == processes[current_process]
            IN  /\ u.pid = p.pid /\ u.stack_base = p.stack_base /\ u.stack_ptr = p.stack_ptr
                /\ u.priority = p.priority
                /\ u.state = IF p.state = "RUNNING" THEN "READY" ELSE p.state
  <1> DEFINE c == current_process
             s == IF processes[c].state = "RUNNING" THEN "READY" ELSE processes[c].state
             t == [processes EXCEPT ![c].state = s]
             u == [t EXCEPT ![c].time_slice = 0]
  <1>1. processes \in [Slots -> Process] /\ c \in Slots /\ s \in States /\ 0 \in 0..DEFAULT_TIME_SLICE
    BY Bounds DEF TypeOK, Process, States
  <1>2. Yielded = u
    BY DEF Yielded
  <1>3. /\ t \in [Slots -> Process] /\ \A j \in Slots : j # c => t[j] = processes[j]
        /\ t[c].pid = processes[c].pid /\ t[c].stack_base = processes[c].stack_base
        /\ t[c].stack_ptr = processes[c].stack_ptr /\ t[c].state = s
        /\ t[c].priority = processes[c].priority
    BY <1>1, SetState
  <1> HIDE DEF t
  <1>4. /\ u \in [Slots -> Process] /\ \A j \in Slots : j # c => u[j] = t[j]
        /\ u[c].pid = t[c].pid /\ u[c].stack_base = t[c].stack_base
        /\ u[c].stack_ptr = t[c].stack_ptr /\ u[c].state = t[c].state
        /\ u[c].priority = t[c].priority
    BY <1>1, <1>3, SetSlice
  <1> HIDE DEF u
  <1> QED
    BY <1>2, <1>3, <1>4

\* The table after the hand-over, slot by slot.
LEMMA SwitchedProps ==
  ASSUME NEW t \in [Slots -> Process], current_process \in Slots, NEW n \in Slots, n # current_process
  PROVE  /\ switched(t, n) \in [Slots -> Process]
         /\ \A j \in Slots :
              LET u == switched(t, n)[j]
              IN  /\ u.pid = t[j].pid /\ u.stack_base = t[j].stack_base
                  /\ u.stack_ptr = t[j].stack_ptr
                  /\ u.state = IF j = n THEN "RUNNING"
                               ELSE IF j = current_process /\ t[j].state = "RUNNING" THEN "READY"
                               ELSE t[j].state
  <1> DEFINE c == current_process
             s == IF t[c].state = "RUNNING" THEN "READY" ELSE t[c].state
             t1 == [t EXCEPT ![c].state = s]
             t2 == [t1 EXCEPT ![c].time_slice = DEFAULT_TIME_SLICE]
             t3 == [t2 EXCEPT ![n].state = "RUNNING"]
             t4 == [t3 EXCEPT ![n].time_slice = DEFAULT_TIME_SLICE]
  <1>1. s \in States /\ "RUNNING" \in States /\ DEFAULT_TIME_SLICE \in 0..DEFAULT_TIME_SLICE
    BY Bounds DEF Process, States
  <1>2. switched(t, n) = t4
    BY DEF switched
  <1>3. /\ t1 \in [Slots -> Process] /\ \A j \in Slots : j # c => t1[j] = t[j]
        /\ t1[c].pid = t[c].pid /\ t1[c].stack_base = t[c].stack_base
        /\ t1[c].stack_ptr = t[c].stack_ptr /\ t1[c].state = s
    BY <1>1, SetState
  <1> HIDE DEF t1
  <1>4. /\ t2 \in [Slots -> Process] /\ \A j \in Slots : j # c => t2[j] = t1[j]
        /\ t2[c].pid = t1[c].pid /\ t2[c].stack_base = t1[c].stack_base
        /\ t2[c].stack_ptr = t1[c].stack_ptr /\ t2[c].state = t1[c].state
    BY <1>1, <1>3, SetSlice
  <1> HIDE DEF t2
  <1>5. /\ t3 \in [Slots -> Process] /\ \A j \in Slots : j # n => t3[j] = t2[j]
        /\ t3[n].pid = t2[n].pid /\ t3[n].stack_base = t2[n].stack_base
        /\ t3[n].stack_ptr = t2[n].stack_ptr /\ t3[n].state = "RUNNING"
    BY <1>1, <1>4, SetState
  <1> HIDE DEF t3
  <1>6. /\ t4 \in [Slots -> Process] /\ \A j \in Slots : j # n => t4[j] = t3[j]
        /\ t4[n].pid = t3[n].pid /\ t4[n].stack_base = t3[n].stack_base
        /\ t4[n].stack_ptr = t3[n].stack_ptr /\ t4[n].state = t3[n].state
    BY <1>1, <1>5, SetSlice
  <1> HIDE DEF t4
  <1> QED
    BY <1>2, <1>3, <1>4, <1>5, <1>6

------------------------------------------------------------------------------
(* The table.                                                              *)

\* A step that leaves the processes in their slots, after scheduler_init, keeps the table
\* sound when it keeps the types and current_process on a used slot.
LEMMA SwitchKeepsTable ==
  ASSUME TableInv, initialized, UNCHANGED <<initialized, process_count, next_pid, allocated>>,
         processes' \in [Slots -> Process], SameProcesses(processes', processes),
         current_process' \in Used,
         cpu' \in Stacks \cup {BootStack}, window' \in Windows,
         yielding' \in BOOLEAN, in_service' \in BOOLEAN, disturbed' \in BOOLEAN,
         served' \subseteq Slots
  PROVE  TableInv'
  <1>1. process_count \in Nat /\ process_count <= MAX_PROCESS_COUNT /\ Used \subseteq Slots /\ 0 \in Slots
        /\ Used' = Used
    BY Bounds DEF TableInv, TableSound, TypeOK, Used, Slots
  <1>2. current_process' \in Slots /\ current_process' < process_count
    BY <1>1 DEF Used
  <1>3. TypeOK'
    BY <1>2 DEF TableInv, TableSound, TypeOK
  <1>4. TableSound'
    BY <1>1, <1>2, <1>3 DEF TableInv, TableSound, SameProcesses
  <1>5. StacksAccounted'
    BY <1>1 DEF TableInv, StacksAccounted, SameProcesses
  <1> QED
    BY <1>4, <1>5 DEF TableInv, BeforeInit

\* change_process returns without a switch: the slots keep their processes and contexts.
LEMMA StaysProps ==
  ASSUME NEW t \in [Slots -> Process], current_process \in Slots, RunsOn(t) \/ Stays(t)
  PROVE  /\ processes' \in [Slots -> Process]
         /\ \A j \in Slots : /\ processes'[j].pid = t[j].pid
                             /\ processes'[j].stack_base = t[j].stack_base
                             /\ processes'[j].stack_ptr = t[j].stack_ptr
                             /\ processes'[j].state = t[j].state
  <1>1. CASE RunsOn(t)
    <2>1. Ticked(t[current_process]) \in Process
      BY TickedProps
    <2>2. processes' = [t EXCEPT ![current_process] = Ticked(t[current_process])]
      BY <1>1 DEF RunsOn
    <2> QED
      BY <2>1, <2>2, TickedProps
  <1>2. CASE processes' = t
    BY <1>2
  <1>3. CASE processes' = [t EXCEPT ![current_process].time_slice = DEFAULT_TIME_SLICE]
    <2>1. DEFAULT_TIME_SLICE \in 0..DEFAULT_TIME_SLICE
      BY Bounds
    <2> QED
      BY <1>3, <2>1, SetSlice
  <1> QED
    BY <1>1, <1>2, <1>3 DEF Stays

\* context_switch writes one context and leaves the processes in their slots.
LEMMA ContextSwitchProps ==
  ASSUME NEW t \in [Slots -> Process], NEW s \in Slots, NEW l \in Slots, NEW from \in Contexts,
         context_switch(t, s, l, from)
  PROVE  /\ processes' \in [Slots -> Process]
         /\ \A j \in Slots : /\ processes'[j].pid = t[j].pid
                             /\ processes'[j].stack_base = t[j].stack_base
                             /\ processes'[j].state = t[j].state
                             /\ processes'[j].stack_ptr = IF j = s THEN from ELSE t[j].stack_ptr
         /\ cpu' = processes'[l].stack_ptr.stack /\ window' = processes'[l].stack_ptr.window
         /\ cpu' \in Stacks \cup {BootStack} /\ window' \in Windows /\ yielding' \in BOOLEAN
  <1>1. processes' = [t EXCEPT ![s].stack_ptr = from]
    BY DEF context_switch
  <1>2. /\ processes' \in [Slots -> Process]
        /\ \A j \in Slots : j # s => processes'[j] = t[j]
        /\ processes'[s].pid = t[s].pid /\ processes'[s].stack_base = t[s].stack_base
        /\ processes'[s].stack_ptr = from /\ processes'[s].state = t[s].state
    BY <1>1, SetContext
  <1>3. cpu' = processes'[l].stack_ptr.stack /\ window' = processes'[l].stack_ptr.window
    BY <1>1 DEF context_switch
  <1>4. processes'[l].stack_ptr \in Contexts
    BY <1>2 DEF Process
  <1>5. yielding' \in BOOLEAN
    BY DEF context_switch
  <1> QED
    BY <1>2, <1>3, <1>4, <1>5 DEF Contexts

\* The initial table.
LEMMA InitTable ==
  ASSUME Init
  PROVE  TableInv
  <1>1. Used = {}
    BY DEF Init, Used
  <1>2. Blank \in Process
    BY Bounds DEF Blank, Process, Contexts, Context, States
  <1>3. TypeOK
    <2>1. processes \in [Slots -> Process]
      BY <1>2 DEF Init
    <2>2. 0 \in 0..MAX_PROCESS_COUNT
      BY Bounds
    <2> QED
      BY Bounds, <2>1, <2>2 DEF Init, TypeOK
  <1> QED
    BY <1>1, <1>3 DEF Init, TableInv, TableSound, StacksAccounted, BeforeInit

\* scheduler_init, whether or not kmalloc provides a stack.
LEMMA InitProcessKeepsTable ==
  ASSUME TableInv, scheduler_init
  PROVE  TableInv'
  <1>0. TypeOK /\ process_count = 0 /\ allocated = {} /\ cpu = BootStack /\ window = NoWindow
    BY DEF scheduler_init, TableInv, TableSound, BeforeInit
  <1>1. CASE /\ process_count' = 0
             /\ UNCHANGED <<processes, allocated, initialized>>
    <2>1. Used' = {}
      BY <1>1 DEF Used
    <2>2. TypeOK'
      BY <1>0, <1>1, Bounds DEF scheduler_init, TypeOK, cpuVars
    <2> QED
      BY <1>0, <1>1, <2>1, <2>2
      DEF scheduler_init, TableInv, TableSound, StacksAccounted, BeforeInit, cpuVars
  <1>2. ASSUME NEW s \in Stacks \ allocated,
               processes' = [processes EXCEPT ![0] =
                 [pid |-> 0, state |-> "RUNNING", priority |-> 0,
                  time_slice |-> DEFAULT_TIME_SLICE, stack_base |-> s,
                  stack_ptr |-> Context(s, "entry", NoWindow)]],
               allocated' = allocated \cup {s}, process_count' = 1, initialized' = TRUE
        PROVE  TableInv'
    <2> DEFINE p == [pid |-> 0, state |-> "RUNNING", priority |-> 0,
                     time_slice |-> DEFAULT_TIME_SLICE, stack_base |-> s,
                     stack_ptr |-> Context(s, "entry", NoWindow)]
    <2>1. p \in Process /\ p.pid = 0 /\ p.stack_base = s
      BY Bounds DEF Process, Contexts, Context, States
    <2> HIDE DEF p
    <2>2. processes' \in [Slots -> Process] /\ processes'[0] = p
      BY <1>0, <1>2, <2>1, Bounds DEF TypeOK, p
    <2>3. Used' = {0}
      BY <1>2 DEF Used
    <2>4. TypeOK'
      BY <1>0, <1>2, <2>2, Bounds DEF scheduler_init, TypeOK, cpuVars
    <2>5. TableSound'
      BY <1>2, <2>1, <2>2, <2>3, <2>4 DEF scheduler_init, TableSound
    <2>6. StacksAccounted'
      BY <1>0, <1>2, <2>1, <2>2, <2>3 DEF StacksAccounted
    <2> QED
      BY <1>2, <2>5, <2>6 DEF TableInv, BeforeInit
  <1> QED
    BY <1>1, <1>2 DEF scheduler_init

\* What is in use before a step, as sets of slots.
LEMMA UsedProps ==
  ASSUME TableInv
  PROVE  /\ process_count \in Nat /\ process_count <= MAX_PROCESS_COUNT
         /\ Used \subseteq Slots /\ \A i : i \in Used <=> i \in Nat /\ i < process_count
         /\ processes \in [Slots -> Process] /\ current_process \in Slots
         /\ initialized => 0 \in Used /\ current_process \in Used
  BY Bounds DEF TableInv, TableSound, TypeOK, Used, Slots

\* A process that create_process adds has a pid and a stack of its own.
LEMMA CreateKeepsTable ==
  ASSUME TableInv, NEW priority \in Priorities, create_process(priority)
  PROVE  /\ TableInv' /\ Used' = Used \cup {process_count}
         /\ process_count \in Slots \ Used
         /\ \A j \in Used : processes'[j] = processes[j]
         /\ LET p == processes'[process_count]
            IN  p.state = "READY" /\ p.pid # 0 /\ p.stack_ptr = Context(p.stack_base, "entry", NoWindow)
  <1> DEFINE n == process_count
  <1>1. PICK s \in Stacks \ allocated, k \in 0..MAX_PROCESS_COUNT :
          LET pid == PidAfter(next_pid, k)
          IN  /\ pid \notin UsedPids
              /\ processes' = [processes EXCEPT ![process_count] =
                   [pid |-> pid, state |-> "READY", priority |-> priority,
                    time_slice |-> DEFAULT_TIME_SLICE, stack_base |-> s,
                    stack_ptr |-> Context(s, "entry", NoWindow)]]
              /\ next_pid' = PidAfter(pid, 1)
              /\ allocated' = allocated \cup {s}
    BY Zenon DEF create_process
  <1> DEFINE pid == PidAfter(next_pid, k)
             p == [pid |-> pid, state |-> "READY", priority |-> priority,
                   time_slice |-> DEFAULT_TIME_SLICE, stack_base |-> s,
                   stack_ptr |-> Context(s, "entry", NoWindow)]
  <1>2. pid \in Pids \ {0} /\ next_pid' \in Pids \ {0}
    <2>1. k \in Nat /\ 1 \in Nat /\ next_pid \in Pids
      BY Bounds DEF TableInv, TableSound, TypeOK
    <2>2. pid \in Pids \ {0}
      BY <2>1, PidAfterRange
    <2> HIDE DEF pid
    <2>3. PidAfter(pid, 1) \in Pids \ {0}
      BY <2>1, <2>2, PidAfterRange
    <2> QED
      BY <1>1, <2>2, <2>3 DEF pid
  <1>3. pid \notin UsedPids /\ processes' = [processes EXCEPT ![n] = p] /\ allocated' = allocated \cup {s}
    BY <1>1
  <1> HIDE DEF pid
  <1>4. p \in Process /\ p.pid = pid /\ p.stack_base = s /\ p.state = "READY"
        /\ p.stack_ptr = Context(s, "entry", NoWindow)
    <2>1. Context(s, "entry", NoWindow) \in Contexts /\ priority \in Nat
          /\ DEFAULT_TIME_SLICE \in 0..DEFAULT_TIME_SLICE
      BY Bounds, SchedulerAssumption DEF Contexts, Context
    <2> QED
      BY <1>2, <2>1 DEF Process, States
  <1> HIDE DEF p
  <1>5. n \in Slots /\ n \notin Used /\ n \in Nat /\ n + 1 <= MAX_PROCESS_COUNT /\ n > 0
    BY UsedProps, Bounds DEF create_process, Slots, TableInv, TableSound
  <1>6. /\ processes' \in [Slots -> Process] /\ processes'[n] = p
        /\ \A j \in Used : processes'[j] = processes[j]
    BY <1>3, <1>4, <1>5, UsedProps
  <1>7. Used' = Used \cup {n}
    BY <1>5, UsedProps DEF create_process, Used
  <1>8. UNCHANGED <<initialized, current_process, cpuVars>> /\ process_count' = n + 1 /\ initialized
        /\ served' = {}
    BY DEF create_process
  <1>9. TypeOK'
    BY <1>2, <1>3, <1>5, <1>6, <1>8 DEF TableInv, TableSound, TypeOK, cpuVars
  <1>10. TableSound'
    <2>1. \A i \in Used : processes[i].pid # pid
      BY <1>3 DEF UsedPids
    <2>2. \A i, j \in Used' : processes'[i].pid = processes'[j].pid => i = j
      BY <2>1, <1>4, <1>6, <1>7, <1>8 DEF TableInv, TableSound
    <2>3. process_count' > 0 /\ current_process' < process_count'
      BY <1>5, <1>8, UsedProps DEF Used, TableInv, TableSound
    <2>4. processes'[0].pid = 0
      BY <1>6, <1>8, UsedProps DEF TableInv, TableSound
    <2> QED
      BY <1>2, <1>9, <2>2, <2>3, <2>4 DEF TableSound
  <1>11. StacksAccounted'
    BY <1>3, <1>4, <1>6, <1>7 DEF TableInv, StacksAccounted
  <1> QED
    BY <1>4, <1>5, <1>6, <1>7, <1>8, <1>2, <1>10, <1>11 DEF TableInv, BeforeInit

\* Where a slot of the closed up table comes from.
above(i, j) == IF j < i THEN j ELSE j + 1

\* The table after slot i is closed up.
LEMMA TerminateProps ==
  ASSUME TableInv, NEW pid \in Pids, pid # 0, NEW i \in Used, Finds(i, pid),
         processes' = [j \in Slots |->
            IF i <= j /\ j < process_count - 1 THEN processes[j + 1]
            ELSE IF i = j THEN [processes[j] EXCEPT !.state = "TERMINATED"]
            ELSE processes[j]],
         process_count' = process_count - 1
  PROVE  /\ initialized /\ i > 0 /\ process_count >= 2
         /\ processes' \in [Slots -> Process]
         /\ Used' = 0..(process_count - 2)
         /\ \A j \in Used' : above(i, j) \in Used \ {i} /\ processes'[j] = processes[above(i, j)]
         /\ \A m \in Used \ {i} : \E j \in Used' : m = above(i, j)
  <1>1. initialized /\ i > 0 /\ i \in Nat /\ i < process_count /\ process_count >= 2
    BY UsedProps DEF Finds, TableInv, TableSound, Used
  <1>2. \A j \in Slots : [processes[j] EXCEPT !.state = "TERMINATED"] \in Process
    BY UsedProps DEF Process, States
  <1>3. ASSUME NEW j \in Slots, j < process_count - 1 PROVE j + 1 \in Slots
    BY <1>3, UsedProps, Bounds DEF Slots
  <1>4. processes' \in [Slots -> Process]
    BY <1>2, <1>3, UsedProps
  <1>5. Used' = 0..(process_count - 2)
    BY <1>1, UsedProps DEF Used
  <1>6. ASSUME NEW j \in Used'
        PROVE  above(i, j) \in Used \ {i} /\ processes'[j] = processes[above(i, j)]
    <2>1. j \in Nat /\ j < process_count - 1 /\ j \in Slots
      BY <1>5, UsedProps, Bounds DEF Slots
    <2> QED
      BY <1>1, <2>1, UsedProps DEF above, Used
  <1>7. ASSUME NEW m \in Used \ {i} PROVE \E j \in Used' : m = above(i, j)
    <2>1. m \in Nat /\ m < process_count /\ m # i
      BY UsedProps
    <2>2. CASE m < i
      <3>1. m \in Used' /\ above(i, m) = m
        BY <1>1, <1>5, <2>1, <2>2, UsedProps DEF above
      <3> QED
        BY <3>1
    <2>3. CASE m > i
      <3>1. m - 1 \in Used' /\ above(i, m - 1) = m
        BY <1>1, <1>5, <2>1, <2>3, UsedProps DEF above
      <3> QED
        BY <3>1
    <2> QED
      BY <1>1, <2>1, <2>2, <2>3
  <1> QED
    BY <1>1, <1>4, <1>5, <1>6, <1>7

\* terminate_process closes the table up, and frees the stack of the process it ends.
LEMMA TerminateKeepsTable ==
  ASSUME TableInv, NEW pid \in Pids, terminate_process(pid)
  PROVE  TableInv'
  <1>1. PICK i \in Used :
          /\ Finds(i, pid)
          /\ allocated' = free_process_stack(i)
          /\ processes' = [j \in Slots |->
               IF i <= j /\ j < process_count - 1 THEN processes[j + 1]
               ELSE IF i = j THEN [processes[j] EXCEPT !.state = "TERMINATED"]
               ELSE processes[j]]
          /\ process_count' = process_count - 1
          /\ current_process' = adjust_current(i, process_count - 1)
          /\ disturbed' = (disturbed \/ window # NoWindow \/ i = current_process
                           \/ (i < current_process /\ current_process = process_count - 1))
    BY Zenon DEF terminate_process
  <1>2. /\ initialized /\ i > 0 /\ process_count >= 2
        /\ processes' \in [Slots -> Process]
        /\ Used' = 0..(process_count - 2)
        /\ \A j \in Used' : above(i, j) \in Used \ {i} /\ processes'[j] = processes[above(i, j)]
        /\ \A m \in Used \ {i} : \E j \in Used' : m = above(i, j)
    BY <1>1, TerminateProps DEF terminate_process
  <1>3. UNCHANGED <<initialized, next_pid, cpu, yielding, window, in_service>> /\ served' = {}
    BY DEF terminate_process
  <1>4. i \in Nat /\ \A j \in Used' : j \in Nat
    BY <1>2, UsedProps
  <1>5. \A j, k \in Used' : above(i, j) = above(i, k) => j = k
    BY <1>4 DEF above
  <1>6. current_process' \in Nat /\ current_process' < process_count'
    BY <1>1, <1>2, UsedProps DEF adjust_current
  <1>7. TypeOK'
    <2>1. current_process' \in Slots /\ process_count' \in 0..MAX_PROCESS_COUNT
      BY <1>1, <1>2, <1>6, UsedProps, Bounds DEF Slots
    <2>2. disturbed' \in BOOLEAN
      BY <1>1
    <2> QED
      BY <1>1, <1>2, <1>3, <2>1, <2>2 DEF TableInv, TableSound, TypeOK, free_process_stack
  <1>8. TableSound'
    <2>1. 0 \in Used' /\ above(i, 0) = 0
      BY <1>2, <1>4, UsedProps DEF above
    <2>2. processes'[0].pid = 0 /\ next_pid' # 0
      BY <1>2, <1>3, <2>1 DEF TableInv, TableSound
    <2>3. \A j, k \in Used' : processes'[j].pid = processes'[k].pid => j = k
      BY <1>2, <1>5 DEF TableInv, TableSound
    <2>4. process_count' > 0
      BY <1>1, <1>2, UsedProps
    <2> QED
      BY <1>6, <1>7, <2>2, <2>3, <2>4 DEF TableSound
  <1>9. StacksAccounted'
    <2>1. \A j, k \in Used' : processes'[j].stack_base = processes'[k].stack_base => j = k
      BY <1>2, <1>5 DEF TableInv, StacksAccounted
    <2>2. allocated \ {processes[i].stack_base} = {processes[m].stack_base : m \in Used \ {i}}
      BY DEF TableInv, StacksAccounted
    <2>3. {processes[m].stack_base : m \in Used \ {i}} = {processes'[j].stack_base : j \in Used'}
      BY <1>2
    <2> QED
      BY <1>1, <2>1, <2>2, <2>3 DEF StacksAccounted, free_process_stack
  <1> QED
    BY <1>2, <1>3, <1>8, <1>9 DEF TableInv, BeforeInit

\* block, unblock and nice change the state or the priority of one slot.
LEMMA OneSlotProps ==
  ASSUME TableInv, NEW pid \in Pids,
         \/ block_process(pid) \/ unblock_process(pid)
         \/ \E q \in Priorities : cmd_nice(pid, q)
  PROVE  /\ initialized /\ UNCHANGED <<initialized, process_count, current_process, next_pid, allocated, cpuVars>>
         /\ processes' \in [Slots -> Process] /\ SameProcesses(processes', processes)
         /\ served' = {}
         /\ \A j \in Slots : /\ processes'[j].stack_ptr = processes[j].stack_ptr
                             /\ processes'[j].state = "RUNNING" => processes[j].state = "RUNNING"
  <1>1. PICK i \in Used : /\ Finds(i, pid)
                          /\ \/ processes' = [processes EXCEPT ![i].state = "BLOCKED"]
                             \/ processes' = [processes EXCEPT ![i].state = "READY"]
                             \/ \E q \in Priorities : processes' = [processes EXCEPT ![i].priority = q]
    BY DEF block_process, unblock_process, cmd_nice
  <1>2. i \in Slots /\ processes \in [Slots -> Process] /\ initialized
    BY <1>1, UsedProps DEF Finds
  <1>3. "BLOCKED" \in States /\ "READY" \in States /\ Priorities \subseteq Nat
    BY SchedulerAssumption DEF States
  <1>4. CASE processes' = [processes EXCEPT ![i].state = "BLOCKED"]
    <2>1. /\ processes' \in [Slots -> Process] /\ \A j \in Slots : j # i => processes'[j] = processes[j]
          /\ processes'[i].pid = processes[i].pid /\ processes'[i].stack_base = processes[i].stack_base
          /\ processes'[i].stack_ptr = processes[i].stack_ptr /\ processes'[i].state = "BLOCKED"
      BY <1>2, <1>3, <1>4, SetState
    <2> QED
      BY <1>2, <2>1 DEF SameProcesses, block_process, unblock_process, cmd_nice
  <1>5. CASE processes' = [processes EXCEPT ![i].state = "READY"]
    <2>1. /\ processes' \in [Slots -> Process] /\ \A j \in Slots : j # i => processes'[j] = processes[j]
          /\ processes'[i].pid = processes[i].pid /\ processes'[i].stack_base = processes[i].stack_base
          /\ processes'[i].stack_ptr = processes[i].stack_ptr /\ processes'[i].state = "READY"
      BY <1>2, <1>3, <1>5, SetState
    <2> QED
      BY <1>2, <2>1 DEF SameProcesses, block_process, unblock_process, cmd_nice
  <1>6. ASSUME NEW q \in Priorities, processes' = [processes EXCEPT ![i].priority = q]
        PROVE  /\ processes' \in [Slots -> Process] /\ SameProcesses(processes', processes)
               /\ \A j \in Slots : /\ processes'[j].stack_ptr = processes[j].stack_ptr
                                   /\ processes'[j].state = processes[j].state
    <2>1. /\ processes' \in [Slots -> Process] /\ \A j \in Slots : j # i => processes'[j] = processes[j]
          /\ processes'[i].pid = processes[i].pid /\ processes'[i].stack_base = processes[i].stack_base
          /\ processes'[i].stack_ptr = processes[i].stack_ptr /\ processes'[i].state = processes[i].state
      BY <1>2, <1>3, <1>6, SetPriority
    <2> QED
      BY <2>1 DEF SameProcesses
  <1>7. UNCHANGED <<initialized, process_count, current_process, next_pid, allocated, cpuVars>> /\ served' = {}
    BY DEF block_process, unblock_process, cmd_nice
  <1> QED
    BY <1>1, <1>2, <1>4, <1>5, <1>6, <1>7

\* The states after a hand-over from the current slot to slot n.
HandedOver(n) ==
  \A j \in Slots : processes'[j].state =
    IF j = n THEN "RUNNING"
    ELSE IF j = current_process /\ processes[j].state = "RUNNING" THEN "READY"
    ELSE processes[j].state

\* What the timer interrupt saves.
Interrupted == Context(cpu, IF yielding THEN "marked" ELSE "tick", window)

\* A switch to a used slot counts as its turn.
LEMMA TurnProps ==
  ASSUME TableInv, NEW n \in Used
  PROVE  turn(n) \subseteq Slots
  BY UsedProps DEF turn, TableInv, TableSound, TypeOK

\* The timer interrupt either leaves the process running or switches, all at once.
LEMMA TimerProps ==
  ASSUME TableInv, timer_irq
  PROVE  /\ initialized /\ UNCHANGED <<initialized, process_count, next_pid, allocated>>
         /\ processes' \in [Slots -> Process] /\ SameProcesses(processes', processes)
         /\ \/ /\ UNCHANGED <<current_process, cpuVars, served>>
               /\ \A j \in Slots : /\ processes'[j].stack_ptr = processes[j].stack_ptr
                                   /\ processes'[j].state = processes[j].state
            \/ \E n \in Used :
                 /\ n # current_process /\ current_process' = n
                 /\ HandedOver(n)
                 /\ \A j \in Slots : processes'[j].stack_ptr =
                      IF j = current_process THEN Interrupted ELSE processes[j].stack_ptr
                 /\ cpu' = processes'[n].stack_ptr.stack /\ window' = processes'[n].stack_ptr.window
                 /\ cpu' \in Stacks \cup {BootStack} /\ window' \in Windows
                 /\ yielding' \in BOOLEAN /\ in_service' \in BOOLEAN /\ served' \subseteq Slots
                 /\ disturbed' = (disturbed \/ window # NoWindow)
  <1>1. initialized /\ UNCHANGED <<initialized, process_count, next_pid, allocated>>
    BY DEF timer_irq
  <1>2. CASE (RunsOn(processes) \/ Stays(processes)) /\ UNCHANGED <<current_process, cpuVars, served>>
    BY <1>1, <1>2, UsedProps, StaysProps DEF SameProcesses
  <1>3. ASSUME NEW n \in Used,
               HandsOver(processes, n),
               context_switch(switched(processes, n), current_process, n, Interrupted),
               current_process' = n, served' = turn(n),
               in_service' = (processes[n].stack_ptr.resume \notin Ticks),
               disturbed' = (disturbed \/ window # NoWindow)
        PROVE  /\ processes' \in [Slots -> Process] /\ SameProcesses(processes', processes)
               /\ n # current_process /\ current_process' = n
               /\ HandedOver(n)
               /\ \A j \in Slots : processes'[j].stack_ptr =
                    IF j = current_process THEN Interrupted ELSE processes[j].stack_ptr
               /\ cpu' = processes'[n].stack_ptr.stack /\ window' = processes'[n].stack_ptr.window
               /\ cpu' \in Stacks \cup {BootStack} /\ window' \in Windows
               /\ yielding' \in BOOLEAN /\ in_service' \in BOOLEAN /\ served' \subseteq Slots
    <2> DEFINE t == switched(processes, n)
               from == Interrupted
    <2>1. n # current_process /\ n \in Slots /\ current_process \in Slots
      BY <1>3, UsedProps DEF HandsOver
    <2>2. /\ t \in [Slots -> Process]
          /\ \A j \in Slots :
               /\ t[j].pid = processes[j].pid /\ t[j].stack_base = processes[j].stack_base
               /\ t[j].stack_ptr = processes[j].stack_ptr
               /\ t[j].state = IF j = n THEN "RUNNING"
                               ELSE IF j = current_process /\ processes[j].state = "RUNNING" THEN "READY"
                               ELSE processes[j].state
      BY <2>1, UsedProps, SwitchedProps
    <2>3. from \in Contexts
      BY DEF TableInv, TableSound, TypeOK, Contexts, Context, Interrupted, Ticks
    <2>4. context_switch(t, current_process, n, from)
      BY <1>3
    <2> HIDE DEF t, from
    <2>5. /\ processes' \in [Slots -> Process]
          /\ \A j \in Slots : /\ processes'[j].pid = t[j].pid
                              /\ processes'[j].stack_base = t[j].stack_base
                              /\ processes'[j].state = t[j].state
                              /\ processes'[j].stack_ptr = IF j = current_process THEN from ELSE t[j].stack_ptr
          /\ cpu' = processes'[n].stack_ptr.stack /\ window' = processes'[n].stack_ptr.window
          /\ cpu' \in Stacks \cup {BootStack} /\ window' \in Windows /\ yielding' \in BOOLEAN
      BY <2>1, <2>2, <2>3, <2>4, ContextSwitchProps
    <2>6. in_service' \in BOOLEAN /\ served' \subseteq Slots
      BY <1>3, TurnProps
    <2> QED
      BY <1>3, <2>1, <2>2, <2>5, <2>6 DEF SameProcesses, HandedOver, from
  <1> QED
    BY <1>1, <1>2, <1>3 DEF timer_irq, Interrupted

\* yield marks its caller.
LEMMA YieldProps ==
  ASSUME TableInv, yield
  PROVE  /\ initialized
         /\ UNCHANGED <<initialized, process_count, current_process, next_pid, allocated,
                        cpu, window, in_service, disturbed, served>>
         /\ yielding' \in BOOLEAN
         /\ processes' \in [Slots -> Process] /\ SameProcesses(processes', processes)
         /\ \A j \in Slots : /\ processes'[j].stack_ptr = processes[j].stack_ptr
                             /\ processes'[j].state = "RUNNING" => processes[j].state = "RUNNING"
  <1>1. /\ Yielded \in [Slots -> Process] /\ current_process \in Slots
        /\ \A j \in Slots :
             /\ Yielded[j].pid = processes[j].pid /\ Yielded[j].stack_base = processes[j].stack_base
             /\ Yielded[j].stack_ptr = processes[j].stack_ptr
             /\ Yielded[j].state = IF j = current_process /\ processes[j].state = "RUNNING" THEN "READY"
                                   ELSE processes[j].state
    BY YieldedProps, UsedProps DEF TableInv, TableSound
  <1>2. processes' = Yielded
    BY DEF yield
  <1>3. /\ initialized /\ yielding' \in BOOLEAN
        /\ UNCHANGED <<initialized, process_count, current_process, next_pid, allocated,
                       cpu, window, in_service, disturbed, served>>
    BY DEF yield
  <1> QED
    BY <1>1, <1>2, <1>3 DEF SameProcesses

\* yield's change_process: the table is handed over, the CPU not yet.
LEMMA YieldChangesProps ==
  ASSUME TableInv, yield_changes
  PROVE  /\ initialized /\ UNCHANGED <<initialized, process_count, next_pid, allocated, cpu, in_service, disturbed>>
         /\ yielding' \in BOOLEAN /\ served' \subseteq Slots
         /\ processes' \in [Slots -> Process] /\ SameProcesses(processes', processes)
         /\ \A j \in Slots : processes'[j].stack_ptr = processes[j].stack_ptr
         /\ \/ /\ UNCHANGED <<current_process, window>>
               /\ \A j \in Slots : processes'[j].state = processes[j].state
            \/ \E n \in Used :
                 /\ n # current_process /\ current_process' = n
                 /\ HandedOver(n)
                 /\ window' = [save |-> current_process, load |-> n]
  <1>1. /\ initialized /\ UNCHANGED <<initialized, process_count, next_pid, allocated, cpu, in_service, disturbed>>
        /\ yielding' \in BOOLEAN
    BY DEF yield_changes, TableInv, BeforeInit
  <1>2. processes \in [Slots -> Process] /\ current_process \in Slots /\ served \subseteq Slots
    BY DEF TableInv, TableSound, TypeOK
  <1>3. CASE (RunsOn(processes) \/ Stays(processes)) /\ UNCHANGED <<current_process, window, served>>
    BY <1>1, <1>2, <1>3, StaysProps DEF SameProcesses
  <1>4. ASSUME NEW n \in Used, HandsOver(processes, n), processes' = switched(processes, n),
               current_process' = n, served' = turn(n), window' = [save |-> current_process, load |-> n]
        PROVE  /\ processes' \in [Slots -> Process] /\ SameProcesses(processes', processes)
               /\ \A j \in Slots : processes'[j].stack_ptr = processes[j].stack_ptr
               /\ n # current_process /\ HandedOver(n) /\ served' \subseteq Slots
    <2>1. n # current_process /\ n \in Slots
      BY <1>4, UsedProps DEF HandsOver
    <2>2. /\ processes' \in [Slots -> Process]
          /\ \A j \in Slots :
               /\ processes'[j].pid = processes[j].pid /\ processes'[j].stack_base = processes[j].stack_base
               /\ processes'[j].stack_ptr = processes[j].stack_ptr
               /\ processes'[j].state = IF j = n THEN "RUNNING"
                                        ELSE IF j = current_process /\ processes[j].state = "RUNNING" THEN "READY"
                                        ELSE processes[j].state
      BY <1>2, <1>4, <2>1, SwitchedProps
    <2>3. served' \subseteq Slots
      BY <1>4, TurnProps
    <2> QED
      BY <2>1, <2>2, <2>3 DEF SameProcesses, HandedOver
  <1> QED
    BY <1>1, <1>2, <1>3, <1>4 DEF yield_changes

\* The end of a yield's window: the CPU changes over.
LEMMA YieldSwitchProps ==
  ASSUME TableInv, yield_switch
  PROVE  /\ initialized
         /\ UNCHANGED <<initialized, process_count, current_process, next_pid, allocated, disturbed, served>>
         /\ yielding' \in BOOLEAN
         /\ window # NoWindow /\ window.save \in Slots /\ window.load \in Slots
         /\ processes' \in [Slots -> Process] /\ SameProcesses(processes', processes)
         /\ \A j \in Slots : /\ processes'[j].state = processes[j].state
                             /\ processes'[j].stack_ptr = IF j = window.save THEN Context(cpu, "yield", NoWindow)
                                                          ELSE processes[j].stack_ptr
         /\ cpu' = processes'[window.load].stack_ptr.stack
         /\ window' = processes'[window.load].stack_ptr.window
         /\ cpu' \in Stacks \cup {BootStack} /\ window' \in Windows /\ in_service' \in BOOLEAN
  <1>1. /\ initialized /\ window # NoWindow
        /\ UNCHANGED <<initialized, process_count, current_process, next_pid, allocated, disturbed, served>>
    BY DEF yield_switch, TableInv, BeforeInit
  <1>2. window.save \in Slots /\ window.load \in Slots /\ processes \in [Slots -> Process]
    BY DEF TableInv, TableSound, TypeOK, Windows
  <1>3. Context(cpu, "yield", NoWindow) \in Contexts
    BY Bounds DEF TableInv, TableSound, TypeOK, Contexts, Context
  <1>4. /\ processes' \in [Slots -> Process]
        /\ \A j \in Slots : /\ processes'[j].pid = processes[j].pid
                            /\ processes'[j].stack_base = processes[j].stack_base
                            /\ processes'[j].state = processes[j].state
                            /\ processes'[j].stack_ptr = IF j = window.save THEN Context(cpu, "yield", NoWindow)
                                                         ELSE processes[j].stack_ptr
        /\ cpu' = processes'[window.load].stack_ptr.stack
        /\ window' = processes'[window.load].stack_ptr.window
        /\ cpu' \in Stacks \cup {BootStack} /\ window' \in Windows /\ yielding' \in BOOLEAN
    BY <1>2, <1>3, ContextSwitchProps DEF yield_switch
  <1>5. in_service' \in BOOLEAN
    BY DEF yield_switch
  <1> QED
    BY <1>1, <1>2, <1>4, <1>5 DEF SameProcesses

\* Every step keeps the table sound.
LEMMA StepKeepsTable ==
  ASSUME TableInv, [Next]_vars
  PROVE  TableInv'
  <1>1. CASE \E pid \in Pids : \/ block_process(pid) \/ unblock_process(pid)
                               \/ \E q \in Priorities : cmd_nice(pid, q)
    <2>1. PICK pid \in Pids : \/ block_process(pid) \/ unblock_process(pid)
                              \/ \E q \in Priorities : cmd_nice(pid, q)
      BY <1>1
    <2>2. /\ initialized /\ UNCHANGED <<initialized, process_count, current_process, next_pid, allocated, cpuVars>>
          /\ processes' \in [Slots -> Process] /\ SameProcesses(processes', processes)
          /\ served' \subseteq Slots
      BY <2>1, OneSlotProps
    <2> QED
      BY <2>2, SwitchKeepsTable, UsedProps DEF cpuVars, TableInv, TableSound, TypeOK
  <1>2. CASE timer_irq
    BY <1>2, TimerProps, SwitchKeepsTable, UsedProps DEF cpuVars, TableInv, TableSound, TypeOK
  <1>3. CASE yield_changes
    <2>1. /\ initialized /\ UNCHANGED <<initialized, process_count, next_pid, allocated, cpu, in_service, disturbed>>
          /\ yielding' \in BOOLEAN /\ served' \subseteq Slots
          /\ processes' \in [Slots -> Process] /\ SameProcesses(processes', processes)
          /\ \/ UNCHANGED <<current_process, window>>
             \/ \E n \in Used : current_process' = n /\ window' = [save |-> current_process, load |-> n]
      BY <1>3, YieldChangesProps
    <2>2. current_process' \in Used /\ window' \in Windows
      BY <2>1, UsedProps DEF TableInv, TableSound, TypeOK, Windows
    <2> QED
      BY <2>1, <2>2, SwitchKeepsTable DEF TableInv, TableSound, TypeOK
  <1>4. CASE yield_switch
    BY <1>4, YieldSwitchProps, SwitchKeepsTable, UsedProps DEF TableInv, TableSound, TypeOK
  <1>5. CASE UNCHANGED vars
    BY <1>5 DEF vars, tableVars, cpuVars, TableInv, TableSound, TypeOK, StacksAccounted, BeforeInit, Used
  <1>6. CASE yield
    BY <1>6, YieldProps, SwitchKeepsTable, UsedProps DEF TableInv, TableSound, TypeOK
  <1> QED
    BY <1>1, <1>2, <1>3, <1>4, <1>5, <1>6, InitProcessKeepsTable, CreateKeepsTable, TerminateKeepsTable DEF Next

\* The table's invariant holds.
LEMMA TableInvHolds == Spec => []TableInv
  <1>1. TableInv /\ [Next]_vars => TableInv'
    BY StepKeepsTable
  <1> QED
    BY <1>1, InitTable, PTL DEF Spec

\* Whatever is created, killed, blocked, reprioritised and switched, in whatever order, and
\* however often pids wrap: slot 0 is the kernel's, no pid is used twice, and
\* current_process names a used slot.
THEOREM TableSoundHolds == Spec => []TableSound
  <1>1. TableInv => TableSound
    BY DEF TableInv
  <1> QED
    BY <1>1, TableInvHolds, PTL

\* Each process has a stack of its own, and no stack is leaked or freed twice.
THEOREM StacksAccountedHolds == Spec => []StacksAccounted
  <1>1. TableInv => StacksAccounted
    BY DEF TableInv
  <1> QED
    BY <1>1, TableInvHolds, PTL

------------------------------------------------------------------------------
(* Contexts.                                                               *)

\* The slot whose process the CPU executes.
OnSlot == IF window = NoWindow THEN current_process ELSE window.save

\* SavedContexts, with what makes it inductive: while nothing has been misplaced, no saved
\* context holds a window, and a yield that has still to call change_process has none.
ContextInv ==
  initialized /\ ~disturbed =>
    /\ window # NoWindow => window.load = current_process /\ window.save \in Used
    /\ cpu = OwnStack(OnSlot)
    /\ \A i \in Used \ {OnSlot} : processes[i].stack_ptr.stack = OwnStack(i)
    /\ RunningIsCurrent
    /\ \A i \in Used : processes[i].stack_ptr.window = NoWindow
    /\ yielding => window = NoWindow

\* A context resumes what it was made of.
LEMMA ContextProps ==
  ASSUME NEW s, NEW r, NEW w
  PROVE  Context(s, r, w).stack = s /\ Context(s, r, w).resume = r /\ Context(s, r, w).window = w
  BY DEF Context

\* A step that leaves contexts, CPU and current process alone and makes nobody RUNNING.
LEMMA QuietKeepsContexts ==
  ASSUME TableInv, ContextInv,
         UNCHANGED <<initialized, process_count, current_process, cpu, window, disturbed>>,
         yielding' => yielding \/ window = NoWindow,
         SameProcesses(processes', processes),
         \A j \in Slots : /\ processes'[j].stack_ptr = processes[j].stack_ptr
                          /\ processes'[j].state = "RUNNING" => processes[j].state = "RUNNING"
  PROVE  ContextInv'
  <1>1. Used' = Used /\ OnSlot' = OnSlot /\ Used \subseteq Slots
    BY UsedProps DEF Used, OnSlot
  <1>2. ASSUME initialized, ~disturbed PROVE OnSlot \in Slots
    BY <1>1, <1>2, UsedProps DEF ContextInv, OnSlot
  <1>3. ASSUME initialized, ~disturbed PROVE cpu' = OwnStack(OnSlot)'
    BY <1>1, <1>2, <1>3 DEF ContextInv, OwnStack, SameProcesses
  <1>4. ASSUME initialized, ~disturbed
        PROVE  \A i \in Used' \ {OnSlot'} : processes'[i].stack_ptr.stack = OwnStack(i)'
    BY <1>1, <1>4 DEF ContextInv, OwnStack, SameProcesses
  <1>5. ASSUME initialized, ~disturbed
        PROVE  RunningIsCurrent' /\ \A i \in Used' : processes'[i].stack_ptr.window = NoWindow
    BY <1>1, <1>5 DEF ContextInv, RunningIsCurrent
  <1> QED
    BY <1>1, <1>3, <1>4, <1>5 DEF ContextInv

\* When the CPU changes over to the current process, and the one it leaves is saved in its
\* own slot, the contexts are in order again.
LEMMA SwitchKeepsContexts ==
  ASSUME TableInv, ContextInv, initialized, ~disturbed,
         UNCHANGED <<initialized, process_count>>, SameProcesses(processes', processes),
         current_process' \in Used, NEW from, from.stack = cpu, from.window = NoWindow,
         \A j \in Slots : processes'[j].stack_ptr = IF j = OnSlot THEN from ELSE processes[j].stack_ptr,
         cpu' = processes'[current_process'].stack_ptr.stack,
         window' = processes'[current_process'].stack_ptr.window,
         RunningIsCurrent'
  PROVE  ContextInv'
  <1>1. Used' = Used /\ Used \subseteq Slots
    BY UsedProps DEF Used
  <1>2. \A j \in Used : processes'[j].stack_ptr.stack = OwnStack(j) /\ processes'[j].stack_ptr.window = NoWindow
    BY <1>1 DEF ContextInv
  <1>3. \A j \in Used' : processes'[j].stack_ptr.stack = OwnStack(j)'
    BY <1>1, <1>2 DEF OwnStack, SameProcesses
  <1>4. window' = NoWindow /\ OnSlot' = current_process'
    BY <1>2 DEF OnSlot
  <1>5. cpu' = OwnStack(OnSlot)'
    BY <1>1, <1>3, <1>4 DEF OwnStack
  <1> QED
    BY <1>1, <1>2, <1>3, <1>4, <1>5 DEF ContextInv

\* Nobody but slot n is RUNNING after a hand-over to n.
LEMMA HandedOverRuns ==
  ASSUME TableInv, RunningIsCurrent, process_count' = process_count, NEW n \in Used, HandedOver(n),
         current_process' = n
  PROVE  RunningIsCurrent'
  BY UsedProps DEF RunningIsCurrent, HandedOver, Used

\* Every step keeps the contexts in order, or is one of those that disturb them.
LEMMA StepKeepsContexts ==
  ASSUME TableInv, ContextInv, [Next]_vars
  PROVE  ContextInv'
  <1>1. CASE scheduler_init
    <2>1. cpu = BootStack /\ window = NoWindow /\ UNCHANGED cpuVars /\ ~initialized /\ TypeOK /\ 0 \in Slots
      BY <1>1, Bounds DEF scheduler_init, TableInv, TableSound, BeforeInit
    <2>2. CASE initialized'
      <3>1. PICK s \in Stacks \ allocated :
              processes' = [processes EXCEPT ![0] =
                 [pid |-> 0, state |-> "RUNNING", priority |-> 0,
                  time_slice |-> DEFAULT_TIME_SLICE, stack_base |-> s,
                  stack_ptr |-> Context(s, "entry", NoWindow)]]
        BY <1>1, <2>1, <2>2 DEF scheduler_init
      <3>2. processes'[0].pid = 0 /\ processes'[0].stack_ptr = Context(s, "entry", NoWindow)
        BY <2>1, <3>1 DEF TypeOK
      <3>3. process_count' = 1 /\ current_process' = 0
        BY <1>1, <2>1, <2>2 DEF scheduler_init
      <3>4. Used' = {0}
        BY <3>3 DEF Used
      <3>5. OnSlot' = 0 /\ cpu' = BootStack /\ window' = NoWindow
        BY <2>1, <3>3 DEF OnSlot, cpuVars
      <3> QED
        BY <3>2, <3>3, <3>4, <3>5, ContextProps DEF ContextInv, OwnStack, RunningIsCurrent
    <2> QED
      BY <2>2 DEF ContextInv
  <1>2. ASSUME NEW q \in Priorities, create_process(q)
        PROVE  ContextInv'
    <2>1. PICK n \in Slots \ Used :
          /\ Used' = Used \cup {n}
          /\ \A j \in Used : processes'[j] = processes[j]
          /\ processes'[n].state = "READY" /\ processes'[n].pid # 0
          /\ processes'[n].stack_ptr = Context(processes'[n].stack_base, "entry", NoWindow)
      BY <1>2, CreateKeepsTable
    <2>2. /\ UNCHANGED <<initialized, current_process, cpuVars>> /\ initialized
          /\ window = NoWindow /\ current_process \in Used
      BY <1>2, UsedProps DEF create_process, InProcess
    <2>3. OnSlot = current_process /\ OnSlot' = current_process /\ cpu' = cpu /\ disturbed' = disturbed
          /\ window' = NoWindow
      BY <2>2 DEF OnSlot, cpuVars
    <2> SUFFICES ASSUME ~disturbed PROVE ContextInv'
      BY <2>3 DEF ContextInv
    <2>4. \A i \in Used : OwnStack(i)' = OwnStack(i)
      BY <2>1 DEF OwnStack
    <2>5. cpu' = OwnStack(OnSlot)'
      BY <2>1, <2>2, <2>3 DEF ContextInv, OwnStack
    <2>6. \A i \in Used' \ {OnSlot'} : processes'[i].stack_ptr.stack = OwnStack(i)'
      <3>1. processes'[n].stack_ptr.stack = OwnStack(n)'
        BY <2>1, ContextProps DEF OwnStack
      <3> QED
        BY <2>1, <2>2, <2>3, <2>4, <3>1 DEF ContextInv
    <2>7. RunningIsCurrent'
      BY <2>1, <2>2 DEF ContextInv, RunningIsCurrent
    <2>8. \A i \in Used' : processes'[i].stack_ptr.window = NoWindow
      BY <2>1, <2>2, ContextProps DEF ContextInv
    <2> QED
      BY <2>3, <2>5, <2>6, <2>7, <2>8 DEF ContextInv
  <1>3. ASSUME NEW pid \in Pids, terminate_process(pid)
        PROVE  ContextInv'
    <2>1. PICK i \in Used :
            /\ Finds(i, pid)
            /\ processes' = [j \in Slots |->
                 IF i <= j /\ j < process_count - 1 THEN processes[j + 1]
                 ELSE IF i = j THEN [processes[j] EXCEPT !.state = "TERMINATED"]
                 ELSE processes[j]]
            /\ process_count' = process_count - 1
            /\ current_process' = adjust_current(i, process_count - 1)
            /\ disturbed' = (disturbed \/ window # NoWindow \/ i = current_process
                             \/ (i < current_process /\ current_process = process_count - 1))
      BY <1>3, Zenon DEF terminate_process
    <2>2. /\ initialized /\ i > 0 /\ process_count >= 2
          /\ \A j \in Used' : above(i, j) \in Used \ {i} /\ processes'[j] = processes[above(i, j)]
          /\ Used' = 0..(process_count - 2)
      BY <1>3, <2>1, TerminateProps DEF terminate_process
    <2> SUFFICES ASSUME ~disturbed' PROVE ContextInv'
      BY DEF ContextInv
    <2>3. /\ ~disturbed /\ window = NoWindow /\ i # current_process
          /\ ~(i < current_process /\ current_process = process_count - 1)
      BY <2>1
    <2>4. /\ cpu' = cpu /\ window' = NoWindow /\ OnSlot = current_process /\ OnSlot' = current_process'
      BY <1>3, <2>3 DEF terminate_process, OnSlot
    <2>5. current_process' \in Used' /\ above(i, current_process') = current_process
      <3>1. /\ i \in Nat /\ current_process \in Nat /\ process_count \in Nat
            /\ i < process_count /\ current_process < process_count
        BY <2>2, UsedProps
      <3> QED
        BY <2>1, <2>2, <2>3, <3>1 DEF adjust_current, above
    <2>6. \A j \in Used' : (OwnStack(j))' = OwnStack(above(i, j))
      BY <2>2 DEF OwnStack
    <2>7. cpu' = OwnStack(OnSlot)'
      BY <2>2, <2>3, <2>4, <2>5 DEF ContextInv, OwnStack
    <2>8. \A j \in Used' : j # current_process' => above(i, j) # current_process
      BY <2>2, <2>5, UsedProps DEF above
    <2>9. \A j \in Used' \ {OnSlot'} : processes'[j].stack_ptr.stack = OwnStack(j)'
      BY <2>2, <2>3, <2>4, <2>6, <2>8 DEF ContextInv
    <2>10. RunningIsCurrent'
      BY <2>2, <2>3, <2>8 DEF ContextInv, RunningIsCurrent
    <2>11. \A j \in Used' : processes'[j].stack_ptr.window = NoWindow
      BY <2>2, <2>3 DEF ContextInv
    <2> QED
      BY <2>4, <2>7, <2>9, <2>10, <2>11 DEF ContextInv
  <1>4. CASE \E pid \in Pids : \/ block_process(pid) \/ unblock_process(pid)
                               \/ \E q \in Priorities : cmd_nice(pid, q)
    BY <1>4, OneSlotProps, QuietKeepsContexts DEF cpuVars
  <1>5. CASE timer_irq
    <2>1. CASE /\ UNCHANGED <<current_process, cpuVars>>
               /\ \A j \in Slots : /\ processes'[j].stack_ptr = processes[j].stack_ptr
                                   /\ processes'[j].state = processes[j].state
      BY <1>5, <2>1, TimerProps, QuietKeepsContexts DEF cpuVars
    <2>2. ASSUME NEW n \in Used,
                 n # current_process, current_process' = n, HandedOver(n),
                 \A j \in Slots : processes'[j].stack_ptr =
                    IF j = current_process THEN Interrupted ELSE processes[j].stack_ptr,
                 cpu' = processes'[n].stack_ptr.stack, window' = processes'[n].stack_ptr.window,
                 disturbed' = (disturbed \/ window # NoWindow)
          PROVE  ContextInv'
      <3> SUFFICES ASSUME ~disturbed' PROVE ContextInv'
        BY DEF ContextInv
      <3>1. ~disturbed /\ window = NoWindow /\ OnSlot = current_process
        BY <2>2 DEF OnSlot
      <3>2. initialized /\ UNCHANGED <<initialized, process_count>> /\ SameProcesses(processes', processes)
        BY <1>5, TimerProps
      <3>3. RunningIsCurrent'
        BY <2>2, <3>1, <3>2, HandedOverRuns DEF ContextInv
      <3> DEFINE from == Interrupted
      <3>4. from.stack = cpu /\ from.window = NoWindow
        BY <3>1 DEF Interrupted, Context
      <3>5. \A j \in Slots : processes'[j].stack_ptr = IF j = OnSlot THEN from ELSE processes[j].stack_ptr
        BY <2>2, <3>1
      <3> HIDE DEF from
      <3> QED
        BY <2>2, <3>1, <3>2, <3>3, <3>4, <3>5, SwitchKeepsContexts
    <2> QED
      BY <1>5, <2>1, <2>2, TimerProps
  <1>6. CASE yield_changes
    <2>1. /\ initialized /\ UNCHANGED <<initialized, process_count, cpu, in_service, disturbed>>
          /\ SameProcesses(processes', processes)
          /\ \A j \in Slots : processes'[j].stack_ptr = processes[j].stack_ptr
      BY <1>6, YieldChangesProps
    <2>2. CASE /\ UNCHANGED <<current_process, window>>
               /\ \A j \in Slots : processes'[j].state = processes[j].state
      BY <1>6, <2>1, <2>2, QuietKeepsContexts DEF yield_changes
    <2>3. ASSUME NEW n \in Used, n # current_process, current_process' = n, HandedOver(n),
                 window' = [save |-> current_process, load |-> n]
          PROVE  ContextInv'
      <3> SUFFICES ASSUME ~disturbed PROVE ContextInv'
        BY <2>1 DEF ContextInv
      <3>0. window = NoWindow
        BY <1>6, <2>1 DEF ContextInv, yield_changes
      <3>1. Used' = Used /\ Used \subseteq Slots /\ current_process \in Used
        BY <2>1, UsedProps DEF Used
      <3>2. /\ window' # NoWindow /\ window'.load = current_process' /\ window'.save = current_process
            /\ OnSlot' = current_process /\ OnSlot = current_process
        BY <2>1, <2>3, <3>0 DEF OnSlot, NoWindow
      <3>3. RunningIsCurrent'
        BY <2>1, <2>3, HandedOverRuns DEF ContextInv
      <3>4. cpu' = OwnStack(OnSlot)'
        BY <2>1, <3>1, <3>2 DEF ContextInv, OwnStack, SameProcesses
      <3>5. \A i \in Used' \ {OnSlot'} : processes'[i].stack_ptr.stack = OwnStack(i)'
        BY <2>1, <3>1, <3>2 DEF ContextInv, OwnStack, SameProcesses
      <3>6. \A i \in Used' : processes'[i].stack_ptr.window = NoWindow
        BY <2>1, <3>1 DEF ContextInv
      <3> QED
        BY <1>6, <3>1, <3>2, <3>3, <3>4, <3>5, <3>6 DEF ContextInv, yield_changes
    <2> QED
      BY <1>6, <2>2, <2>3, YieldChangesProps
  <1>7. CASE yield_switch
    <2>1. /\ initialized /\ window # NoWindow
          /\ UNCHANGED <<initialized, process_count, current_process, disturbed>>
          /\ SameProcesses(processes', processes)
          /\ \A j \in Slots : /\ processes'[j].state = processes[j].state
                              /\ processes'[j].stack_ptr = IF j = window.save THEN Context(cpu, "yield", NoWindow)
                                                           ELSE processes[j].stack_ptr
          /\ cpu' = processes'[window.load].stack_ptr.stack
          /\ window' = processes'[window.load].stack_ptr.window
      BY <1>7, YieldSwitchProps
    <2> SUFFICES ASSUME ~disturbed PROVE ContextInv'
      BY <2>1 DEF ContextInv
    <2>2. window.load = current_process' /\ OnSlot = window.save /\ current_process' \in Used
      BY <2>1, UsedProps DEF ContextInv, OnSlot
    <2>3. RunningIsCurrent'
      BY <2>1, UsedProps DEF ContextInv, RunningIsCurrent, Used
    <2> DEFINE from == Context(cpu, "yield", NoWindow)
    <2>4. from.stack = cpu /\ from.window = NoWindow
      BY ContextProps
    <2>5. \A j \in Slots : processes'[j].stack_ptr = IF j = OnSlot THEN from ELSE processes[j].stack_ptr
      BY <2>1, <2>2
    <2> HIDE DEF from
    <2> QED
      BY <2>1, <2>2, <2>3, <2>4, <2>5, SwitchKeepsContexts
  <1>8. CASE UNCHANGED vars
    BY <1>8 DEF vars, tableVars, cpuVars, ContextInv, RunningIsCurrent, OwnStack, OnSlot, Used
  <1>9. CASE yield
    BY <1>9, YieldProps, QuietKeepsContexts DEF yield, InProcess
  <1> QED
    BY <1>1, <1>2, <1>3, <1>4, <1>5, <1>6, <1>7, <1>8, <1>9 DEF Next

\* Whatever interrupts, yields, kills and switches interleave, every process resumes on its
\* own stack and the CPU is on the stack of the process it executes, until one of the steps
\* that SavedContexts names.
THEOREM SavedContextsHolds == Spec => []SavedContexts
  <1>1. Init => ContextInv
    BY DEF Init, ContextInv
  <1>2. TableInv /\ ContextInv /\ [Next]_vars => ContextInv'
    BY StepKeepsContexts
  <1>3. ContextInv => SavedContexts
    BY DEF ContextInv, SavedContexts, OnSlot
  <1> QED
    BY <1>1, <1>2, <1>3, TableInvHolds, PTL DEF Spec
==============================================================================
