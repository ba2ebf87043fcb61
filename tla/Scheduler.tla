------------------------------- MODULE Scheduler -------------------------------
(***************************************************************************)
(* The round-robin scheduler, proc/scheduler.c, with the threads whose     *)
(* interleaving makes it interesting:                                      *)
(*                                                                         *)
(*  - the boot thread (sys_entry), which creates processes with interrupts *)
(*    enabled and so can be interrupted between any two of its stores;     *)
(*  - the timer interrupt, which calls scheduler_context_switch;           *)
(*  - the processes, which run and may call exit.                          *)
(*                                                                         *)
(* An interrupt handler runs with interrupts disabled and is one action.   *)
(* A CPU state (int_frame_t) is abstracted to the thread it belongs to and *)
(* how far that thread has got.  sys_entry creates one process; the model  *)
(* lets it create as many as the table has room for.                       *)
(***************************************************************************)
EXTENDS Integers, FiniteSets

CONSTANTS
    MAX_PROCESSES,   \* size of the process table
    Procs,           \* bound: how many processes are ever created
    MaxAt,           \* bound: how far a thread can get
    NULL,            \* the null process pointer
    Boot             \* the boot thread

ASSUME TableAssumption == MAX_PROCESSES \in Nat \ {0} /\ Procs \in Nat /\ MaxAt \in Nat
ASSUME NullAssumption == NULL \notin Nat /\ Boot \notin Nat

Pid == 0 .. (Procs - 1)
Index == 0 .. (MAX_PROCESSES - 1)
Frame == [of : Pid \cup {Boot}, at : 0 .. MaxAt]

VARIABLES
    \* scheduler_t; a process is named by its pid
    processes, process_count, current_index,
    pid_counter,
    state, ctx,      \* process_t.state and process_t.ctx, by pid
    cpu,             \* the CPU state of whatever is running
    cr3,             \* the process whose page map is loaded, or Boot for the kernel's
    mode,            \* "run", "idle" (scheduler_idle) or "panic"
    furthest,        \* how far each process has ever got
    boot,            \* where the boot thread is in scheduler_create_elf_process
    todo,            \* of the two stores that publish a process, those not done yet
    index            \* the table index that the publication uses

table == <<processes, process_count, current_index>>
creation == <<pid_counter, boot, todo, index>>
vars == <<table, creation, state, ctx, cpu, cr3, mode, furthest>>

\* static storage, then scheduler_init
Init ==
    /\ processes = [k \in Index |-> NULL]
    /\ process_count = 0 /\ current_index = 0
    /\ pid_counter = 0
    /\ state = [p \in Pid |-> "none"]
    /\ ctx = [p \in Pid |-> [of |-> p, at |-> 0]]
    /\ cpu = [of |-> Boot, at |-> 0]
    /\ cr3 = Boot
    /\ mode = "run"
    /\ furthest = [p \in Pid |-> 0]
    /\ boot = "call" /\ todo = {} /\ index = 0

Running(t) == mode = "run" /\ cpu.of = t

--------------------------------------------------------------------------------
(* scheduler_create_elf_process and scheduler_create_process *)

\* Mutant: the test for a full table is off by one.
CreateCheckLate ==
    /\ Running(Boot) /\ boot = "call" /\ process_count <= MAX_PROCESSES
    /\ boot' = "load"
    /\ UNCHANGED <<table, pid_counter, todo, index, state, ctx, cpu, cr3, mode, furthest>>

CreateCheck ==
    /\ Running(Boot) /\ boot = "call" /\ process_count < MAX_PROCESSES
    /\ boot' = "load"
    /\ UNCHANGED <<table, pid_counter, todo, index, state, ctx, cpu, cr3, mode, furthest>>

CreateRefused ==
    /\ Running(Boot) /\ boot = "call" /\ process_count >= MAX_PROCESSES
    /\ UNCHANGED vars

\* open, hvfs_permission_check or elf_load fails
LoadFails ==
    /\ Running(Boot) /\ boot = "load"
    /\ boot' = "call"
    /\ UNCHANGED <<table, pid_counter, todo, index, state, ctx, cpu, cr3, mode, furthest>>

process_create ==
    /\ Running(Boot) /\ boot = "load" /\ pid_counter < Procs
    /\ state' = [state EXCEPT ![pid_counter] = "NEW"]
    /\ ctx' = [ctx EXCEPT ![pid_counter] = [of |-> pid_counter, at |-> 0]]
    /\ pid_counter' = pid_counter + 1
    /\ index' = process_count
    /\ boot' = "publish" /\ todo' = {"slot", "count"}
    /\ UNCHANGED <<table, cpu, cr3, mode, furthest>>

\* scheduler.processes[scheduler.process_count++] = proc.  The compiler may do the
\* two stores in either order, and does store the count first; an interrupt may
\* come between them.
StoreSlot ==
    /\ Running(Boot) /\ boot = "publish" /\ "slot" \in todo
    /\ processes' = [processes EXCEPT ![index] = pid_counter - 1]
    /\ todo' = todo \ {"slot"}
    /\ UNCHANGED <<process_count, current_index, pid_counter, boot, index, state, ctx, cpu,
                   cr3, mode, furthest>>

StoreCount ==
    /\ Running(Boot) /\ boot = "publish" /\ "count" \in todo
    /\ process_count' = index + 1
    /\ todo' = todo \ {"count"}
    /\ UNCHANGED <<processes, current_index, pid_counter, boot, index, state, ctx, cpu, cr3,
                   mode, furthest>>

\* close(init), return; sys_entry goes on
CreateReturns ==
    /\ Running(Boot) /\ boot = "publish" /\ todo = {}
    /\ boot' = "call"
    /\ UNCHANGED <<table, pid_counter, todo, index, state, ctx, cpu, cr3, mode, furthest>>

BootStep == \/ CreateCheck \/ CreateRefused \/ LoadFails \/ process_create
            \/ StoreSlot \/ StoreCount \/ CreateReturns

--------------------------------------------------------------------------------
(* timer_interrupt_handler: scheduler_context_switch, then end of interrupt *)

current == processes[current_index]

IsRunning(p) == p # NULL /\ state[p] = "RUNNING"

\* Mutant: the interrupted state is saved whatever the process's state is.
SavedAlways == IF current # NULL THEN [ctx EXCEPT ![current] = cpu] ELSE ctx

\* Mutant: the interrupted state is not saved.
SavedNever == ctx

\* The contexts after the interrupted state is saved.
Saved == IF IsRunning(current) THEN [ctx EXCEPT ![current] = cpu] ELSE ctx

\* Mutant: the last process of the table is left out of the rotation.
RotateShort == IF process_count = 1 THEN 0 ELSE (current_index + 1) % (process_count - 1)

Rotate == (current_index + 1) % process_count

scheduler_context_switch ==
    /\ ctx' = Saved
    /\ current_index' = Rotate
    /\ LET next == processes[Rotate] IN
       IF next # NULL
       THEN /\ state' = [state EXCEPT ![next] = "RUNNING"]
            /\ cpu' = ctx'[next]
            /\ cr3' = next
       ELSE UNCHANGED <<state, cpu, cr3>>

Tick ==
    /\ mode = "run"
    /\ IF process_count = 0 THEN UNCHANGED <<ctx, current_index, state, cpu, cr3>>
                            ELSE scheduler_context_switch
    /\ UNCHANGED <<processes, process_count, creation, mode, furthest>>

--------------------------------------------------------------------------------
(* scheduler_terminate_current_process, called for the exit system call by the  *)
(* thread that runs, whichever process the table says that is                   *)

\* Mutant: the shift misses the entry after the one that is removed.
CompactedLate ==
    [k \in Index |-> IF k > current_index /\ k < process_count - 1 THEN processes[k + 1]
                                                                   ELSE processes[k]]

\* Mutant: the entry is not removed.
CompactedNot == processes

Compacted ==
    [k \in Index |-> IF k >= current_index /\ k < process_count - 1 THEN processes[k + 1]
                                                                    ELSE processes[k]]

\* Mutant: current_index is left alone.
IndexKept == current_index

IndexAfterExit ==
    IF process_count = 1 THEN current_index ELSE current_index % (process_count - 1)

\* process_destroy also gives the pages of the process back to the PMM, which changes
\* nothing here: the exiting thread goes on running on them.
Terminate ==
    /\ state' = [state EXCEPT ![current] = "TERMINATED"]
    /\ processes' = Compacted
    /\ process_count' = process_count - 1
    /\ current_index' = IndexAfterExit
    /\ mode' = IF process_count = 1 THEN "idle" ELSE "run"
    /\ UNCHANGED <<creation, ctx, cpu, cr3, furthest>>

\* The handler dereferences the current process before anything else.
Exit ==
    /\ mode = "run" /\ cpu.of \in Pid
    /\ \/ current = NULL /\ mode' = "panic"
          /\ UNCHANGED <<table, creation, state, ctx, cpu, cr3, furthest>>
       \/ current # NULL /\ state[current] # "RUNNING" /\ UNCHANGED vars
       \/ IsRunning(current) /\ Terminate

--------------------------------------------------------------------------------
\* A process executes its own instructions.
Execute ==
    /\ mode = "run" /\ cpu.of \in Pid /\ cpu.at < MaxAt
    /\ cpu' = [cpu EXCEPT !.at = @ + 1]
    /\ furthest' = [furthest EXCEPT ![cpu.of] = IF cpu.at + 1 > @ THEN cpu.at + 1 ELSE @]
    /\ UNCHANGED <<table, creation, state, ctx, cr3, mode>>

Stopped == mode # "run" /\ UNCHANGED vars

Next == BootStep \/ Tick \/ Exit \/ Execute \/ Stopped

\* The timer keeps interrupting: every thread runs with interrupts enabled.
Spec == Init /\ [][Next]_vars /\ WF_vars(Tick)

--------------------------------------------------------------------------------
(* Properties *)

TypeOK ==
    /\ processes \in [Index -> Pid \cup {NULL}]
    /\ process_count \in 0 .. MAX_PROCESSES
    /\ current_index \in Index
    /\ pid_counter \in 0 .. Procs
    /\ state \in [Pid -> {"none", "NEW", "RUNNING", "TERMINATED"}]
    /\ ctx \in [Pid -> Frame]
    /\ cpu \in Frame
    /\ cr3 \in Pid \cup {Boot}
    /\ mode \in {"run", "idle", "panic"}
    /\ furthest \in [Pid -> 0 .. MaxAt]
    /\ boot \in {"call", "load", "publish"}
    /\ todo \subseteq {"slot", "count"}
    /\ index \in Index

Listed(p) == \E k \in Index : k < process_count /\ processes[k] = p
Published(p) == p < pid_counter /\ ~(p = pid_counter - 1 /\ todo # {})
Terminated == {p \in Pid : state[p] = "TERMINATED"}
Whole == \A k \in Index : k < process_count => processes[k] # NULL

\* Creation appends to the table with two stores while interrupts read it, and
\* exit closes the gap it leaves: no process is ever listed twice, no terminated
\* process is listed, and the index stays inside the table.
TableSound ==
    /\ \A k, l \in Index :
          k < l /\ l < process_count /\ processes[k] # NULL => processes[k] # processes[l]
    /\ \A p \in Terminated : ~Listed(p)
    /\ current_index < process_count \/ process_count = 0

\* A process whose publication is complete stays in the table until it
\* terminates: no exit of another process drops it.
NeverDropped == \A p \in Pid : Published(p) /\ p \notin Terminated => Listed(p)

\* Until some process exits, every context holds the state of its own process,
\* and the running thread runs in its own address space.
OwnContextUntilExit ==
    Terminated = {} => /\ \A p \in Pid : ctx[p].of = p
                       /\ cpu.of = cr3

\* Until some process exits, and if the table has no hole, every process is
\* resumed where it stopped: nothing it has done is undone or done twice.
ResumesWhereStopped ==
    Terminated = {} /\ Whole =>
        \A p \in Pid : furthest[p] = IF cpu.of = p THEN cpu.at ELSE ctx[p].at

\* Once a process has been dispatched the boot thread is gone for good: its state
\* was never saved, so whatever it had left to do is never done.
BootNeverResumes == [][cpu.of # Boot => cpu'.of # Boot]_vars

\* A terminated process is never dispatched again under its own name.
DeadStaysDead ==
    [][\A p \in Terminated : state'[p] = "TERMINATED" /\ (cr3' = p => cr3 = p)]_vars

\* Round robin: a listed process gets the CPU again and again, unless it
\* terminates or the machine stops.
Served ==
    \A p \in Pid : Listed(p) ~> (cr3 = p \/ p \in Terminated \/ mode # "run")

--------------------------------------------------------------------------------
(* What the comments of proc/scheduler.h say, stated without conditions *)

\* "Process context (CPU state)", scheduler.h:23: a process's context is a state
\* of that process.
OwnContext == \A p \in Pid : ctx[p].of = p

\* "Index of the currently running process", scheduler.h:31, as long as no
\* process has exited.
IndexIsCurrent == Terminated = {} /\ cpu.of \in Pid => current = cpu.of
================================================================================
