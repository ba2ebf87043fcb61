---------------------------- MODULE SchedulerProofs ----------------------------
(***************************************************************************)
(* Proofs about the scheduler, for every table size, number of processes   *)
(* and length of their runs.                                               *)
(***************************************************************************)
EXTENDS Scheduler, TLAPS

(***************************************************************************)
(* The inductive invariant.  The heart of it is BootAlone: while the boot  *)
(* thread runs no process has ever been dispatched, so creation never      *)
(* interleaves with exit, and entries beyond the table are still NULL.     *)
(***************************************************************************)
Live(p) == state[p] \in {"NEW", "RUNNING"}

ListedOnce ==
    /\ \A k, l \in Index :
          k < l /\ l < process_count /\ processes[k] # NULL => processes[k] # processes[l]
    /\ \A k \in Index :
          k < process_count /\ processes[k] # NULL
             => Live(processes[k]) /\ processes[k] < pid_counter
    /\ current_index < process_count \/ process_count = 0

Creating ==     \* the publication in progress, while the boot thread runs
    cpu.of = Boot =>
        /\ boot = "load" => process_count < MAX_PROCESSES
        /\ boot # "publish" => todo = {}
        /\ boot = "publish" =>
              /\ pid_counter > 0
              /\ process_count = IF "count" \in todo THEN index ELSE index + 1
              /\ "slot" \notin todo => processes[index] = pid_counter - 1
              /\ \A k \in Index : k < index => processes[k] # pid_counter - 1
        /\ \A k \in Index :
              (k >= process_count \/ (boot = "publish" /\ k = index))
                 /\ ~(boot = "publish" /\ "slot" \notin todo /\ k = index)
                    => processes[k] = NULL

BootAlone ==
    cpu.of = Boot =>
        /\ mode = "run" /\ cr3 = Boot
        /\ process_count = 0 => current_index = 0
        /\ \A p \in Pid : /\ state[p] \in {"none", "NEW"}
                          /\ furthest[p] = 0 /\ ctx[p].at = 0

Pids == \A p \in Pid : p < pid_counter <=> state[p] # "none"

NoBootContext == \A p \in Pid : ctx[p].of \in Pid

Occupied == cpu.of # Boot /\ mode = "run" => process_count > 0

InOrder ==      \* until a process exits, the index names the running one, or a hole
    Terminated = {} =>
        /\ cpu.of # Boot => current \in {cpu.of, NULL} /\ state[cpu.of] = "RUNNING"
        /\ \A p \in Pid : ctx[p].of = p
        /\ cpu.of = cr3
        /\ Whole => \A p \in Pid : furthest[p] = IF cpu.of = p THEN cpu.at ELSE ctx[p].at

Inv == /\ TypeOK /\ ListedOnce /\ NeverDropped /\ Creating /\ BootAlone /\ Pids
       /\ NoBootContext /\ Occupied /\ InOrder

--------------------------------------------------------------------------------

\* After scheduler_init the table is empty and the boot thread runs.
LEMMA InitInv == Init => Inv
<1> SUFFICES ASSUME Init PROVE Inv
  OBVIOUS
<1> USE TableAssumption, NullAssumption
<1>1. TypeOK
  BY DEF Init, TypeOK, Frame, Pid, Index
<1>2. ListedOnce /\ Creating /\ Occupied
  BY DEF Init, ListedOnce, Creating, Occupied, Index
<1>3. NeverDropped /\ BootAlone /\ Pids /\ NoBootContext /\ InOrder
  BY DEF Init, NeverDropped, Published, BootAlone, Pids, NoBootContext, InOrder, Pid
<1> QED BY <1>1, <1>2, <1>3 DEF Inv

\* A step that changes nothing.
LEMMA StutterInv == Inv /\ UNCHANGED vars => Inv'
<1> SUFFICES ASSUME Inv, UNCHANGED vars PROVE Inv'
  OBVIOUS
<1>1. UNCHANGED <<processes, process_count, current_index, pid_counter, boot, todo, index,
                  state, ctx, cpu, cr3, mode, furthest>>
  BY DEF vars, table, creation
<1> QED
  BY <1>1 DEF Inv, TypeOK, ListedOnce, Live, NeverDropped, Published, Listed, Terminated,
              Creating, BootAlone, Pids, NoBootContext, Occupied, InOrder, Whole, current

\* The steps of the boot thread that touch neither table nor processes.
LEMMA BootQuietInv == Inv /\ (CreateCheck \/ LoadFails \/ CreateReturns) => Inv'
<1> SUFFICES ASSUME Inv, CreateCheck \/ LoadFails \/ CreateReturns PROVE Inv'
  OBVIOUS
<1>1. /\ cpu.of = Boot
      /\ UNCHANGED <<processes, process_count, current_index, pid_counter, todo, index, state,
                     ctx, cpu, cr3, mode, furthest>>
      /\ boot' \in {"call", "load"} /\ todo = {}
      /\ boot' = "load" => process_count < MAX_PROCESSES
  BY DEF CreateCheck, LoadFails, CreateReturns, Running, table, Inv, Creating
<1>2. TypeOK'
  BY <1>1 DEF Inv, TypeOK
<1>3. ListedOnce' /\ BootAlone' /\ Pids' /\ NoBootContext' /\ Occupied'
  BY <1>1 DEF Inv, ListedOnce, Live, BootAlone, Pids, NoBootContext, Occupied
<1>4. NeverDropped' /\ InOrder'
  BY <1>1 DEF Inv, NeverDropped, Published, Listed, Terminated, InOrder, Whole, current
<1>5. Creating'
  <2>1. \A k \in Index : k >= process_count => processes[k] = NULL
    BY <1>1 DEF Inv, Creating, TypeOK, Index
  <2> QED BY <1>1, <2>1 DEF Creating
<1> QED BY <1>2, <1>3, <1>4, <1>5 DEF Inv

\* While the boot thread runs nothing has terminated.
LEMMA NobodyTerminated == Inv /\ cpu.of = Boot => Terminated = {}
BY DEF Inv, BootAlone, Terminated

\* A new process is in no table entry yet.
LEMMA ProcessCreateInv == Inv /\ process_create => Inv'
<1> SUFFICES ASSUME Inv, process_create PROVE Inv'
  OBVIOUS
<1> USE TableAssumption, NullAssumption
<1>1. /\ TypeOK /\ cpu.of = Boot /\ boot = "load" /\ pid_counter \in Pid /\ mode = "run"
      /\ state' = [state EXCEPT ![pid_counter] = "NEW"]
      /\ ctx' = [ctx EXCEPT ![pid_counter] = [of |-> pid_counter, at |-> 0]]
      /\ pid_counter' = pid_counter + 1 /\ index' = process_count
      /\ boot' = "publish" /\ todo' = {"slot", "count"}
      /\ UNCHANGED <<processes, process_count, current_index, cpu, cr3, mode, furthest>>
  BY DEF process_create, Running, table, Inv, TypeOK, Pid
<1>2. process_count < MAX_PROCESSES /\ todo = {}
  BY <1>1 DEF Inv, Creating
<1>3. TypeOK'
  BY <1>1, <1>2 DEF TypeOK, Frame, Pid, Index
<1>4. state[pid_counter] = "none"
  BY <1>1 DEF Inv, Pids, Pid
<1>5. ListedOnce'
  BY <1>1, <1>4 DEF Inv, ListedOnce, Live, TypeOK, Pid
<1>6. Pids' /\ NoBootContext' /\ BootAlone' /\ Occupied'
  BY <1>1 DEF Inv, Pids, NoBootContext, BootAlone, Occupied, TypeOK, Pid
<1>7. Terminated' = {} /\ Terminated = {}
  BY <1>1, <1>6, NobodyTerminated DEF BootAlone, Terminated
<1>8. InOrder'
  BY <1>1, <1>6, <1>7 DEF Inv, InOrder, BootAlone, TypeOK, Pid
<1>9. NeverDropped'
  <2> SUFFICES ASSUME NEW p \in Pid, Published(p)' PROVE Listed(p)'
    BY DEF NeverDropped
  <2>1. p < pid_counter
    BY <1>1 DEF Published, TypeOK, Pid
  <2>2. Listed(p)
    BY <1>1, <1>2, <1>7, <2>1 DEF Inv, NeverDropped, Published
  <2> QED BY <1>1, <2>2 DEF Listed
<1>10. Creating'
  <2>1. \A k \in Index : k < process_count => processes[k] # pid_counter
    BY <1>1 DEF Inv, ListedOnce, TypeOK, Pid
  <2>2. \A k \in Index : k >= process_count => processes[k] = NULL
    BY <1>1 DEF Inv, Creating
  <2> QED BY <1>1, <1>2, <2>1, <2>2 DEF Creating, TypeOK, Pid, Index
<1> QED BY <1>3, <1>5, <1>6, <1>8, <1>9, <1>10 DEF Inv

\* Storing the pointer fills the entry that is or will be the table's last.
LEMMA StoreSlotInv == Inv /\ StoreSlot => Inv'
<1> SUFFICES ASSUME Inv, StoreSlot PROVE Inv'
  OBVIOUS
<1> USE TableAssumption, NullAssumption
<1>1. /\ TypeOK /\ cpu.of = Boot /\ boot = "publish" /\ "slot" \in todo
      /\ processes' = [processes EXCEPT ![index] = pid_counter - 1]
      /\ todo' = todo \ {"slot"}
      /\ UNCHANGED <<process_count, current_index, pid_counter, boot, index, state, ctx, cpu,
                     cr3, mode, furthest>>
  BY DEF StoreSlot, Running, Inv
<1>2. /\ pid_counter > 0
      /\ process_count = IF "count" \in todo THEN index ELSE index + 1
      /\ \A k \in Index : k < index => processes[k] # pid_counter - 1
      /\ \A k \in Index : k >= process_count \/ k = index => processes[k] = NULL
  BY <1>1 DEF Inv, Creating
<1>3. pid_counter - 1 \in Pid /\ index \in Index /\ pid_counter \in Nat /\ process_count \in Nat
  BY <1>1, <1>2 DEF TypeOK, Pid, Index
<1>4. TypeOK'
  BY <1>1, <1>3 DEF TypeOK
<1>5. state[pid_counter - 1] = "NEW"
  BY <1>1, <1>2, <1>3 DEF Inv, Pids, BootAlone
<1>6. ListedOnce'
  BY <1>1, <1>2, <1>3, <1>5 DEF Inv, ListedOnce, Live, Index, TypeOK
<1>7. Pids' /\ NoBootContext' /\ BootAlone' /\ Occupied'
  BY <1>1 DEF Inv, Pids, NoBootContext, BootAlone, Occupied
<1>8. Terminated' = {} /\ Terminated = {}
  BY <1>1, <1>7, NobodyTerminated DEF BootAlone, Terminated
<1>9. InOrder'
  BY <1>1, <1>7, <1>8 DEF Inv, InOrder, BootAlone, Pid
<1>10. NeverDropped'
  <2> SUFFICES ASSUME NEW p \in Pid, Published(p)' PROVE Listed(p)'
    BY DEF NeverDropped
  <2>1. CASE p = pid_counter - 1
    <3>1. "count" \notin todo
      BY <1>1, <2>1 DEF Published
    <3> QED BY <1>1, <1>2, <1>3, <2>1, <3>1 DEF Listed, TypeOK, Index
  <2>2. CASE p # pid_counter - 1
    <3>1. Listed(p)
      BY <1>1, <1>8, <2>2 DEF Inv, NeverDropped, Published
    <3>2. PICK k \in Index : k < process_count /\ processes[k] = p
      BY <3>1 DEF Listed
    <3>3. k # index
      BY <1>2, <3>2 DEF Pid
    <3> QED BY <1>1, <3>2, <3>3 DEF Listed, TypeOK
  <2> QED BY <2>1, <2>2
<1>11. Creating'
  BY <1>1, <1>2, <1>3 DEF Creating, TypeOK, Index
<1> QED BY <1>4, <1>6, <1>7, <1>9, <1>10, <1>11 DEF Inv

\* Storing the count takes in the new entry, filled or still NULL.
LEMMA StoreCountInv == Inv /\ StoreCount => Inv'
<1> SUFFICES ASSUME Inv, StoreCount PROVE Inv'
  OBVIOUS
<1> USE TableAssumption, NullAssumption
<1>1. /\ TypeOK /\ cpu.of = Boot /\ boot = "publish" /\ "count" \in todo
      /\ process_count' = index + 1
      /\ todo' = todo \ {"count"}
      /\ UNCHANGED <<processes, current_index, pid_counter, boot, index, state, ctx, cpu, cr3,
                     mode, furthest>>
  BY DEF StoreCount, Running, Inv
<1>2. /\ pid_counter > 0 /\ process_count = index
      /\ "slot" \notin todo => processes[index] = pid_counter - 1
      /\ \A k \in Index : k < index => processes[k] # pid_counter - 1
      /\ \A k \in Index : k > index => processes[k] = NULL
      /\ "slot" \in todo => processes[index] = NULL
  BY <1>1 DEF Inv, Creating, TypeOK, Index
<1>3. pid_counter - 1 \in Pid /\ index \in Index /\ pid_counter \in Nat /\ index \in Nat
  BY <1>1, <1>2 DEF TypeOK, Pid, Index
<1>4. TypeOK'
  BY <1>1, <1>3 DEF TypeOK, Index
<1>5. state[pid_counter - 1] = "NEW"
  BY <1>1, <1>2, <1>3 DEF Inv, Pids, BootAlone
<1>6. ListedOnce'
  <2>1. current_index' < process_count'
    BY <1>1, <1>2, <1>3 DEF Inv, ListedOnce, TypeOK, Index, BootAlone
  <2> QED BY <1>1, <1>2, <1>3, <1>5, <2>1 DEF Inv, ListedOnce, Live, Index, TypeOK
<1>7. Pids' /\ NoBootContext' /\ BootAlone' /\ Occupied'
  <2>1. process_count' > 0 /\ process_count' # 0
    BY <1>1, <1>3
  <2>2. Pids' /\ NoBootContext' /\ Occupied'
    BY <1>1, <2>1 DEF Inv, Pids, NoBootContext, Occupied
  <2>3. BootAlone'
    BY <1>1, <2>1 DEF Inv, BootAlone
  <2> QED BY <2>2, <2>3
<1>8. Terminated' = {} /\ Terminated = {}
  BY <1>1, <1>7, NobodyTerminated DEF BootAlone, Terminated
<1>9. InOrder'
  BY <1>1, <1>7, <1>8 DEF Inv, InOrder, BootAlone, Pid
<1>10. NeverDropped'
  <2> SUFFICES ASSUME NEW p \in Pid, Published(p)' PROVE Listed(p)'
    BY DEF NeverDropped
  <2>1. CASE p = pid_counter - 1
    <3>1. "slot" \notin todo
      BY <1>1, <2>1 DEF Published
    <3> QED BY <1>1, <1>2, <1>3, <2>1, <3>1 DEF Listed
  <2>2. CASE p # pid_counter - 1
    <3>1. Listed(p)
      BY <1>1, <1>8, <2>2 DEF Inv, NeverDropped, Published
    <3> QED BY <1>1, <1>2, <1>3, <3>1 DEF Listed, Index
  <2> QED BY <2>1, <2>2
<1>11. Creating'
  BY <1>1, <1>2, <1>3 DEF Creating, Index
<1> QED BY <1>4, <1>6, <1>7, <1>9, <1>10, <1>11 DEF Inv

--------------------------------------------------------------------------------

\* A remainder is smaller than its divisor.
LEMMA ModRange == \A a \in Nat, b \in Nat \ {0} : a % b \in 0 .. (b - 1)
OBVIOUS

\* The rotated index stays inside a table that is not empty.
LEMMA RotateInTable ==
    ASSUME TypeOK, process_count > 0
    PROVE  Rotate \in Index /\ Rotate < process_count
<1>1. current_index + 1 \in Nat /\ process_count \in Nat \ {0} /\ process_count <= MAX_PROCESSES
  BY DEF TypeOK, Index
<1>2. (current_index + 1) % process_count \in 0 .. (process_count - 1)
  BY <1>1, ModRange
<1> QED BY <1>1, <1>2, TableAssumption DEF Rotate, Index

\* What a context switch stores: contexts keep their type and are never boot's.
LEMMA SavedFacts ==
    ASSUME Inv
    PROVE  /\ Saved \in [Pid -> Frame]
           /\ \A p \in Pid : Saved[p].of \in Pid
           /\ cpu.of = Boot => Saved = ctx
           /\ Terminated = {} => \A p \in Pid : Saved[p].of = p
           /\ Terminated = {} /\ Whole /\ process_count > 0 =>
                 \A p \in Pid : furthest[p] = Saved[p].at
<1> USE NullAssumption
<1>1. /\ TypeOK /\ NoBootContext /\ BootAlone /\ InOrder /\ ListedOnce
      /\ ctx \in [Pid -> Frame] /\ cpu \in Frame /\ current \in Pid \cup {NULL}
  BY DEF Inv, TypeOK, current
<1>2. cpu.of \in Pid \cup {Boot} /\ NULL \notin Pid /\ Boot \notin Pid
  BY <1>1 DEF Frame, Pid
<1>3. CASE IsRunning(current)
  <2>1. current \in Pid /\ state[current] = "RUNNING"
    BY <1>1, <1>3 DEF IsRunning
  <2>2. cpu.of \in Pid
    BY <1>1, <1>2, <2>1 DEF BootAlone
  <2>3. /\ Saved \in [Pid -> Frame] /\ Saved[current] = cpu
        /\ \A p \in Pid : p # current => Saved[p] = ctx[p]
    BY <1>1, <1>3, <2>1 DEF Saved
  <2>4. Terminated = {} => current = cpu.of
    BY <1>1, <1>2, <2>1, <2>2 DEF InOrder
  <2> QED BY <1>1, <1>2, <2>1, <2>2, <2>3, <2>4 DEF NoBootContext, InOrder
<1>4. CASE ~IsRunning(current)
  <2>1. Saved = ctx
    BY <1>4 DEF Saved
  <2>2. ASSUME Terminated = {}, Whole, process_count > 0 PROVE cpu.of = Boot
    <3>1. current_index \in Index /\ current_index < process_count
      BY <1>1, <2>2 DEF ListedOnce, TypeOK
    <3>2. current # NULL
      BY <2>2, <3>1 DEF Whole, current
    <3> QED BY <1>1, <1>4, <2>2, <3>2 DEF InOrder, IsRunning
  <2> QED BY <1>1, <1>2, <2>1, <2>2 DEF NoBootContext, InOrder, BootAlone
<1> QED BY <1>3, <1>4

\* A context switch keeps the invariant; the boot thread's state is never saved.
LEMMA TickInv == Inv /\ Tick => Inv'
<1> SUFFICES ASSUME Inv, Tick PROVE Inv'
  OBVIOUS
<1> USE NullAssumption
<1>1. /\ TypeOK /\ mode = "run"
      /\ UNCHANGED <<processes, process_count, pid_counter, boot, todo, index, mode, furthest>>
  BY DEF Inv, Tick, creation
<1>2. CASE process_count = 0
  <2>1. UNCHANGED vars
    BY <1>1, <1>2 DEF Tick, vars, table, creation
  <2> QED BY <2>1, StutterInv
<1>3. CASE process_count # 0
  <2> DEFINE next == processes[Rotate]
  <2>1. /\ process_count > 0 /\ Rotate \in Index /\ Rotate < process_count
        /\ next \in Pid \cup {NULL}
    BY <1>1, <1>3, RotateInTable DEF TypeOK
  <2>2. /\ ctx' = Saved /\ current_index' = Rotate /\ current' = next
    BY <1>1, <1>3 DEF Tick, scheduler_context_switch, current
  <2>3. NULL \notin Pid /\ Boot \notin Pid
    BY DEF Pid
  <2>4. CASE next = NULL
    <3>1. UNCHANGED <<state, cpu, cr3>>
      BY <1>3, <2>4 DEF Tick, scheduler_context_switch
    <3>2. TypeOK'
      BY <1>1, <2>1, <2>2, <3>1, SavedFacts DEF TypeOK
    <3>3. ListedOnce' /\ Pids' /\ NoBootContext' /\ Occupied' /\ Creating'
      BY <1>1, <2>1, <2>2, <3>1, SavedFacts
      DEF Inv, ListedOnce, Live, Pids, NoBootContext, Occupied, Creating
    <3>4. NeverDropped'
      BY <1>1, <3>1 DEF Inv, NeverDropped, Published, Listed, Terminated
    <3>5. BootAlone'
      BY <1>1, <2>1, <2>2, <3>1, SavedFacts DEF Inv, BootAlone
    <3>6. InOrder'
      <4>1. Terminated' = Terminated /\ ~Whole'
        BY <1>1, <2>1, <2>4, <3>1 DEF Terminated, Whole
      <4> QED BY <1>1, <2>2, <2>4, <3>1, <4>1, SavedFacts DEF Inv, InOrder
    <3> QED BY <3>2, <3>3, <3>4, <3>5, <3>6 DEF Inv
  <2>5. CASE next # NULL
    <3>1. /\ state' = [state EXCEPT ![next] = "RUNNING"] /\ cpu' = Saved[next] /\ cr3' = next
          /\ next \in Pid
      BY <1>3, <2>1, <2>2, <2>5 DEF Tick, scheduler_context_switch
    <3>2. Live(next) /\ next < pid_counter
      BY <2>1, <2>5 DEF Inv, ListedOnce
    <3>3. TypeOK'
      BY <1>1, <2>1, <2>2, <3>1, SavedFacts DEF TypeOK
    <3>4. /\ \A p \in Pid : p # next => state'[p] = state[p]
          /\ state'[next] = "RUNNING"
      BY <1>1, <3>1 DEF TypeOK
    <3>5. cpu'.of \in Pid /\ cpu'.of # Boot
      BY <2>3, <3>1, SavedFacts
    <3>6. Terminated' = Terminated
      BY <3>2, <3>4 DEF Terminated, Live
    <3>7. ListedOnce'
      BY <1>1, <2>1, <2>2, <3>4 DEF Inv, ListedOnce, Live, TypeOK
    <3>8. Pids' /\ NoBootContext' /\ Occupied' /\ Creating' /\ BootAlone'
      BY <1>1, <2>1, <2>2, <3>2, <3>4, <3>5, SavedFacts
      DEF Inv, Pids, NoBootContext, Occupied, Creating, BootAlone, Live
    <3>9. NeverDropped'
      BY <1>1, <3>6 DEF Inv, NeverDropped, Published, Listed
    <3>10. InOrder'
      <4>1. Whole' = Whole
        BY <1>1 DEF Whole
      <4> QED BY <1>1, <2>1, <2>2, <3>1, <3>4, <3>6, <4>1, SavedFacts DEF InOrder
    <3> QED BY <3>3, <3>7, <3>8, <3>9, <3>10 DEF Inv
  <2> QED BY <2>4, <2>5
<1> QED BY <1>2, <1>3

\* Exit removes the current process from the table, and only that one.
LEMMA TerminateInv == Inv /\ Exit /\ IsRunning(current) /\ Terminate => Inv'
<1> SUFFICES ASSUME Inv, Exit, IsRunning(current), Terminate PROVE Inv'
  OBVIOUS
<1> USE TableAssumption, NullAssumption
<1>1. /\ TypeOK /\ ListedOnce /\ mode = "run" /\ cpu.of \in Pid /\ cpu.of # Boot
      /\ current \in Pid /\ current # NULL
      /\ state' = [state EXCEPT ![current] = "TERMINATED"]
      /\ processes' = Compacted /\ process_count' = process_count - 1
      /\ current_index' = IndexAfterExit
      /\ mode' = IF process_count = 1 THEN "idle" ELSE "run"
      /\ UNCHANGED <<pid_counter, boot, todo, index, ctx, cpu, cr3, furthest>>
  BY DEF Inv, Exit, Terminate, IsRunning, TypeOK, current, creation, Pid
<1>2. process_count \in 1 .. MAX_PROCESSES /\ current_index \in Index
      /\ current_index < process_count
  BY <1>1 DEF Inv, Occupied, ListedOnce, TypeOK
<1>3. \A k \in Index : k < process_count - 1 =>
          /\ k + 1 \in Index /\ k + 1 < process_count
          /\ processes'[k] = IF k < current_index THEN processes[k] ELSE processes[k + 1]
  BY <1>1, <1>2 DEF Compacted, Index
<1>4. IndexAfterExit \in Index /\ (process_count = 1 \/ IndexAfterExit < process_count - 1)
  <2>1. CASE process_count = 1
    BY <1>2, <2>1 DEF IndexAfterExit
  <2>2. CASE process_count # 1
    <3>1. current_index \in Nat /\ process_count - 1 \in Nat \ {0}
      BY <1>2, <2>2 DEF Index
    <3>2. current_index % (process_count - 1) \in 0 .. ((process_count - 1) - 1)
      BY <3>1, ModRange
    <3> QED BY <1>2, <2>2, <3>2 DEF IndexAfterExit, Index
  <2> QED BY <2>1, <2>2
<1>5. TypeOK'
  <2>1. processes' \in [Index -> Pid \cup {NULL}]
    BY <1>1, <1>2, <1>3 DEF TypeOK, Compacted, Index
  <2> QED BY <1>1, <1>2, <1>4, <2>1 DEF TypeOK
<1>6. \A k \in Index : k < process_count /\ k # current_index => processes[k] # current
  BY <1>1, <1>2 DEF ListedOnce, current, Index
<1>7. \A k \in Index : k < process_count - 1 => processes'[k] # current
  BY <1>2, <1>3, <1>6 DEF Index
<1>8. /\ \A p \in Pid : p # current => state'[p] = state[p]
      /\ state'[current] = "TERMINATED"
  BY <1>1 DEF TypeOK
<1>9. ListedOnce'
  <2>1. ASSUME NEW k \in Index, NEW l \in Index, k < l, l < process_count', processes'[k] # NULL
        PROVE  processes'[k] # processes'[l]
    <3> DEFINE kk == IF k < current_index THEN k ELSE k + 1
               ll == IF l < current_index THEN l ELSE l + 1
    <3>1. kk \in Index /\ ll \in Index /\ kk < ll /\ ll < process_count
      BY <1>1, <1>2, <1>3, <2>1 DEF Index
    <3>2. processes'[k] = processes[kk] /\ processes'[l] = processes[ll]
      BY <1>1, <1>2, <1>3, <2>1 DEF Index
    <3> QED BY <1>1, <2>1, <3>1, <3>2 DEF ListedOnce
  <2>2. ASSUME NEW k \in Index, k < process_count', processes'[k] # NULL
        PROVE  Live(processes[k])' /\ processes'[k] < pid_counter'
    <3> DEFINE kk == IF k < current_index THEN k ELSE k + 1
    <3>1. kk \in Index /\ kk < process_count /\ processes'[k] = processes[kk]
      BY <1>1, <1>2, <1>3, <2>2 DEF Index
    <3>2. Live(processes[kk]) /\ processes[kk] < pid_counter /\ processes[kk] \in Pid
      BY <1>1, <2>2, <3>1 DEF ListedOnce, TypeOK
    <3>3. processes'[k] # current
      BY <1>1, <1>7, <2>2
    <3> QED BY <1>1, <1>8, <3>1, <3>2, <3>3 DEF Live
  <2>3. current_index' < process_count' \/ process_count' = 0
    BY <1>1, <1>2, <1>4
  <2> QED BY <1>1, <2>1, <2>2, <2>3 DEF ListedOnce
<1>10. current \in Terminated'
  BY <1>1, <1>8 DEF Terminated
<1>11. NeverDropped'
  <2> SUFFICES ASSUME NEW p \in Pid, Published(p)', p \notin Terminated' PROVE Listed(p)'
    BY DEF NeverDropped
  <2>1. p # current /\ p \notin Terminated /\ Published(p)
    BY <1>1, <1>8, <1>10 DEF Terminated, Published
  <2>2. PICK k \in Index : k < process_count /\ processes[k] = p
    BY <2>1 DEF Inv, NeverDropped, Listed
  <2>3. k # current_index
    BY <2>1, <2>2 DEF current
  <2>4. CASE k < current_index
    <3>1. k < process_count - 1
      BY <1>2, <2>2, <2>4 DEF Index
    <3>2. processes'[k] = p
      BY <1>3, <2>2, <2>4, <3>1
    <3> QED BY <1>1, <3>1, <3>2 DEF Listed
  <2>5. CASE k > current_index
    <3>1. k - 1 \in Index /\ k - 1 < process_count - 1 /\ ~(k - 1 < current_index) /\ (k - 1) + 1 = k
      BY <1>2, <2>2, <2>5 DEF Index
    <3>2. processes'[k - 1] = p
      BY <1>3, <2>2, <3>1
    <3> QED BY <1>1, <3>1, <3>2 DEF Listed
  <2> QED BY <1>2, <2>3, <2>4, <2>5 DEF Index
<1>12. Pids' /\ NoBootContext' /\ Creating' /\ BootAlone'
  BY <1>1, <1>8 DEF Inv, Pids, NoBootContext, Creating, BootAlone, IsRunning
<1>13. Occupied'
  BY <1>1, <1>2 DEF Occupied
<1>14. InOrder'
  BY <1>10 DEF InOrder
<1> QED BY <1>5, <1>9, <1>11, <1>12, <1>13, <1>14 DEF Inv

\* The exit system call, with its two other outcomes.
LEMMA ExitInv == Inv /\ Exit => Inv'
<1> SUFFICES ASSUME Inv, Exit PROVE Inv'
  OBVIOUS
<1>1. CASE IsRunning(current) /\ Terminate
  BY <1>1, TerminateInv
<1>2. CASE UNCHANGED vars
  BY <1>2, StutterInv
<1>3. CASE current = NULL /\ mode' = "panic"
           /\ UNCHANGED <<table, creation, state, ctx, cpu, cr3, furthest>>
  <2>1. /\ mode' = "panic" /\ cpu.of \in Pid /\ cpu.of # Boot
        /\ UNCHANGED <<processes, process_count, current_index, pid_counter, boot, todo, index,
                       state, ctx, cpu, cr3, furthest>>
    BY <1>3, NullAssumption DEF Exit, table, creation, Pid
  <2>2. TypeOK' /\ ListedOnce' /\ NeverDropped' /\ Pids' /\ NoBootContext'
    BY <2>1 DEF Inv, TypeOK, ListedOnce, Live, NeverDropped, Published, Listed, Terminated,
                Pids, NoBootContext
  <2>3. Creating' /\ BootAlone' /\ Occupied' /\ InOrder'
    BY <2>1 DEF Inv, Creating, BootAlone, Occupied, InOrder, Terminated, Whole, current
  <2> QED BY <2>2, <2>3 DEF Inv
<1> QED BY <1>1, <1>2, <1>3 DEF Exit

\* A process that executes gets further than it ever was.
LEMMA ExecuteInv == Inv /\ Execute => Inv'
<1> SUFFICES ASSUME Inv, Execute PROVE Inv'
  OBVIOUS
<1> USE NullAssumption, TableAssumption
<1>1. /\ TypeOK /\ cpu.of \in Pid /\ cpu.of # Boot /\ cpu.at \in Nat /\ cpu.at < MaxAt
      /\ cpu' = [cpu EXCEPT !.at = cpu.at + 1] /\ cpu \in Frame
      /\ furthest' = [furthest EXCEPT ![cpu.of] = IF cpu.at + 1 > @ THEN cpu.at + 1 ELSE @]
      /\ UNCHANGED <<processes, process_count, current_index, pid_counter, boot, todo, index,
                     state, ctx, cr3, mode>>
  BY DEF Inv, Execute, TypeOK, Frame, Pid, table, creation
<1>2. cpu' \in Frame /\ cpu'.of = cpu.of /\ cpu'.at = cpu.at + 1
  BY <1>1 DEF Frame
<1>3. furthest' \in [Pid -> 0 .. MaxAt]
  BY <1>1 DEF TypeOK
<1>4. TypeOK'
  BY <1>1, <1>2, <1>3 DEF TypeOK
<1>5. ListedOnce' /\ NeverDropped' /\ Pids' /\ NoBootContext' /\ Creating' /\ BootAlone' /\ Occupied'
  BY <1>1, <1>2 DEF Inv, ListedOnce, Live, NeverDropped, Published, Listed, Terminated,
                    Pids, NoBootContext, Creating, BootAlone, Occupied
<1>6. InOrder'
  <2>1. Terminated' = Terminated /\ Whole' = Whole /\ current' = current
    BY <1>1 DEF Terminated, Whole, current
  <2>2. ASSUME Terminated = {}, Whole
        PROVE  \A p \in Pid : furthest'[p] = IF cpu'.of = p THEN cpu'.at ELSE ctx'[p].at
    <3>1. \A p \in Pid : furthest[p] = IF cpu.of = p THEN cpu.at ELSE ctx[p].at
      BY <2>2 DEF Inv, InOrder
    <3> QED BY <1>1, <1>2, <3>1 DEF TypeOK
  <2> QED BY <1>1, <1>2, <2>1, <2>2 DEF Inv, InOrder
<1> QED BY <1>4, <1>5, <1>6 DEF Inv

--------------------------------------------------------------------------------
(* The theorems. *)

\* Every step of the boot thread, the timer and the processes keeps the invariant.
LEMMA NextInv == Inv /\ [Next]_vars => Inv'
<1> SUFFICES ASSUME Inv, [Next]_vars PROVE Inv'
  OBVIOUS
<1>1. CASE CreateCheck \/ LoadFails \/ CreateReturns  BY <1>1, BootQuietInv
<1>2. CASE process_create   BY <1>2, ProcessCreateInv
<1>3. CASE StoreSlot        BY <1>3, StoreSlotInv
<1>4. CASE StoreCount       BY <1>4, StoreCountInv
<1>5. CASE Tick             BY <1>5, TickInv
<1>6. CASE Exit             BY <1>6, ExitInv
<1>7. CASE Execute          BY <1>7, ExecuteInv
<1>8. CASE UNCHANGED vars   BY <1>8, StutterInv
<1> QED
  BY <1>1, <1>2, <1>3, <1>4, <1>5, <1>6, <1>7, <1>8 DEF Next, BootStep, CreateRefused, Stopped

\* Inv is an invariant of the scheduler.
THEOREM Invariance == Spec => []Inv
BY InitInv, NextInv, PTL DEF Spec

\* Every variable of the scheduler keeps its type.
THEOREM TypeCorrect == Spec => []TypeOK
<1>1. Inv => TypeOK
  BY DEF Inv
<1> QED BY <1>1, Invariance, PTL

\* The table that the timer interrupt reads is sound whenever it is read, even
\* between the two stores of a creation, and no exit drops another process.
THEOREM TableAlwaysSound == Spec => [](TableSound /\ NeverDropped)
<1>1. Inv => TableSound /\ NeverDropped
  <2> SUFFICES ASSUME Inv PROVE TableSound /\ NeverDropped
    OBVIOUS
  <2>1. \A p \in Terminated : ~Listed(p)
    BY NullAssumption DEF Inv, ListedOnce, Live, Terminated, Listed, Pid
  <2> QED BY <2>1 DEF Inv, ListedOnce, TableSound
<1> QED BY <1>1, Invariance, PTL

\* Until a process exits, contexts and address spaces are never mixed up and
\* every process is resumed where it stopped.
THEOREM SwitchCorrectUntilExit == Spec => [](OwnContextUntilExit /\ ResumesWhereStopped)
<1>1. Inv => OwnContextUntilExit /\ ResumesWhereStopped
  BY DEF Inv, InOrder, OwnContextUntilExit, ResumesWhereStopped
<1> QED BY <1>1, Invariance, PTL

\* A step keeps the boot thread off the CPU once it has lost it: no context ever
\* holds its state.
LEMMA NoBootStep == Inv /\ [Next]_vars => (cpu.of # Boot => cpu'.of # Boot)
<1> SUFFICES ASSUME Inv, [Next]_vars, cpu.of # Boot PROVE cpu'.of # Boot
  OBVIOUS
<1>1. CASE UNCHANGED cpu
  BY <1>1
<1>2. CASE Tick
  <2>1. CASE process_count = 0
    BY <1>2, <2>1 DEF Tick
  <2>2. CASE process_count # 0
    <3> DEFINE next == processes[Rotate]
    <3>1. Rotate \in Index /\ next \in Pid \cup {NULL}
      BY <2>2, RotateInTable DEF Inv, TypeOK
    <3>2. next # NULL => cpu' = Saved[next] /\ next \in Pid
      BY <1>2, <2>2, <3>1 DEF Tick, scheduler_context_switch
    <3>3. next = NULL => cpu' = cpu
      BY <1>2, <2>2 DEF Tick, scheduler_context_switch
    <3>4. Boot \notin Pid
      BY NullAssumption DEF Pid
    <3> QED BY <3>2, <3>3, <3>4, SavedFacts
  <2> QED BY <2>1, <2>2
<1>3. CASE Execute
  <2>1. cpu \in Frame
    BY DEF Inv, TypeOK
  <2> QED BY <1>3, <2>1 DEF Execute, Frame
<1> QED
  BY <1>1, <1>2, <1>3
  DEF Next, BootStep, CreateCheck, CreateRefused, LoadFails, process_create, StoreSlot,
      StoreCount, CreateReturns, Exit, Terminate, Stopped, vars

\* Once a process has been dispatched, the boot thread never runs again.
THEOREM BootIsLost == Spec => BootNeverResumes
<1>1. Inv /\ [Next]_vars => [cpu.of # Boot => cpu'.of # Boot]_vars
  BY NoBootStep
<1> QED BY <1>1, Invariance, PTL DEF Spec, BootNeverResumes

\* A terminated process is in no entry that a context switch can dispatch.
THEOREM DeadIsFinal == Spec => DeadStaysDead
<1>1. ASSUME Inv, [Next]_vars
      PROVE  [\A p \in Terminated : state'[p] = "TERMINATED" /\ (cr3' = p => cr3 = p)]_vars
  <2> SUFFICES ASSUME NEW p \in Terminated
               PROVE  state'[p] = "TERMINATED" /\ (cr3' = p => cr3 = p)
    OBVIOUS
  <2>1. p \in Pid /\ state[p] = "TERMINATED" /\ TypeOK /\ NULL \notin Pid
    BY <1>1, NullAssumption DEF Terminated, Inv, Pid
  <2>2. CASE UNCHANGED <<state, cr3>>
    BY <2>1, <2>2
  <2>3. CASE Tick
    <3>1. CASE process_count = 0
      BY <2>1, <2>3, <3>1 DEF Tick
    <3>2. CASE process_count # 0
      <4> DEFINE next == processes[Rotate]
      <4>1. Rotate \in Index /\ Rotate < process_count /\ next \in Pid \cup {NULL}
        BY <2>1, <3>2, RotateInTable DEF TypeOK
      <4>2. next # p
        BY <1>1, <2>1, <4>1 DEF Inv, ListedOnce, Live
      <4>3. next # NULL => state' = [state EXCEPT ![next] = "RUNNING"] /\ cr3' = next
        BY <2>3, <3>2 DEF Tick, scheduler_context_switch
      <4>4. next = NULL => state' = state /\ cr3' = cr3
        BY <2>3, <3>2 DEF Tick, scheduler_context_switch
      <4> QED BY <2>1, <4>1, <4>2, <4>3, <4>4 DEF TypeOK
    <3> QED BY <3>1, <3>2
  <2>4. CASE process_create
    <3>1. state' = [state EXCEPT ![pid_counter] = "NEW"] /\ cr3' = cr3 /\ pid_counter < Procs
      BY <2>4 DEF process_create
    <3>2. pid_counter # p
      <4>1. p < pid_counter
        BY <1>1, <2>1 DEF Inv, Pids
      <4> QED BY <2>1, <4>1 DEF TypeOK, Pid
    <3> QED BY <2>1, <3>1, <3>2 DEF TypeOK
  <2>5. CASE Exit
    BY <2>1, <2>5 DEF Exit, Terminate, TypeOK, vars
  <2> QED
    BY <1>1, <2>2, <2>3, <2>4, <2>5
    DEF Next, BootStep, CreateCheck, CreateRefused, LoadFails, StoreSlot,
        StoreCount, CreateReturns, Execute, Stopped, vars
<1> QED BY <1>1, Invariance, PTL DEF Spec, DeadStaysDead
================================================================================
