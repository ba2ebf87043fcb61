-------------------------------- MODULE Console --------------------------------
(***************************************************************************)
(* The console: the keyboard interrupt and its one-key buffer              *)
(* (devices/stdin.c), the output device (devices/stdout.c), the device     *)
(* system calls (sys/syscall.c), and the processes that make them: copies  *)
(* of the init program (sysroot/init/main.c) and processes that make any   *)
(* device call on any device.                                              *)
(*                                                                         *)
(* Processes interleave at any instruction.  A system call runs with       *)
(* interrupts disabled and is one step.  A scancode is abstracted to what  *)
(* keymap has for it, a key carries the number of the keyboard byte that   *)
(* made it, and what is written to a device is left out.                   *)
(***************************************************************************)
EXTENDS Naturals, Sequences

CONSTANTS
    Inits,        \* processes that run init
    Others,       \* processes that make any system call
    MaxBytes      \* bound: bytes the keyboard ever sends

ASSUME ConsoleAssumption == Inits \cap Others = {} /\ MaxBytes \in Nat

Procs == Inits \cup Others

DEVICE_READY == 0
DEVICE_BUSY == 1
STDOUT == 0
STDIN == 1
ABSENT == 7        \* an id for which device_get returns NULL
Devices == {STDOUT, STDIN, ABSENT}

\* What keymap has for a scancode: a name, no name, or nothing since it is too short.
Codes == {"named", "unnamed", "beyond"}

Key == [n : 0 .. MaxBytes, sym : {"NULL", "name", "wild"}, released : BOOLEAN]

\* key_t key on the stack of init's loop, never initialized
Garbage == [n |-> 0, sym |-> "wild", released |-> FALSE]

VARIABLES
    typed,     \* how many bytes the keyboard has sent
    wire,      \* those that the interrupt handler has not read, with their numbers
    key,       \* devices/stdin.c: static key_t key
    mode,      \* "run", "spin" (a system call that never ends), "panic"
    pc, rax, buf,   \* of each process: where it is, the rax it sees, its key_t
    was,       \* what the device's poll function answered last
    reads,     \* numbers of the keys handed to processes, in order
    shown      \* numbers of the keys each init has printed, in order

kernel == <<key, mode, rax, buf, was, reads>>
vars == <<typed, wire, kernel, pc, shown>>

Init ==
    /\ typed = 0 /\ wire = << >>
    /\ key = [n |-> 0, sym |-> "NULL", released |-> FALSE]
    /\ mode = "run"
    /\ pc = [p \in Procs |-> IF p \in Inits THEN "poll" ELSE "any"]
    /\ rax = [p \in Procs |-> 0]
    /\ buf = [p \in Procs |-> Garbage]
    /\ was = [p \in Procs |-> DEVICE_READY]
    /\ reads = << >>
    /\ shown = [p \in Inits |-> << >>]

--------------------------------------------------------------------------------
(* The keyboard and keyboard_handler *)

Type ==
    /\ mode = "run" /\ typed < MaxBytes
    /\ \E c \in Codes, r \in BOOLEAN :
          wire' = Append(wire, [n |-> typed + 1, code |-> c, released |-> r])
    /\ typed' = typed + 1
    /\ UNCHANGED <<kernel, pc, shown>>

\* keymap[scancode]; reading past the end of keymap gives any pointer
Translations(c) == CASE c = "named" -> {"name"}
                     [] c = "unnamed" -> {"NULL"}
                     [] c = "beyond" -> {"NULL", "wild"}

keyboard_handler ==
    /\ mode = "run" /\ wire # << >>
    /\ \E s \in Translations(Head(wire).code) :
          key' = [n |-> Head(wire).n, sym |-> s, released |-> Head(wire).released]
    /\ wire' = Tail(wire)
    /\ UNCHANGED <<typed, mode, rax, buf, was, reads, pc, shown>>

--------------------------------------------------------------------------------
(* syscall_handler; rax is what the process finds in rax afterwards, and only   *)
(* read stores its result there                                                 *)

stdin_poll == IF key.sym # "NULL" THEN DEVICE_READY ELSE DEVICE_BUSY

device_poll(d) == IF d = STDIN THEN stdin_poll ELSE DEVICE_READY

\* Mutant: the key is not cleared after it is read.
ClearedNot == key

Cleared == [key EXCEPT !.sym = "NULL"]

\* Mutant: the number of keys read is dropped, like poll's result is.
StoredDropped(result) == 3

\* Mutant: the result counts bytes instead of keys.
StoredBytes(result) == result * 24

Stored(result) == result

Read(p, d) ==
    IF d = STDIN /\ key.sym # "NULL"
    THEN /\ buf' = [buf EXCEPT ![p] = key]
         /\ key' = Cleared
         /\ reads' = Append(reads, key.n)
         /\ rax' = [rax EXCEPT ![p] = Stored(1)]
         /\ UNCHANGED <<mode, was>>
    ELSE /\ rax' = [rax EXCEPT ![p] = IF d = ABSENT THEN 3 ELSE Stored(0)]
         /\ UNCHANGED <<key, mode, buf, was, reads>>

\* The poll loop runs with interrupts disabled: once it waits, no key can end it.
Write(p, d) ==
    /\ mode' = IF d # ABSENT /\ device_poll(d) = DEVICE_BUSY THEN "spin" ELSE mode
    /\ rax' = [rax EXCEPT ![p] = 2]
    /\ UNCHANGED <<key, buf, was, reads>>

\* device_get's result is called through without a test.
Poll(p, d) ==
    /\ rax' = [rax EXCEPT ![p] = 4]
    /\ IF d = ABSENT
       THEN mode' = "panic" /\ was' = was
       ELSE mode' = mode /\ was' = [was EXCEPT ![p] = device_poll(d)]
    /\ UNCHANGED <<key, buf, reads>>

Unknown(p) == rax' = [rax EXCEPT ![p] = 5] /\ UNCHANGED <<key, mode, buf, was, reads>>

--------------------------------------------------------------------------------
(* main of sysroot/init/main.c *)

At(p, l) == mode = "run" /\ pc[p] = l
Goto(p, l) == pc' = [pc EXCEPT ![p] = l]

InitPoll(p) ==
    /\ At(p, "poll")
    /\ Poll(p, STDIN)
    /\ Goto(p, "polled")
    /\ UNCHANGED <<typed, wire, shown>>

\* Mutant: the loop waits for DEVICE_READY, which poll never returns.
InitPolledReady(p) ==
    /\ At(p, "polled")
    /\ Goto(p, IF rax[p] # DEVICE_READY THEN "poll" ELSE "read")
    /\ UNCHANGED <<typed, wire, kernel, shown>>

InitPolled(p) ==
    /\ At(p, "polled")
    /\ Goto(p, IF rax[p] = DEVICE_BUSY THEN "poll" ELSE "read")
    /\ UNCHANGED <<typed, wire, kernel, shown>>

InitRead(p) ==
    /\ At(p, "read")
    /\ Read(p, STDIN)
    /\ Goto(p, "test")
    /\ UNCHANGED <<typed, wire, shown>>

Printable(p) == rax[p] # 0 /\ ~buf[p].released /\ buf[p].sym # "NULL"

InitSkip(p) ==
    /\ At(p, "test") /\ ~Printable(p)
    /\ Goto(p, "poll")
    /\ UNCHANGED <<typed, wire, kernel, shown>>

\* Printing a name that is no string may fault.
InitShow(p) ==
    /\ At(p, "test") /\ Printable(p)
    /\ shown' = [shown EXCEPT ![p] = Append(@, buf[p].n)]
    /\ mode' \in IF buf[p].sym = "wild" THEN {"run", "panic"} ELSE {"run"}
    /\ Goto(p, "poll")
    /\ UNCHANGED <<typed, wire, key, rax, buf, was, reads>>

InitStep(p) == InitPoll(p) \/ InitPolled(p) \/ InitRead(p) \/ InitSkip(p) \/ InitShow(p)

AnyCall(p) ==
    /\ mode = "run"
    /\ \E d \in Devices : Read(p, d) \/ Write(p, d) \/ Poll(p, d) \/ Unknown(p)
    /\ UNCHANGED <<typed, wire, pc, shown>>

Stopped == mode # "run" /\ UNCHANGED vars

Next ==
    \/ Type \/ keyboard_handler
    \/ \E p \in Inits : InitStep(p)
    \/ \E p \in Others : AnyCall(p)
    \/ Stopped

\* Every init keeps getting the CPU, which is what the scheduler guarantees, and
\* the keyboard interrupt is delivered, since processes run with interrupts
\* enabled.  Nothing is assumed of the keyboard and of the other processes.
Spec == /\ Init /\ [][Next]_vars
        /\ WF_vars(keyboard_handler)
        /\ \A p \in Inits : WF_vars(InitStep(p))

--------------------------------------------------------------------------------
(* Properties *)

TypeOK ==
    /\ typed \in 0 .. MaxBytes
    /\ wire \in Seq([n : 1 .. MaxBytes, code : Codes, released : BOOLEAN])
    /\ key \in Key
    /\ mode \in {"run", "spin", "panic"}
    /\ pc \in [Procs -> {"poll", "polled", "read", "test", "any"}]
    /\ rax \in [Procs -> 0 .. 5]
    /\ buf \in [Procs -> Key]
    /\ was \in [Procs -> {DEVICE_READY, DEVICE_BUSY}]
    /\ reads \in Seq(1 .. MaxBytes)
    /\ shown \in [Inits -> Seq(1 .. MaxBytes)]

Increasing(s) == \A k, l \in DOMAIN s : k < l => s[k] < s[l]

\* The interrupt overwrites the one-key buffer while processes poll and read it:
\* over all processes together, a key is handed out at most once and keys are
\* handed out in the order they were typed.
EachKeyOnce == Increasing(reads)

\* init does not look at what poll says and reads without waiting; still it
\* prints only keys that were typed, each once and in order, never the stale or
\* uninitialized contents of its own key.
ShownWereTyped ==
    \A p \in Inits :
        /\ Increasing(shown[p])
        /\ \A k \in DOMAIN shown[p] : \E l \in DOMAIN reads : reads[l] = shown[p][k]

\* A key that is in the buffer does not stay there: some process reads it or the
\* next key replaces it, as long as the machine runs.
KeyIsTaken ==
    \A n \in 1 .. MaxBytes :
        (key.n = n /\ key.sym # "NULL") ~> (key.n # n \/ key.sym = "NULL" \/ mode # "run")

\* sysroot/init/main.c:10 waits "while (poll(1) == DEVICE_BUSY)": what poll
\* returns is what the device's poll function answered.
PollTellsTheTruth ==
    \A p \in Inits : pc[p] = "polled" => rax[p] = was[p]
================================================================================
