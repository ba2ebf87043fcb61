---------------------------------- MODULE Boot ----------------------------------
(***************************************************************************)
(* sys_entry (main.c) against the interrupts it turns on.  Each C function *)
(* that boot calls is the sequence of its steps that matter to interrupts: *)
(* masking, unmasking, loading the IDT, programming the PIC, registering a *)
(* handler, taking and releasing stdout_lock, giving up.  The boot thread  *)
(* executes sys_entry step by step and is interrupted between any two      *)
(* steps when the interrupt flag and the PIC allow it.                     *)
(*                                                                         *)
(* Of the IRQ lines, 0 (timer) and 1 (keyboard) are modelled; the second   *)
(* PIC is left out.  The boot loader hands over with interrupts disabled,  *)
(* no usable IDT and every IRQ masked.                                     *)
(***************************************************************************)
EXTENDS Integers, Sequences

CONSTANTS
    Debug,       \* the kernel is built with _DEBUG
    MaxKeys      \* bound: bytes the keyboard ever sends

ASSUME BootAssumption == Debug \in BOOLEAN /\ MaxKeys \in Nat

IRQ == {0, 1}

--------------------------------------------------------------------------------
(* What boot does *)

Step(op) == <<[op |-> op, irq |-> 0]>>
StepOf(op, irq) == <<[op |-> op, irq |-> irq]>>

\* printf and the macros built on it; DEBUG is empty without _DEBUG.
PRINT == Step("lock") \o Step("unlock")
DEBUG == IF Debug THEN PRINT ELSE << >>

\* The subsystem's functions and tests, of which one outcome is an error.
CHECK == Step("check")

\* A last message, then hcf.
GIVE_UP == PRINT \o Step("hcf")

\* What boot does when a CHECK fails: one ERROR for all that there may be, INFO with
\* their number, and giving up.
FAILURE == PRINT \o PRINT \o GIVE_UP

pic_set_mask == Step("mask") \o DEBUG                  \* with 0xFFFF
pic_mask(irq) == DEBUG \o StepOf("mask1", irq) \o DEBUG
pic_unmask(irq) == DEBUG \o StepOf("unmask", irq) \o DEBUG
pic_configure == DEBUG \o pic_set_mask \o Step("icw1") \o Step("icw2") \o pic_set_mask \o DEBUG
pic_disable == DEBUG \o pic_set_mask
pic_enable == DEBUG \o pic_configure \o pic_set_mask
pic_init == DEBUG \o pic_configure \o pic_mask(0) \o pic_mask(1) \o DEBUG

\* Mutant: the PIC is programmed before the IDT is loaded.
idt_initLate == pic_disable \o pic_enable \o Step("lidt") \o DEBUG

idt_init == pic_disable \o Step("lidt") \o pic_enable \o DEBUG

idt_irq_register(irq) == StepOf("register", irq) \o DEBUG

read_register == Step("cli") \o Step("sti")
write_register == Step("cli") \o Step("sti")
rtc_init == Step("cli") \o read_register \o write_register \o Step("sti")

\* Framebuffer, terminal and the kernel's revision.
graphics == Step("probe")
gdt_init == DEBUG \o PRINT

\* PMM, VMM and VFS with their tests.
memory == DEBUG \o CHECK \o PRINT \o CHECK \o PRINT \o CHECK \o PRINT

device_register == DEBUG
stdin_init == idt_irq_register(1)

\* Mutant: a message is printed before the handler is there.
timer_initVerbose == pic_unmask(0) \o PRINT \o idt_irq_register(0)

timer_init == pic_unmask(0) \o idt_irq_register(0)

scheduler_create_elf_process == DEBUG \o Step("create")

sys_entry ==
    graphics \o rtc_init \o PRINT \o gdt_init \o idt_init \o pic_init \o PRINT \o memory
    \o pic_unmask(1) \o device_register \o stdin_init \o device_register
    \o timer_init \o scheduler_create_elf_process

Ops == {"lock", "unlock", "check", "probe", "hcf", "mask", "mask1", "unmask", "icw1", "icw2",
        "lidt", "register", "cli", "sti", "create"}

--------------------------------------------------------------------------------
VARIABLES
    code,          \* what is left of sys_entry; hlt() when it is empty
    flag,          \* the CPU's interrupt flag
    idt,           \* the IDT is loaded
    _pic_mask,     \* pic.c: the IRQs the kernel has masked
    imr, irr, isr, \* the PIC: masked, requested and in-service IRQs
    remapped,      \* the PIC's vectors start at IRQ_BASE
    irq_handlers,  \* IRQs with a handler
    stack,         \* interrupts being handled, the innermost first
    lock,          \* stdout_lock is held
    published,     \* init is in the process table
    switched,      \* the CPU has left the boot thread for a process
    mode,          \* "run", "spin", "halt", "panic" or "reset" (no IDT to take it)
    typed, bytes,  \* bytes sent by the keyboard, and waiting in its controller
    tooSoon,       \* a byte was sent before its handler was registered
    masked         \* an IRQ was taken that the kernel had masked

pic == <<_pic_mask, imr, irr, isr, remapped>>
keyboard == <<typed, bytes, tooSoon>>
vars == <<code, flag, idt, pic, irq_handlers, stack, lock, published, switched, mode,
          keyboard, masked>>

Init ==
    /\ code = sys_entry
    /\ flag = FALSE /\ idt = FALSE
    /\ _pic_mask = IRQ /\ imr = IRQ /\ irr = {} /\ isr = {} /\ remapped = FALSE
    /\ irq_handlers = {} /\ stack = << >>
    /\ lock = FALSE /\ published = FALSE /\ switched = FALSE
    /\ mode = "run"
    /\ typed = 0 /\ bytes = 0 /\ tooSoon = FALSE /\ masked = FALSE

--------------------------------------------------------------------------------
(* The boot thread *)

\* The boot thread runs and its next step is op.
At(op) == mode = "run" /\ stack = << >> /\ ~switched /\ code # << >> /\ Head(code).op = op
irqArg == Head(code).irq
Done == code' = Tail(code)

Lock ==
    /\ At("lock")
    /\ IF lock THEN mode' = "spin" /\ UNCHANGED <<code, lock>>
               ELSE lock' = TRUE /\ Done /\ UNCHANGED mode
    /\ UNCHANGED <<flag, idt, pic, irq_handlers, stack, published, switched, keyboard, masked>>

Unlock ==
    /\ At("unlock") /\ Done
    /\ lock' = FALSE
    /\ UNCHANGED <<flag, idt, pic, irq_handlers, stack, published, switched, mode, keyboard,
                   masked>>

Check ==
    /\ \/ (At("check") \/ At("probe")) /\ Done
       \/ At("check") /\ code' = FAILURE
       \/ At("probe") /\ code' = GIVE_UP
    /\ UNCHANGED <<flag, idt, pic, irq_handlers, stack, lock, published, switched, mode,
                   keyboard, masked>>

\* hcf() waits with interrupts disabled.
Hcf ==
    /\ At("hcf") /\ Done
    /\ mode' = "halt"
    /\ UNCHANGED <<flag, idt, pic, irq_handlers, stack, lock, published, switched, keyboard,
                   masked>>

NewMask == CASE Head(code).op = "mask" -> IRQ
             [] Head(code).op = "mask1" -> _pic_mask \cup {irqArg}
             [] Head(code).op = "unmask" -> _pic_mask \ {irqArg}

SetMask ==
    /\ At("mask") \/ At("mask1") \/ At("unmask")
    /\ Done
    /\ _pic_mask' = NewMask /\ imr' = NewMask
    /\ UNCHANGED <<flag, idt, irr, isr, remapped, irq_handlers, stack, lock, published,
                   switched, mode, keyboard, masked>>

\* The first initialization word clears the PIC's mask and its requests.
Icw1 ==
    /\ At("icw1") /\ Done
    /\ imr' = {} /\ irr' = {} /\ isr' = {} /\ remapped' = FALSE
    /\ UNCHANGED <<flag, idt, _pic_mask, irq_handlers, stack, lock, published, switched,
                   mode, keyboard, masked>>

Icw2 ==
    /\ At("icw2") /\ Done
    /\ remapped' = TRUE
    /\ UNCHANGED <<flag, idt, _pic_mask, imr, irr, isr, irq_handlers, stack, lock, published,
                   switched, mode, keyboard, masked>>

\* idt_load ends with sti.
Lidt ==
    /\ At("lidt") /\ Done
    /\ idt' = TRUE /\ flag' = TRUE
    /\ UNCHANGED <<pic, irq_handlers, stack, lock, published, switched, mode, keyboard, masked>>

Flag ==
    /\ At("cli") \/ At("sti")
    /\ Done
    /\ flag' = At("sti")
    /\ UNCHANGED <<idt, pic, irq_handlers, stack, lock, published, switched, mode, keyboard,
                   masked>>

Register ==
    /\ At("register") /\ Done
    /\ irq_handlers' = irq_handlers \cup {irqArg}
    /\ UNCHANGED <<flag, idt, pic, stack, lock, published, switched, mode, keyboard, masked>>

\* Either init is published, or an ERROR is printed and boot goes on.
Create ==
    /\ At("create")
    /\ \/ published' = TRUE /\ Done
       \/ published' = published /\ code' = PRINT \o Tail(code)
    /\ UNCHANGED <<flag, idt, pic, irq_handlers, stack, lock, switched, mode, keyboard, masked>>

\* hlt() loops around the instruction, which waits for an interrupt.
Hlt == mode = "run" /\ stack = << >> /\ ~switched /\ code = << >> /\ UNCHANGED vars

BootStep == \/ Lock \/ Unlock \/ Check \/ Hcf \/ SetMask \/ Icw1 \/ Icw2 \/ Lidt \/ Flag
            \/ Register \/ Create \/ Hlt

--------------------------------------------------------------------------------
(* The devices.  A device raises its line on an edge; the keyboard's controller *)
(* makes one only when its output buffer goes from empty to full.               *)

\* The PIT's period is longer than its handler, so no tick comes while one is handled.
TimerEdge ==
    /\ mode = "run" /\ 0 \notin irr /\ \A k \in DOMAIN stack : stack[k].irq # 0
    /\ irr' = irr \cup {0}
    /\ UNCHANGED <<code, flag, idt, _pic_mask, imr, isr, remapped, irq_handlers, stack, lock,
                   published, switched, mode, keyboard, masked>>

KeyPress ==
    /\ mode = "run" /\ typed < MaxKeys
    /\ typed' = typed + 1 /\ bytes' = bytes + 1
    /\ tooSoon' = (tooSoon \/ 1 \notin irq_handlers)
    /\ irr' = IF bytes = 0 THEN irr \cup {1} ELSE irr
    /\ UNCHANGED <<code, flag, idt, _pic_mask, imr, isr, remapped, irq_handlers, stack, lock,
                   published, switched, mode, masked>>

--------------------------------------------------------------------------------
(* Taking and handling an interrupt *)

\* Mutant: the gates and the stubs leave interrupts enabled.
FlagInHandlerOn == TRUE

FlagInHandler == FALSE      \* interrupt gates, and cli in every stub

\* The PIC lets irq through when it is not masked and no interrupt of the same or a
\* higher priority is requested or in service.
Grants(irq) ==
    /\ irq \in irr \ imr
    /\ \A other \in irr \ imr : irq <= other
    /\ \A other \in isr : irq < other

Deliver(irq) ==
    /\ mode = "run" /\ flag /\ Grants(irq)
    /\ irr' = irr \ {irq} /\ isr' = isr \cup {irq}
    /\ flag' = FlagInHandler
    /\ stack' = <<[irq |-> irq, at |-> IF remapped THEN "handler" ELSE "exception"]>> \o stack
    /\ mode' = IF idt THEN "run" ELSE "reset"
    /\ masked' = (masked \/ irq \in _pic_mask)
    /\ UNCHANGED <<code, idt, _pic_mask, imr, remapped, irq_handlers, lock, published,
                   switched, keyboard>>

Handling(at) == mode = "run" /\ stack # << >> /\ Head(stack).at = at
irqNow == Head(stack).irq
Continue(at) == stack' = [stack EXCEPT ![1].at = at]

\* Mutant: end of interrupt is never signalled.
EndedNot(s) == s

\* pic_send_end_of_interrupt: the PIC ends the in-service IRQ of highest priority.
Ended(s) == {irq \in s : \E other \in s : other < irq}

\* Mutant: the controller's data port is read twice.
ReadTwice(n) == n - 2

ReadData(n) == n - 1        \* inb(PS2_DATA)

\* idt_handler for a registered IRQ: keyboard_handler, or timer_interrupt_handler with
\* its context switch; both signal end of interrupt.
Handler ==
    /\ Handling("handler") /\ irqNow \in irq_handlers
    /\ IF irqNow = 1
       THEN /\ bytes' = ReadData(bytes)
            /\ irr' = IF bytes' > 0 THEN irr \cup {1} ELSE irr
            /\ UNCHANGED switched
       ELSE /\ switched' = (switched \/ published)
            /\ UNCHANGED <<bytes, irr>>
    /\ isr' = Ended(isr)
    /\ Continue("eoi")
    /\ UNCHANGED <<code, flag, idt, _pic_mask, imr, remapped, irq_handlers, lock, published,
                   mode, typed, tooSoon, masked>>

\* WARN("... interrupt ignored"): the printf takes stdout_lock.
Ignore ==
    /\ Handling("handler") /\ irqNow \notin irq_handlers
    /\ IF lock THEN mode' = "spin" /\ UNCHANGED stack
               ELSE mode' = mode /\ Continue("eoi")
    /\ UNCHANGED <<code, flag, idt, pic, irq_handlers, lock, published, switched, keyboard,
                   masked>>

\* idt_handler signals end of interrupt after every IRQ, a second time if a handler did.
EndOfInterrupt ==
    /\ Handling("eoi")
    /\ isr' = Ended(isr)
    /\ Continue("iret")
    /\ UNCHANGED <<code, flag, idt, _pic_mask, imr, irr, remapped, irq_handlers, lock,
                   published, switched, mode, keyboard, masked>>

\* An IRQ on an exception's vector: the kernel panics, or warns and signals no end of
\* interrupt if the exception is not fatal; either prints.
Exception ==
    /\ Handling("exception")
    /\ \/ mode' = (IF lock THEN "spin" ELSE "panic") /\ UNCHANGED stack
       \/ ~lock /\ mode' = mode /\ Continue("iret")
    /\ UNCHANGED <<code, flag, idt, pic, irq_handlers, lock, published, switched, keyboard,
                   masked>>

Iret ==
    /\ Handling("iret")
    /\ stack' = Tail(stack) /\ flag' = TRUE
    /\ UNCHANGED <<code, idt, pic, irq_handlers, lock, published, switched, mode, keyboard,
                   masked>>

Interrupt == Handler \/ Ignore \/ EndOfInterrupt \/ Exception \/ Iret

--------------------------------------------------------------------------------
\* A process makes a system call that prints, such as one on a device that is not
\* registered.
Process ==
    /\ mode = "run" /\ stack = << >> /\ switched
    /\ mode' = IF lock THEN "spin" ELSE "run"
    /\ UNCHANGED <<code, flag, idt, pic, irq_handlers, stack, lock, published, switched,
                   keyboard, masked>>

Stopped == mode # "run" /\ UNCHANGED vars

Next ==
    \/ BootStep \/ TimerEdge \/ KeyPress \/ Interrupt \/ Process \/ Stopped
    \/ \E irq \in IRQ : Deliver(irq)

\* The PIT keeps ticking, and handlers are much shorter than its period: between two
\* ticks the interrupted thread runs and a pending interrupt of lower priority is
\* taken.  Nothing is assumed of the keyboard.
Spec ==
    /\ Init /\ [][Next]_vars
    /\ WF_vars(TimerEdge) /\ WF_vars(Interrupt)
    /\ SF_vars(BootStep) /\ \A irq \in IRQ : SF_vars(Deliver(irq))

--------------------------------------------------------------------------------
(* Properties *)

TypeOK ==
    /\ code \in Seq([op : Ops, irq : IRQ])
    /\ flag \in BOOLEAN /\ idt \in BOOLEAN /\ remapped \in BOOLEAN
    /\ _pic_mask \subseteq IRQ /\ imr \subseteq IRQ /\ irr \subseteq IRQ /\ isr \subseteq IRQ
    /\ irq_handlers \subseteq IRQ
    /\ stack \in Seq([irq : IRQ, at : {"handler", "exception", "eoi", "iret"}])
    /\ lock \in BOOLEAN /\ published \in BOOLEAN /\ switched \in BOOLEAN
    /\ mode \in {"run", "spin", "halt", "panic", "reset"}
    /\ typed \in 0 .. MaxKeys /\ bytes \in 0 .. MaxKeys
    /\ tooSoon \in BOOLEAN /\ masked \in BOOLEAN

\* printf holds a spinlock with interrupts enabled and interrupt code prints too:
\* still nobody ever spins on a lock whose holder cannot run.  (The order of
\* unmasking, registering and printing at the end of sys_entry.)
NeverSpins == mode # "spin"

\* rtc_init enables interrupts long before the IDT is loaded, and programming the
\* PIC unmasks every IRQ: still no interrupt is taken without an IDT.
NeverResets == mode # "reset"

\* Handlers signal end of interrupt and idt_handler signals it again, without naming
\* the IRQ: neither ever ends an interrupt other than the one being handled, unless
\* an interrupt was taken while the PIC was being programmed.
EndsItsOwn == [][~masked => \A irq \in isr \ isr' : irq = irqNow]_vars

\* Once init is published the timer interrupt reaches the scheduler and the CPU
\* leaves the boot thread, unless an interrupt was taken while the PIC was being
\* programmed.
InitGetsTheCpu == published ~> (switched \/ masked)

\* Every byte the keyboard sends is read and the controller drained, provided none
\* was sent before stdin_init and no interrupt was taken while the PIC was being
\* programmed.
KeysAreRead == bytes > 0 ~> (bytes = 0 \/ tooSoon \/ masked)

\* "Mask all IRQs initially", pic.c:73: no IRQ is taken that the kernel has masked.
MaskedStaysQuiet == ~masked
================================================================================
