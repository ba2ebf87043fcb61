------------------------------- MODULE BootProofs -------------------------------
(***************************************************************************)
(* Proofs about boot.  What boot relies on is the order of the steps of    *)
(* sys_entry: the IDT is loaded before the PIC is programmed, the PIC      *)
(* before an IRQ is unmasked, a handler registered before anything is      *)
(* printed.  Each of these is one fact about the machine that some steps   *)
(* establish, some break and some rely on; sequences of steps are reasoned *)
(* about like programs, with the fact before and after them.               *)
(***************************************************************************)
EXTENDS Boot, SequenceTheorems, TLAPS

Instr == [op : Ops, irq : IRQ]

\* The steps that perform one of ops.
Performs(ops) == {x \in Instr : x.op \in ops}

\* Sequences over fewer steps are sequences over more.
LEMMA MoreOps ==
    ASSUME NEW o1, NEW o2, o1 \subseteq o2, NEW s \in Seq(Performs(o1))
    PROVE  s \in Seq(Performs(o2))
<1>1. Performs(o1) \subseteq Performs(o2)
  BY DEF Performs
<1> QED BY <1>1

\* Such a sequence is a sequence of steps.
LEMMA MoreSteps == ASSUME NEW ops, NEW s \in Seq(Performs(ops)) PROVE s \in Seq(Instr)
<1>1. Performs(ops) \subseteq Instr
  BY DEF Performs
<1> QED BY <1>1

--------------------------------------------------------------------------------
(* Sequences of steps and one fact: the steps in E establish it, those in B     *)
(* break it, those in W rely on it.                                             *)

\* The fact is known after n steps of c, if p says whether it is known before them.
Known(c, E, B, p, n) ==
    \/ p /\ \A i \in 1 .. n : c[i] \notin B
    \/ \E j \in 1 .. n : c[j] \in E /\ \A i \in (j + 1) .. n : c[i] \notin B

\* Started with p, the fact is known before every step of c that relies on it, and
\* known after c if q says so.
Runs(c, E, B, W, p, q) ==
    /\ c \in Seq(Instr)
    /\ \A k \in 1 .. Len(c) : c[k] \in W => Known(c, E, B, p, k - 1)
    /\ q => Known(c, E, B, p, Len(c))

\* The elements of a concatenation.
LEMMA ConcatElements ==
    ASSUME NEW S, NEW s \in Seq(S), NEW t \in Seq(S)
    PROVE  /\ s \o t \in Seq(S)
           /\ Len(s) \in Nat /\ Len(t) \in Nat /\ Len(s \o t) = Len(s) + Len(t)
           /\ \A k \in 1 .. Len(s) : (s \o t)[k] = s[k]
           /\ \A k \in 1 .. Len(t) : (s \o t)[Len(s) + k] = t[k]
BY ConcatProperties

\* What is known within the first part of a concatenation.
LEMMA KnownFirst ==
    ASSUME NEW S, NEW s \in Seq(S), NEW t \in Seq(S), NEW E, NEW B, NEW p \in BOOLEAN,
           NEW n \in 0 .. Len(s), Known(s, E, B, p, n)
    PROVE  Known(s \o t, E, B, p, n)
<1>1. /\ Len(s) \in Nat /\ \A k \in 1 .. Len(s) : (s \o t)[k] = s[k]
  BY ConcatElements
<1> DEFINE c == s \o t
<1>2. \A k \in 1 .. n : c[k] = s[k]
  BY <1>1
<1> HIDE DEF c
<1>3. CASE p /\ \A i \in 1 .. n : s[i] \notin B
  <2>1. p /\ \A i \in 1 .. n : c[i] \notin B
    BY <1>2, <1>3
  <2> QED BY <2>1 DEF Known, c
<1>4. CASE \E j \in 1 .. n : s[j] \in E /\ \A i \in (j + 1) .. n : s[i] \notin B
  <2>1. PICK j \in 1 .. n : s[j] \in E /\ \A i \in (j + 1) .. n : s[i] \notin B
    BY <1>4
  <2>2. c[j] \in E /\ \A i \in (j + 1) .. n : c[i] \notin B
    BY <1>1, <1>2, <2>1
  <2> QED BY <2>2 DEF Known, c
<1> QED BY <1>3, <1>4 DEF Known

\* What is known within the second part of a concatenation.
LEMMA KnownSecond ==
    ASSUME NEW S, NEW s \in Seq(S), NEW t \in Seq(S), NEW E, NEW B,
           NEW p \in BOOLEAN, NEW q \in BOOLEAN, q => Known(s, E, B, p, Len(s)),
           NEW n \in 0 .. Len(t), Known(t, E, B, q, n)
    PROVE  Known(s \o t, E, B, p, Len(s) + n)
<1> DEFINE c == s \o t
<1>1. /\ Len(s) \in Nat /\ Len(t) \in Nat
      /\ \A k \in 1 .. Len(s) : c[k] = s[k]
      /\ \A k \in 1 .. Len(t) : c[Len(s) + k] = t[k]
  BY ConcatElements
<1> HIDE DEF c
<1>2. \A i \in (Len(s) + 1) .. (Len(s) + n) :
          i - Len(s) \in 1 .. n /\ i - Len(s) \in 1 .. Len(t) /\ c[i] = t[i - Len(s)]
  <2> TAKE i \in (Len(s) + 1) .. (Len(s) + n)
  <2>1. i - Len(s) \in 1 .. n /\ i - Len(s) \in 1 .. Len(t) /\ Len(s) + (i - Len(s)) = i
    BY <1>1
  <2> QED BY <1>1, <2>1
<1>3. CASE q /\ \A i \in 1 .. n : t[i] \notin B
  <2>1. \A i \in (Len(s) + 1) .. (Len(s) + n) : c[i] \notin B
    BY <1>2, <1>3
  <2>2. CASE p /\ \A i \in 1 .. Len(s) : s[i] \notin B
    <3>1. \A i \in 1 .. (Len(s) + n) : c[i] \notin B
      BY <1>1, <2>1, <2>2
    <3> QED BY <2>2, <3>1 DEF Known, c
  <2>3. CASE \E j \in 1 .. Len(s) : s[j] \in E /\ \A i \in (j + 1) .. Len(s) : s[i] \notin B
    <3>1. PICK j \in 1 .. Len(s) : s[j] \in E /\ \A i \in (j + 1) .. Len(s) : s[i] \notin B
      BY <2>3
    <3>2. j \in 1 .. (Len(s) + n) /\ c[j] \in E
      BY <1>1, <3>1
    <3>3. \A i \in (j + 1) .. (Len(s) + n) : c[i] \notin B
      BY <1>1, <2>1, <3>1
    <3> QED BY <3>2, <3>3 DEF Known, c
  <2> QED BY <1>3, <2>2, <2>3 DEF Known
<1>4. CASE \E j \in 1 .. n : t[j] \in E /\ \A i \in (j + 1) .. n : t[i] \notin B
  <2>1. PICK j \in 1 .. n : t[j] \in E /\ \A i \in (j + 1) .. n : t[i] \notin B
    BY <1>4
  <2>2. Len(s) + j \in 1 .. (Len(s) + n) /\ c[Len(s) + j] \in E
    <3>1. j \in 1 .. Len(t) /\ Len(s) + j \in 1 .. (Len(s) + n)
      BY <1>1
    <3> QED BY <1>1, <2>1, <3>1
  <2>3. \A i \in (Len(s) + j + 1) .. (Len(s) + n) : c[i] \notin B
    <3> TAKE i \in (Len(s) + j + 1) .. (Len(s) + n)
    <3>1. i \in (Len(s) + 1) .. (Len(s) + n) /\ i - Len(s) \in (j + 1) .. n
      BY <1>1, <2>1
    <3> QED BY <1>2, <2>1, <3>1
  <2> QED BY <2>2, <2>3 DEF Known, c
<1> QED BY <1>3, <1>4 DEF Known

\* One sequence of steps after another.
LEMMA RunsConcat ==
    ASSUME NEW s, NEW t, NEW E, NEW B, NEW W,
           NEW p \in BOOLEAN, NEW q \in BOOLEAN, NEW r \in BOOLEAN,
           Runs(s, E, B, W, p, q), Runs(t, E, B, W, q, r)
    PROVE  Runs(s \o t, E, B, W, p, r)
<1> DEFINE c == s \o t
<1>0. s \in Seq(Instr) /\ t \in Seq(Instr)
  BY DEF Runs
<1>1. /\ Len(s) \in Nat /\ Len(t) \in Nat /\ Len(c) = Len(s) + Len(t)
      /\ \A k \in 1 .. Len(s) : c[k] = s[k]
      /\ \A k \in 1 .. Len(t) : c[Len(s) + k] = t[k]
      /\ c \in Seq(Instr)
  BY <1>0, ConcatElements
<1>2. q => Known(s, E, B, p, Len(s))
  BY DEF Runs
<1> HIDE DEF c
<1>3. ASSUME NEW k \in 1 .. Len(c), c[k] \in W PROVE Known(c, E, B, p, k - 1)
  <2>1. CASE k <= Len(s)
    <3>1. k \in 1 .. Len(s) /\ k - 1 \in 0 .. Len(s) /\ s[k] \in W
      BY <1>1, <1>3, <2>1
    <3>2. Known(s, E, B, p, k - 1)
      BY <3>1 DEF Runs
    <3> QED BY <1>0, <3>1, <3>2, KnownFirst DEF c
  <2>2. CASE k > Len(s)
    <3> DEFINE m == k - Len(s)
    <3>1. m \in 1 .. Len(t) /\ m - 1 \in 0 .. Len(t) /\ Len(s) + m = k
          /\ Len(s) + (m - 1) = k - 1
      BY <1>1, <1>3, <2>2
    <3> HIDE DEF m
    <3>2. t[m] \in W
      BY <1>1, <1>3, <3>1
    <3>3. Known(t, E, B, q, m - 1)
      BY <3>1, <3>2 DEF Runs
    <3>4. Known(s \o t, E, B, p, Len(s) + (m - 1))
      BY <1>0, <1>2, <3>1, <3>3, KnownSecond
    <3> QED BY <3>1, <3>4 DEF c
  <2> QED BY <1>1, <1>3, <2>1, <2>2
<1>4. ASSUME r PROVE Known(c, E, B, p, Len(c))
  <2>1. Known(t, E, B, q, Len(t)) /\ Len(t) \in 0 .. Len(t)
    BY <1>1, <1>4 DEF Runs
  <2>2. Known(s \o t, E, B, p, Len(s) + Len(t))
    BY <1>0, <1>2, <2>1, KnownSecond
  <2> QED BY <1>1, <2>2 DEF c
<1> QED BY <1>1, <1>3, <1>4 DEF Runs, c

\* Steps that break nothing keep what is known.
LEMMA Keeps ==
    ASSUME NEW ops, NEW s \in Seq(Performs(ops)), NEW E, NEW B, NEW W,
           Performs(ops) \cap B = {}
    PROVE  Runs(s, E, B, W, TRUE, TRUE)
<1>1. \A k \in 1 .. Len(s) : s[k] \notin B
  BY ElementOfSeq
<1>2. Len(s) \in Nat /\ s \in Seq(Instr)
  BY MoreSteps
<1> QED BY <1>1, <1>2 DEF Runs, Known

\* Steps that rely on nothing need nothing to be known.
LEMMA Ignores ==
    ASSUME NEW ops, NEW s \in Seq(Performs(ops)), NEW E, NEW B, NEW W, NEW p \in BOOLEAN,
           Performs(ops) \cap W = {}
    PROVE  Runs(s, E, B, W, p, FALSE)
<1>1. \A k \in 1 .. Len(s) : s[k] \notin W
  BY ElementOfSeq
<1> QED BY <1>1, MoreSteps DEF Runs

\* One step.
LEMMA RunsOne ==
    ASSUME NEW x \in Instr, NEW E, NEW B, NEW W, NEW p \in BOOLEAN, NEW q \in BOOLEAN,
           x \in W => p, q => (x \in E \/ (p /\ x \notin B))
    PROVE  Runs(<<x>>, E, B, W, p, q)
<1> DEFINE c == <<x>>
<1>1. Len(c) = 1 /\ c[1] = x /\ c \in Seq(Instr)
  OBVIOUS
<1> HIDE DEF c
<1>2. ASSUME NEW k \in 1 .. Len(c), c[k] \in W PROVE Known(c, E, B, p, k - 1)
  <2>1. k = 1 /\ p
    BY <1>1, <1>2
  <2> QED BY <2>1 DEF Known
<1>3. ASSUME q PROVE Known(c, E, B, p, Len(c))
  <2>1. CASE x \in E
    BY <1>1, <2>1 DEF Known
  <2>2. CASE p /\ x \notin B
    BY <1>1, <2>2 DEF Known
  <2> QED BY <1>3, <2>1, <2>2
<1> QED BY <1>1, <1>2, <1>3 DEF Runs, c

\* Knowing more at the start, or asking for less at the end, does no harm.
LEMMA RunsWeaker ==
    ASSUME NEW s, NEW E, NEW B, NEW W, NEW p \in BOOLEAN, NEW q \in BOOLEAN,
           NEW p1 \in BOOLEAN, NEW q1 \in BOOLEAN, p => p1, q1 => q,
           Runs(s, E, B, W, p, q)
    PROVE  Runs(s, E, B, W, p1, q1)
BY DEF Runs, Known

\* The first step, and what is left after it.
LEMMA RunsTail ==
    ASSUME NEW s, s # << >>, NEW E, NEW B, NEW W, NEW p \in BOOLEAN,
           Runs(s, E, B, W, p, FALSE)
    PROVE  /\ Head(s) \in W => p
           /\ Runs(Tail(s), E, B, W, TRUE, FALSE)
           /\ Head(s) \in E \/ (p /\ Head(s) \notin B) \/ Runs(Tail(s), E, B, W, FALSE, FALSE)
<1> DEFINE t == Tail(s)
<1>0. s \in Seq(Instr)
  BY DEF Runs
<1>1. /\ Len(s) \in Nat /\ Len(s) > 0 /\ Len(t) = Len(s) - 1 /\ Head(s) = s[1]
      /\ \A k \in 1 .. Len(t) : t[k] = s[k + 1]
      /\ t \in Seq(Instr)
  BY <1>0
<1> HIDE DEF t
<1>2. Head(s) \in W => p
  <2> SUFFICES ASSUME Head(s) \in W PROVE p
    OBVIOUS
  <2>1. Known(s, E, B, p, 1 - 1)
    BY <1>1 DEF Runs
  <2> QED BY <2>1 DEF Known
<1>3. ASSUME NEW k \in 1 .. Len(t), t[k] \in W
      PROVE  Known(t, E, B, TRUE, k - 1)
             /\ (Head(s) \in E \/ (p /\ Head(s) \notin B) \/ Known(t, E, B, FALSE, k - 1))
  <2>1. k + 1 \in 1 .. Len(s) /\ s[k + 1] \in W /\ (k + 1) - 1 = k
    BY <1>1, <1>3
  <2>2. Known(s, E, B, p, k)
    BY <2>1 DEF Runs
  <2>3. \A i \in 1 .. (k - 1) : t[i] = s[i + 1]
    BY <1>1
  <2>4. CASE p /\ \A i \in 1 .. k : s[i] \notin B
    <3>1. \A i \in 1 .. (k - 1) : t[i] \notin B
      BY <2>3, <2>4
    <3>2. Head(s) \notin B
      BY <1>1, <2>4
    <3> QED BY <2>4, <3>1, <3>2 DEF Known
  <2>5. CASE \E j \in 1 .. k : s[j] \in E /\ \A i \in (j + 1) .. k : s[i] \notin B
    <3>1. PICK j \in 1 .. k : s[j] \in E /\ \A i \in (j + 1) .. k : s[i] \notin B
      BY <2>5
    <3>2. CASE j = 1
      <4>1. \A i \in 1 .. (k - 1) : t[i] \notin B
        BY <2>3, <3>1, <3>2
      <4> QED BY <1>1, <3>1, <3>2, <4>1 DEF Known
    <3>3. CASE j > 1
      <4>1. j - 1 \in 1 .. (k - 1) /\ t[j - 1] \in E
        BY <2>3, <3>1, <3>3
      <4>2. \A i \in ((j - 1) + 1) .. (k - 1) : t[i] \notin B
        BY <2>3, <3>1, <3>3
      <4> QED BY <4>1, <4>2 DEF Known
    <3>4. j = 1 \/ j > 1
      BY <1>1
    <3> QED BY <3>2, <3>3, <3>4
  <2> QED BY <2>2, <2>4, <2>5 DEF Known
<1> QED BY <1>1, <1>2, <1>3 DEF Runs, t

--------------------------------------------------------------------------------
(* The steps of sys_entry *)

PrintOps == {"lock", "unlock"}

\* What printing and the tests do.
LEMMA PrintSteps ==
    /\ PRINT \in Seq(Performs(PrintOps)) /\ DEBUG \in Seq(Performs(PrintOps))
    /\ CHECK \in Seq(Performs({"check"}))
<1>1. /\ Step("lock") \in Seq(Performs(PrintOps)) /\ Step("unlock") \in Seq(Performs(PrintOps))
      /\ CHECK \in Seq(Performs({"check"}))
  BY DEF Step, CHECK, Performs, PrintOps, Instr, Ops, IRQ
<1>2. PRINT \in Seq(Performs(PrintOps))
  BY <1>1 DEF PRINT
<1>3. DEBUG \in Seq(Performs(PrintOps))
  BY <1>2 DEF DEBUG
<1> QED BY <1>1, <1>2, <1>3

FailureOps == {"lock", "unlock", "hcf"}

\* What boot does when it gives up.
LEMMA FailureSteps == GIVE_UP \in Seq(Performs(FailureOps)) /\ FAILURE \in Seq(Performs(FailureOps))
<1> DEFINE F == Performs(FailureOps)
<1>1. PRINT \in Seq(F)
  BY PrintSteps, MoreOps DEF PrintOps, FailureOps
<1>2. Step("hcf") \in Seq(F)
  BY DEF Step, Performs, FailureOps, Instr, Ops, IRQ
<1> HIDE DEF F
<1>3. GIVE_UP \in Seq(F)
  BY <1>1, <1>2 DEF GIVE_UP
<1>4. FAILURE \in Seq(F)
  BY <1>1, <1>3 DEF FAILURE
<1> QED BY <1>3, <1>4 DEF F

MaskOps == {"lock", "unlock", "mask", "mask1"}

\* What each function of pic.c does.
LEMMA PicSteps ==
    /\ pic_set_mask \in Seq(Performs(MaskOps))
    /\ \A irq \in IRQ : pic_mask(irq) \in Seq(Performs(MaskOps))
    /\ \A irq \in IRQ : pic_unmask(irq) \in Seq(Performs({"lock", "unlock", "unmask"}))
    /\ pic_configure \in Seq(Performs(MaskOps \cup {"icw1", "icw2"}))
    /\ pic_disable \in Seq(Performs(MaskOps))
    /\ pic_enable \in Seq(Performs(MaskOps \cup {"icw1", "icw2"}))
    /\ pic_init \in Seq(Performs(MaskOps \cup {"icw1", "icw2"}))
<1> DEFINE C == Performs(MaskOps \cup {"icw1", "icw2"})
           U == Performs({"lock", "unlock", "unmask"})
           M == Performs(MaskOps)
<1>1. DEBUG \in Seq(M) /\ DEBUG \in Seq(U) /\ DEBUG \in Seq(C)
  BY PrintSteps, MoreOps DEF PrintOps, MaskOps
<1>2. /\ Step("mask") \in Seq(M)
      /\ Step("icw1") \in Seq(C) /\ Step("icw2") \in Seq(C)
  BY DEF Step, Performs, MaskOps, Instr, Ops, IRQ
<1>3. \A irq \in IRQ : StepOf("mask1", irq) \in Seq(M) /\ StepOf("unmask", irq) \in Seq(U)
  BY DEF StepOf, Performs, MaskOps, Instr, Ops
<1>4. M \subseteq C
  BY DEF Performs
<1> HIDE DEF M, C, U
<1>5. pic_set_mask \in Seq(M)
  BY <1>1, <1>2 DEF pic_set_mask
<1>6. \A irq \in IRQ : pic_mask(irq) \in Seq(M) /\ pic_unmask(irq) \in Seq(U)
  BY <1>1, <1>3 DEF pic_mask, pic_unmask
<1>7. pic_set_mask \in Seq(C) /\ \A irq \in IRQ : pic_mask(irq) \in Seq(C)
  BY <1>4, <1>5, <1>6
<1>8. pic_configure \in Seq(C) /\ pic_disable \in Seq(M)
  BY <1>1, <1>2, <1>5, <1>7 DEF pic_configure, pic_disable
<1>9. pic_enable \in Seq(C)
  BY <1>1, <1>7, <1>8 DEF pic_enable
<1>10. pic_init \in Seq(C)
  BY <1>1, <1>7, <1>8 DEF pic_init, IRQ
<1> QED BY <1>5, <1>6, <1>8, <1>9, <1>10 DEF M, C, U

FirstOps == {"probe", "cli", "sti", "lock", "unlock"}

\* What boot does before it touches the PIC.
first == graphics \o rtc_init \o PRINT \o gdt_init

\* What it does until it has set up interrupts and memory.
middle == first \o idt_init \o pic_init \o PRINT \o memory

\* What the other functions do, the device manager's and the scheduler's.
LEMMA OtherSteps ==
    /\ first \in Seq(Performs(FirstOps))
    /\ memory \in Seq(Performs({"check", "lock", "unlock"}))
    /\ device_register \in Seq(Performs(PrintOps))
    /\ \A irq \in IRQ : idt_irq_register(irq) \in Seq(Performs({"lock", "unlock", "register"}))
    /\ scheduler_create_elf_process \in Seq(Performs({"lock", "unlock", "create"}))
<1> DEFINE F == Performs(FirstOps)
           M == Performs({"check", "lock", "unlock"})
           R == Performs({"lock", "unlock", "register"})
           C == Performs({"lock", "unlock", "create"})
<1>1. /\ PRINT \in Seq(F) /\ DEBUG \in Seq(F) /\ PRINT \in Seq(M) /\ DEBUG \in Seq(M)
      /\ DEBUG \in Seq(R) /\ DEBUG \in Seq(C) /\ CHECK \in Seq(M)
  <2>1. /\ PrintOps \subseteq FirstOps /\ PrintOps \subseteq {"check", "lock", "unlock"}
        /\ PrintOps \subseteq {"lock", "unlock", "register"}
        /\ PrintOps \subseteq {"lock", "unlock", "create"}
        /\ {"check"} \subseteq {"check", "lock", "unlock"}
    BY DEF PrintOps, FirstOps
  <2> QED BY <2>1, PrintSteps, MoreOps
<1>2. /\ Step("probe") \in Seq(F) /\ Step("cli") \in Seq(F) /\ Step("sti") \in Seq(F)
      /\ Step("create") \in Seq(C)
  BY DEF Step, Performs, FirstOps, Instr, Ops, IRQ
<1>3. \A irq \in IRQ : StepOf("register", irq) \in Seq(R)
  BY DEF StepOf, Performs, Instr, Ops
<1> HIDE DEF F, M, R, C
<1>4. rtc_init \in Seq(F)
  <2>1. read_register \in Seq(F) /\ write_register \in Seq(F)
    BY <1>2 DEF read_register, write_register
  <2> QED BY <1>2, <2>1 DEF rtc_init
<1>5. first \in Seq(F)
  BY <1>1, <1>2, <1>4 DEF first, graphics, gdt_init
<1>6. memory \in Seq(M)
  <2>1. DEBUG \o CHECK \o PRINT \in Seq(M)
    BY <1>1
  <2>2. DEBUG \o CHECK \o PRINT \o CHECK \o PRINT \in Seq(M)
    BY <1>1, <2>1
  <2> QED BY <1>1, <2>2 DEF memory
<1>7. \A irq \in IRQ : idt_irq_register(irq) \in Seq(R)
  BY <1>1, <1>3 DEF idt_irq_register
<1>8. scheduler_create_elf_process \in Seq(C)
  BY <1>1, <1>2 DEF scheduler_create_elf_process
<1> QED BY <1>5, <1>6, <1>7, <1>8, PrintSteps DEF F, M, R, C, device_register

MiddleOps == FirstOps \cup MaskOps \cup {"check", "lidt", "icw1", "icw2"}
RestOps == {"lock", "unlock", "unmask", "register", "create"}

\* IRQs are unmasked and handlers registered only after memory is set up, and the PIC
\* is programmed only before.
LEMMA PartSteps ==
    /\ middle \in Seq(Performs(MiddleOps)) /\ pic_unmask(1) \in Seq(Performs(RestOps))
    /\ device_register \in Seq(Performs(RestOps)) /\ stdin_init \in Seq(Performs(RestOps))
    /\ timer_init \in Seq(Performs(RestOps))
    /\ scheduler_create_elf_process \in Seq(Performs(RestOps))
<1> DEFINE M == Performs(MiddleOps)
           R == Performs(RestOps)
<1>1. /\ first \in Seq(M) /\ pic_disable \in Seq(M) /\ pic_enable \in Seq(M)
      /\ DEBUG \in Seq(M) /\ pic_init \in Seq(M) /\ PRINT \in Seq(M) /\ memory \in Seq(M)
  <2>1. /\ FirstOps \subseteq MiddleOps /\ MaskOps \subseteq MiddleOps
        /\ MaskOps \cup {"icw1", "icw2"} \subseteq MiddleOps
        /\ PrintOps \subseteq MiddleOps /\ {"check", "lock", "unlock"} \subseteq MiddleOps
    BY DEF PrintOps, FirstOps, MaskOps, MiddleOps
  <2> QED BY <2>1, PrintSteps, PicSteps, OtherSteps, MoreOps
<1>2. Step("lidt") \in Seq(M)
  BY DEF Step, Performs, MiddleOps, Instr, Ops, IRQ
<1>3. /\ \A irq \in IRQ : pic_unmask(irq) \in Seq(R) /\ idt_irq_register(irq) \in Seq(R)
      /\ device_register \in Seq(R) /\ scheduler_create_elf_process \in Seq(R)
  <2>1. /\ PrintOps \subseteq RestOps /\ {"lock", "unlock", "unmask"} \subseteq RestOps
        /\ {"lock", "unlock", "register"} \subseteq RestOps
        /\ {"lock", "unlock", "create"} \subseteq RestOps
    BY DEF PrintOps, RestOps
  <2> QED BY <2>1, PicSteps, OtherSteps, MoreOps
<1> HIDE DEF M, R
<1>4. idt_init \in Seq(M)
  BY <1>1, <1>2 DEF idt_init
<1>5. middle \in Seq(M)
  BY <1>1, <1>4 DEF middle
<1>6. pic_unmask(1) \in Seq(R) /\ stdin_init \in Seq(R) /\ timer_init \in Seq(R)
  BY <1>3 DEF stdin_init, timer_init, IRQ
<1> QED BY <1>3, <1>5, <1>6 DEF M, R

\* sys_entry, with its beginning named.
LEMMA EntryParts ==
    sys_entry = middle \o pic_unmask(1) \o device_register \o stdin_init \o device_register
                \o timer_init \o scheduler_create_elf_process
BY DEF sys_entry, middle, first

\* Every part of sys_entry is a sequence of steps.
LEMMA AllSteps ==
    /\ first \in Seq(Instr) /\ pic_disable \in Seq(Instr) /\ Step("lidt") \in Seq(Instr)
    /\ pic_enable \in Seq(Instr) /\ DEBUG \in Seq(Instr) /\ idt_init \in Seq(Instr)
    /\ pic_init \in Seq(Instr) /\ PRINT \in Seq(Instr) /\ memory \in Seq(Instr)
    /\ middle \in Seq(Instr) /\ device_register \in Seq(Instr) /\ stdin_init \in Seq(Instr)
    /\ \A irq \in IRQ : pic_unmask(irq) \in Seq(Instr) /\ idt_irq_register(irq) \in Seq(Instr)
    /\ timer_init \in Seq(Instr) /\ scheduler_create_elf_process \in Seq(Instr)
    /\ sys_entry \in Seq(Instr)
<1>1. \A ops : Performs(ops) \subseteq Instr
  BY DEF Performs
<1>2. \A ops : \A s \in Seq(Performs(ops)) : s \in Seq(Instr)
  BY <1>1
<1>3. /\ first \in Seq(Instr) /\ pic_disable \in Seq(Instr) /\ pic_enable \in Seq(Instr)
      /\ DEBUG \in Seq(Instr) /\ pic_init \in Seq(Instr) /\ PRINT \in Seq(Instr)
      /\ memory \in Seq(Instr) /\ device_register \in Seq(Instr)
      /\ \A irq \in IRQ : pic_unmask(irq) \in Seq(Instr) /\ idt_irq_register(irq) \in Seq(Instr)
      /\ scheduler_create_elf_process \in Seq(Instr)
  BY <1>2, PrintSteps, PicSteps, OtherSteps
<1>4. Step("lidt") \in Seq(Instr)
  BY DEF Step, Instr, Ops, IRQ
<1>5. idt_init \in Seq(Instr)
  BY <1>3, <1>4 DEF idt_init
<1>6. timer_init \in Seq(Instr) /\ stdin_init \in Seq(Instr)
  BY <1>3 DEF timer_init, stdin_init, IRQ
<1>7. middle \in Seq(Instr)
  BY <1>3, <1>5 DEF middle
<1>8. pic_unmask(1) \in Seq(Instr)
  BY <1>3 DEF IRQ
<1>9. middle \o pic_unmask(1) \o device_register \o stdin_init \in Seq(Instr)
  BY <1>3, <1>6, <1>7, <1>8
<1>10. sys_entry \in Seq(Instr)
  BY <1>3, <1>6, <1>9, EntryParts
<1> QED BY <1>3, <1>4, <1>5, <1>6, <1>7, <1>10

--------------------------------------------------------------------------------
(* What is known from one function of boot to the next *)

\* pic_configure
LEMMA ConfigureRuns ==
    ASSUME NEW E, NEW B, NEW W, NEW p \in BOOLEAN, NEW q \in BOOLEAN, NEW r \in BOOLEAN,
           Runs(DEBUG, E, B, W, p, p), Runs(pic_set_mask, E, B, W, p, q),
           Runs(Step("icw1") , E, B, W, q, FALSE), Runs(Step("icw2"), E, B, W, FALSE, r),
           Runs(pic_set_mask, E, B, W, r, TRUE), Runs(DEBUG, E, B, W, TRUE, TRUE)
    PROVE  Runs(pic_configure, E, B, W, p, TRUE)
<1>1. Runs(DEBUG \o pic_set_mask, E, B, W, p, q)
  BY RunsConcat
<1>2. Runs(DEBUG \o pic_set_mask \o Step("icw1"), E, B, W, p, FALSE)
  BY <1>1, RunsConcat
<1>3. Runs(DEBUG \o pic_set_mask \o Step("icw1") \o Step("icw2"), E, B, W, p, r)
  BY <1>2, RunsConcat
<1>4. Runs(DEBUG \o pic_set_mask \o Step("icw1") \o Step("icw2") \o pic_set_mask, E, B, W, p, TRUE)
  BY <1>3, RunsConcat
<1> QED BY <1>4, RunsConcat DEF pic_configure

\* pic_init
LEMMA PicInitRuns ==
    ASSUME NEW E, NEW B, NEW W, NEW p \in BOOLEAN,
           Runs(DEBUG, E, B, W, p, p), Runs(pic_configure, E, B, W, p, TRUE),
           Runs(pic_mask(0), E, B, W, TRUE, TRUE), Runs(pic_mask(1), E, B, W, TRUE, TRUE),
           Runs(DEBUG, E, B, W, TRUE, TRUE)
    PROVE  Runs(pic_init, E, B, W, p, TRUE)
<1>1. Runs(DEBUG \o pic_configure, E, B, W, p, TRUE)
  BY RunsConcat
<1>2. Runs(DEBUG \o pic_configure \o pic_mask(0), E, B, W, p, TRUE)
  BY <1>1, RunsConcat
<1>3. Runs(DEBUG \o pic_configure \o pic_mask(0) \o pic_mask(1), E, B, W, p, TRUE)
  BY <1>2, RunsConcat
<1> QED BY <1>3, RunsConcat DEF pic_init

\* idt_init
LEMMA IdtInitRuns ==
    ASSUME NEW E, NEW B, NEW W, NEW p \in BOOLEAN, NEW q \in BOOLEAN, NEW r \in BOOLEAN,
           Runs(pic_disable, E, B, W, p, p), Runs(Step("lidt"), E, B, W, p, q),
           Runs(pic_enable, E, B, W, q, r), Runs(DEBUG, E, B, W, r, r)
    PROVE  Runs(idt_init, E, B, W, p, r)
<1>1. Runs(pic_disable \o Step("lidt"), E, B, W, p, q)
  BY RunsConcat
<1>2. Runs(pic_disable \o Step("lidt") \o pic_enable, E, B, W, p, r)
  BY <1>1, RunsConcat
<1> QED BY <1>2, RunsConcat DEF idt_init

\* The beginning of sys_entry, until memory is set up.
LEMMA MiddleRuns ==
    ASSUME NEW E, NEW B, NEW W, NEW p \in BOOLEAN, NEW q \in BOOLEAN, NEW r \in BOOLEAN,
           Runs(first, E, B, W, p, p), Runs(idt_init, E, B, W, p, q),
           Runs(pic_init, E, B, W, q, r), Runs(PRINT, E, B, W, r, r),
           Runs(memory, E, B, W, r, r)
    PROVE  Runs(middle, E, B, W, p, r)
<1>1. Runs(first \o idt_init, E, B, W, p, q)
  BY RunsConcat
<1>2. Runs(first \o idt_init \o pic_init, E, B, W, p, r)
  BY <1>1, RunsConcat
<1>3. Runs(first \o idt_init \o pic_init \o PRINT, E, B, W, p, r)
  BY <1>2, RunsConcat
<1> QED BY <1>3, RunsConcat DEF middle

\* sys_entry
LEMMA EntryRuns ==
    ASSUME NEW E, NEW B, NEW W, NEW p \in BOOLEAN, NEW q \in BOOLEAN, NEW r \in BOOLEAN,
           NEW t \in BOOLEAN, NEW u \in BOOLEAN,
           Runs(middle, E, B, W, p, q), Runs(pic_unmask(1), E, B, W, q, r),
           Runs(device_register, E, B, W, r, r), Runs(stdin_init, E, B, W, r, t),
           Runs(device_register, E, B, W, t, t), Runs(timer_init, E, B, W, t, u),
           Runs(scheduler_create_elf_process, E, B, W, u, FALSE)
    PROVE  Runs(sys_entry, E, B, W, p, FALSE)
<1> DEFINE c1 == middle \o pic_unmask(1)
           c2 == c1 \o device_register
           c3 == c2 \o stdin_init
           c4 == c3 \o device_register
           c5 == c4 \o timer_init
<1>1. Runs(c1, E, B, W, p, r)
  BY RunsConcat
<1> HIDE DEF c1
<1>2. Runs(c2, E, B, W, p, r)
  BY <1>1, RunsConcat
<1> HIDE DEF c2
<1>3. Runs(c3, E, B, W, p, t)
  BY <1>2, RunsConcat
<1> HIDE DEF c3
<1>4. Runs(c4, E, B, W, p, t)
  BY <1>3, RunsConcat
<1> HIDE DEF c4
<1>5. Runs(c5, E, B, W, p, u)
  BY <1>4, RunsConcat
<1> HIDE DEF c5
<1>6. Runs(c5 \o scheduler_create_elf_process, E, B, W, p, FALSE)
  BY <1>5, RunsConcat
<1> QED BY <1>6, EntryParts DEF c1, c2, c3, c4, c5

--------------------------------------------------------------------------------
(* The order of boot's steps, one fact at a time *)

\* The IDT is loaded before the PIC is programmed and before an IRQ is unmasked.
IdtFirst(c, p, q) == Runs(c, Performs({"lidt"}), {}, Performs({"icw1", "unmask"}), p, q)

\* The PIC is programmed while every IRQ is masked.
MaskedFirst(c, p, q) == Runs(c, {}, Performs({"unmask"}), Performs({"icw1"}), p, q)

\* The PIC's vectors are set before an IRQ is unmasked and a handler registered.
RemapFirst(c, p, q) ==
    Runs(c, Performs({"icw2"}), Performs({"icw1"}), Performs({"unmask", "register"}), p, q)

\* The PIC is not programmed any more once there is a handler.
HandlersLast(c, p, q) == Runs(c, {}, Performs({"register"}), Performs({"icw1"}), p, q)

\* The steps that print, or whose failure is printed next.
Printers == {"lock", "create", "check", "probe"}

\* Nothing is printed once init is published.
CreateLast(c, p, q) == Runs(c, {}, Performs({"create"}), Performs(Printers), p, q)

\* stdout_lock is released by the step after the one that took it.
LockPairs(c, p, q) ==
    Runs(c, Performs({"unlock"}), Performs({"lock"}), Performs(Ops \ {"unlock"}), p, q)

\* Nothing is printed while IRQ i can come and has no handler.
QuietFirst(i, c, p, q) ==
    Runs(c, {x \in Instr : x.op = "mask" \/ (x.op \in {"mask1", "register"} /\ x.irq = i)},
            {x \in Instr : x.op = "icw1" \/ (x.op = "unmask" /\ x.irq = i)},
            Performs(Printers), p, q)

\* idt_init loads the IDT before it programs the PIC.
LEMMA IdtFirstEntry == IdtFirst(sys_entry, FALSE, FALSE)
<1> DEFINE E == Performs({"lidt"})
           W == Performs({"icw1", "unmask"})
<1>1. Performs(FirstOps) \cap W = {} /\ Performs(MaskOps) \cap W = {}
  BY DEF Performs, FirstOps, MaskOps
<1>2. Runs(first, E, {}, W, FALSE, FALSE) /\ Runs(pic_disable, E, {}, W, FALSE, FALSE)
  BY <1>1, OtherSteps, PicSteps, Ignores
<1>3. Runs(Step("lidt"), E, {}, W, FALSE, TRUE)
  <2> DEFINE x == [op |-> "lidt", irq |-> 0]
  <2>1. x \in Instr /\ x \in E /\ x \notin W
    BY DEF Performs, Instr, Ops, IRQ
  <2> HIDE DEF x, E, W
  <2>2. Runs(<<x>>, E, {}, W, FALSE, TRUE)
    BY <2>1, RunsOne
  <2> QED BY <2>2 DEF Step, x
<1>4. \A s \in Seq(Instr) : Runs(s, E, {}, W, TRUE, TRUE)
  <2>1. Performs(Ops) = Instr
    BY DEF Performs, Instr
  <2> QED BY <2>1, Keeps
<1> HIDE DEF E, W
<1>5. Runs(idt_init, E, {}, W, FALSE, TRUE)
  BY <1>2, <1>3, <1>4, AllSteps, IdtInitRuns
<1>6. Runs(middle, E, {}, W, FALSE, TRUE)
  BY <1>2, <1>4, <1>5, AllSteps, MiddleRuns
<1>7. pic_unmask(1) \in Seq(Instr)
  BY AllSteps DEF IRQ
<1>8. /\ Runs(pic_unmask(1), E, {}, W, TRUE, TRUE)
      /\ Runs(device_register, E, {}, W, TRUE, TRUE)
      /\ Runs(stdin_init, E, {}, W, TRUE, TRUE)
      /\ Runs(timer_init, E, {}, W, TRUE, TRUE)
      /\ Runs(scheduler_create_elf_process, E, {}, W, TRUE, TRUE)
  BY <1>4, <1>7, AllSteps
<1>9. Runs(scheduler_create_elf_process, E, {}, W, TRUE, FALSE)
  BY <1>8, RunsWeaker
<1> QED BY <1>6, <1>8, <1>9, EntryRuns DEF IdtFirst, E, W

\* IRQs are unmasked only after the PIC is programmed for the last time.
LEMMA MaskedFirstEntry == MaskedFirst(sys_entry, TRUE, FALSE)
<1> DEFINE B == Performs({"unmask"})
           W == Performs({"icw1"})
<1>1. Performs(MiddleOps) \cap B = {} /\ Performs(RestOps) \cap W = {}
  BY DEF Performs, FirstOps, MaskOps, MiddleOps, RestOps
<1> HIDE DEF B, W
<1>2. Runs(middle, {}, B, W, TRUE, TRUE)
  BY <1>1, PartSteps, Keeps
<1>3. /\ Runs(pic_unmask(1), {}, B, W, TRUE, FALSE)
      /\ Runs(device_register, {}, B, W, FALSE, FALSE)
      /\ Runs(stdin_init, {}, B, W, FALSE, FALSE)
      /\ Runs(timer_init, {}, B, W, FALSE, FALSE)
      /\ Runs(scheduler_create_elf_process, {}, B, W, FALSE, FALSE)
  BY <1>1, PartSteps, Ignores
<1> QED BY <1>2, <1>3, EntryRuns DEF MaskedFirst, B, W

\* Handlers are registered only after the PIC is programmed for the last time.
LEMMA HandlersLastEntry == HandlersLast(sys_entry, TRUE, FALSE)
<1> DEFINE B == Performs({"register"})
           W == Performs({"icw1"})
<1>1. Performs(MiddleOps) \cap B = {} /\ Performs(RestOps) \cap W = {}
  BY DEF Performs, FirstOps, MaskOps, MiddleOps, RestOps
<1> HIDE DEF B, W
<1>2. Runs(middle, {}, B, W, TRUE, TRUE)
  BY <1>1, PartSteps, Keeps
<1>3. /\ Runs(pic_unmask(1), {}, B, W, TRUE, FALSE)
      /\ Runs(device_register, {}, B, W, FALSE, FALSE)
      /\ Runs(stdin_init, {}, B, W, FALSE, FALSE)
      /\ Runs(timer_init, {}, B, W, FALSE, FALSE)
      /\ Runs(scheduler_create_elf_process, {}, B, W, FALSE, FALSE)
  BY <1>1, PartSteps, Ignores
<1> QED BY <1>2, <1>3, EntryRuns DEF HandlersLast, B, W

\* pic_init sets the PIC's vectors, and nothing resets them after it.
LEMMA RemapFirstEntry == RemapFirst(sys_entry, FALSE, FALSE)
<1> DEFINE E == Performs({"icw2"})
           B == Performs({"icw1"})
           W == Performs({"unmask", "register"})
           C == MaskOps \cup {"icw1", "icw2"}
<1>1. /\ Performs(FirstOps) \cap W = {} /\ Performs(MaskOps) \cap W = {}
      /\ Performs(C) \cap W = {} /\ Performs(MaskOps) \cap B = {}
      /\ Performs(PrintOps) \cap B = {} /\ Performs(PrintOps) \cap W = {}
      /\ Performs({"check", "lock", "unlock"}) \cap B = {} /\ Performs(RestOps) \cap B = {}
      /\ Performs({"lidt"}) \cap W = {} /\ Performs({"icw1"}) \cap W = {}
  BY DEF Performs, FirstOps, MaskOps, RestOps, PrintOps
<1>2. /\ Step("lidt") \in Seq(Performs({"lidt"})) /\ Step("icw1") \in Seq(Performs({"icw1"}))
  BY DEF Step, Performs, Instr, Ops, IRQ
<1>3. Runs(Step("icw2"), E, B, W, FALSE, TRUE)
  <2> DEFINE x == [op |-> "icw2", irq |-> 0]
  <2>1. x \in Instr /\ x \in E /\ x \notin W
    BY DEF Performs, Instr, Ops, IRQ
  <2> HIDE DEF x, E, B, W
  <2>2. Runs(<<x>>, E, B, W, FALSE, TRUE)
    BY <2>1, RunsOne
  <2> QED BY <2>2 DEF Step, x
<1> HIDE DEF E, B, W
<1>4. /\ Runs(first, E, B, W, FALSE, FALSE) /\ Runs(pic_disable, E, B, W, FALSE, FALSE)
      /\ Runs(Step("lidt"), E, B, W, FALSE, FALSE) /\ Runs(pic_enable, E, B, W, FALSE, FALSE)
      /\ Runs(DEBUG, E, B, W, FALSE, FALSE) /\ Runs(pic_set_mask, E, B, W, FALSE, FALSE)
      /\ Runs(Step("icw1"), E, B, W, FALSE, FALSE)
  BY <1>1, <1>2, PrintSteps, PicSteps, OtherSteps, Ignores
<1>5. /\ Runs(DEBUG, E, B, W, TRUE, TRUE) /\ Runs(PRINT, E, B, W, TRUE, TRUE)
      /\ Runs(pic_set_mask, E, B, W, TRUE, TRUE) /\ Runs(memory, E, B, W, TRUE, TRUE)
      /\ \A irq \in IRQ : Runs(pic_mask(irq), E, B, W, TRUE, TRUE)
  BY <1>1, PrintSteps, PicSteps, OtherSteps, Keeps
<1>6. Runs(idt_init, E, B, W, FALSE, FALSE)
  BY <1>4, IdtInitRuns
<1>7. Runs(pic_configure, E, B, W, FALSE, TRUE)
  BY <1>3, <1>4, <1>5, ConfigureRuns
<1>8. Runs(pic_mask(0), E, B, W, TRUE, TRUE) /\ Runs(pic_mask(1), E, B, W, TRUE, TRUE)
  BY <1>5 DEF IRQ
<1>9. Runs(pic_init, E, B, W, FALSE, TRUE)
  BY <1>4, <1>5, <1>7, <1>8, PicInitRuns
<1>10. Runs(middle, E, B, W, FALSE, TRUE)
  BY <1>4, <1>5, <1>6, <1>9, MiddleRuns
<1>11. /\ Runs(pic_unmask(1), E, B, W, TRUE, TRUE)
       /\ Runs(device_register, E, B, W, TRUE, TRUE)
       /\ Runs(stdin_init, E, B, W, TRUE, TRUE)
       /\ Runs(timer_init, E, B, W, TRUE, TRUE)
       /\ Runs(scheduler_create_elf_process, E, B, W, TRUE, TRUE)
  BY <1>1, PartSteps, Keeps
<1>12. Runs(scheduler_create_elf_process, E, B, W, TRUE, FALSE)
  BY <1>11, RunsWeaker
<1> QED BY <1>10, <1>11, <1>12, EntryRuns DEF RemapFirst, E, B, W

\* The process table is filled in by the last step of boot.
LEMMA CreateLastEntry == CreateLast(sys_entry, TRUE, FALSE)
<1> DEFINE B == Performs({"create"})
           W == Performs(Printers)
<1>1. /\ Performs(MiddleOps) \cap B = {} /\ Performs(PrintOps) \cap B = {}
      /\ Performs({"lock", "unlock", "unmask"}) \cap B = {}
      /\ Performs({"lock", "unlock", "register"}) \cap B = {}
  BY DEF Performs, FirstOps, MaskOps, MiddleOps, PrintOps
<1>2. Runs(Step("create"), {}, B, W, TRUE, FALSE)
  <2> DEFINE x == [op |-> "create", irq |-> 0]
  <2>1. x \in Instr
    BY DEF Instr, Ops, IRQ
  <2> HIDE DEF x, B, W
  <2>2. Runs(<<x>>, {}, B, W, TRUE, FALSE)
    BY <2>1, RunsOne
  <2> QED BY <2>2 DEF Step, x
<1> HIDE DEF B, W
<1>3. /\ Runs(middle, {}, B, W, TRUE, TRUE) /\ Runs(DEBUG, {}, B, W, TRUE, TRUE)
      /\ Runs(device_register, {}, B, W, TRUE, TRUE)
      /\ \A irq \in IRQ : /\ Runs(pic_unmask(irq), {}, B, W, TRUE, TRUE)
                          /\ Runs(idt_irq_register(irq), {}, B, W, TRUE, TRUE)
  BY <1>1, PrintSteps, PicSteps, OtherSteps, PartSteps, Keeps
<1>4. Runs(pic_unmask(1), {}, B, W, TRUE, TRUE) /\ Runs(stdin_init, {}, B, W, TRUE, TRUE)
  BY <1>3 DEF stdin_init, IRQ
<1>5. Runs(timer_init, {}, B, W, TRUE, TRUE)
  <2>1. Runs(pic_unmask(0), {}, B, W, TRUE, TRUE) /\ Runs(idt_irq_register(0), {}, B, W, TRUE, TRUE)
    BY <1>3 DEF IRQ
  <2> QED BY <2>1, RunsConcat DEF timer_init
<1>6. Runs(scheduler_create_elf_process, {}, B, W, TRUE, FALSE)
  BY <1>2, <1>3, RunsConcat DEF scheduler_create_elf_process
<1> QED BY <1>3, <1>4, <1>5, <1>6, EntryRuns DEF CreateLast, B, W

\* printf is the only function of boot that takes stdout_lock, and it releases it.
LEMMA LockPairsEntry ==
    /\ LockPairs(sys_entry, TRUE, FALSE) /\ LockPairs(PRINT, TRUE, TRUE)
    /\ LockPairs(GIVE_UP, TRUE, FALSE) /\ LockPairs(FAILURE, TRUE, FALSE)
<1> DEFINE E == Performs({"unlock"})
           B == Performs({"lock"})
           W == Performs(Ops \ {"unlock"})
           Paired(s) == Runs(s, E, B, W, TRUE, TRUE)
<1>1. Paired(PRINT)
  <2> DEFINE l == [op |-> "lock", irq |-> 0]
             u == [op |-> "unlock", irq |-> 0]
  <2>1. l \in Instr /\ u \in Instr /\ u \in E /\ u \notin W
    BY DEF Performs, Instr, Ops, IRQ
  <2> HIDE DEF l, u, E, B, W
  <2>2. Runs(<<l>>, E, B, W, TRUE, FALSE) /\ Runs(<<u>>, E, B, W, FALSE, TRUE)
    BY <2>1, RunsOne
  <2>3. Runs(<<l>> \o <<u>>, E, B, W, TRUE, TRUE)
    BY <2>2, RunsConcat
  <2> QED BY <2>3 DEF PRINT, Step, l, u
<1>2. \A x \in Instr : x.op # "lock" => Paired(<<x>>)
  <2> SUFFICES ASSUME NEW x \in Instr, x.op # "lock" PROVE Runs(<<x>>, E, B, W, TRUE, TRUE)
    OBVIOUS
  <2>1. x \notin B
    BY DEF Performs
  <2> HIDE DEF E, B, W
  <2> QED BY <2>1, RunsOne
<1>3. \A o \in Ops \ {"lock"} : Paired(Step(o)) /\ \A irq \in IRQ : Paired(StepOf(o, irq))
  <2> SUFFICES ASSUME NEW o \in Ops \ {"lock"}, NEW irq \in IRQ
      PROVE  Paired(Step(o)) /\ Paired(StepOf(o, irq))
    BY DEF IRQ
  <2>1. [op |-> o, irq |-> irq] \in Instr /\ [op |-> o, irq |-> 0] \in Instr
    BY DEF Instr, IRQ
  <2> HIDE DEF Paired
  <2> QED BY <1>2, <2>1 DEF Step, StepOf
<1>4. ASSUME NEW s, NEW t, Paired(s), Paired(t) PROVE Paired(s \o t)
  <2> HIDE DEF E, B, W
  <2> QED BY <1>4, RunsConcat
<1>5. Paired(DEBUG)
  <2>1. << >> \in Seq(Performs({})) /\ Performs({}) \cap B = {}
    BY DEF Performs
  <2> HIDE DEF E, B, W
  <2>2. Paired(<< >>)
    BY <2>1, Keeps
  <2> QED BY <1>1, <2>2 DEF DEBUG
<1>6. /\ Paired(Step("check")) /\ Paired(Step("probe")) /\ Paired(Step("hcf"))
      /\ Paired(Step("cli")) /\ Paired(Step("sti"))
      /\ Paired(Step("mask")) /\ Paired(Step("icw1")) /\ Paired(Step("icw2"))
      /\ Paired(Step("lidt")) /\ Paired(Step("create"))
      /\ \A irq \in IRQ : /\ Paired(StepOf("mask1", irq)) /\ Paired(StepOf("unmask", irq))
                          /\ Paired(StepOf("register", irq))
  <2> HIDE DEF Paired
  <2> QED BY <1>3 DEF Ops
<1> HIDE DEF Paired
<1>7. Paired(CHECK)
  BY <1>6 DEF CHECK
<1>8. Paired(rtc_init)
  <2>1. Paired(read_register) /\ Paired(write_register)
    BY <1>4, <1>6 DEF read_register, write_register
  <2>2. Paired(Step("cli") \o read_register \o write_register)
    BY <1>4, <1>6, <2>1
  <2> QED BY <1>4, <1>6, <2>2 DEF rtc_init
<1>9. Paired(first)
  <2>1. Paired(graphics) /\ Paired(gdt_init)
    BY <1>1, <1>4, <1>5, <1>6 DEF graphics, gdt_init
  <2>2. Paired(graphics \o rtc_init \o PRINT)
    BY <1>1, <1>4, <1>8, <2>1
  <2> QED BY <1>4, <2>1, <2>2 DEF first
<1>10. Paired(pic_set_mask)
  BY <1>4, <1>5, <1>6 DEF pic_set_mask
<1>11. ASSUME NEW irq \in IRQ
       PROVE  Paired(pic_mask(irq)) /\ Paired(pic_unmask(irq)) /\ Paired(idt_irq_register(irq))
  <2>1. Paired(DEBUG \o StepOf("mask1", irq)) /\ Paired(DEBUG \o StepOf("unmask", irq))
    BY <1>4, <1>5, <1>6
  <2> QED BY <1>4, <1>5, <1>6, <2>1 DEF pic_mask, pic_unmask, idt_irq_register
<1>12. Paired(pic_configure)
  <2>1. Paired(DEBUG \o pic_set_mask)
    BY <1>4, <1>5, <1>10
  <2>2. Paired(DEBUG \o pic_set_mask \o Step("icw1") \o Step("icw2"))
    BY <1>4, <1>6, <2>1
  <2>3. Paired(DEBUG \o pic_set_mask \o Step("icw1") \o Step("icw2") \o pic_set_mask)
    BY <1>4, <1>10, <2>2
  <2> QED BY <1>4, <1>5, <2>3 DEF pic_configure
<1>13. Paired(pic_disable) /\ Paired(pic_enable)
  <2>1. Paired(DEBUG \o pic_configure)
    BY <1>4, <1>5, <1>12
  <2> QED BY <1>4, <1>5, <1>10, <2>1 DEF pic_disable, pic_enable
<1>14. Paired(pic_init)
  <2>1. Paired(pic_mask(0)) /\ Paired(pic_mask(1))
    BY <1>11 DEF IRQ
  <2> QED BY <1>5, <1>12, <2>1, PicInitRuns DEF Paired
<1>15. Paired(memory)
  <2>1. Paired(DEBUG \o CHECK \o PRINT)
    BY <1>1, <1>4, <1>5, <1>7
  <2>2. Paired(DEBUG \o CHECK \o PRINT \o CHECK \o PRINT)
    BY <1>1, <1>4, <1>7, <2>1
  <2> QED BY <1>1, <1>4, <1>7, <2>2 DEF memory
<1>16. Paired(middle)
  <2>1. Paired(idt_init)
    BY <1>5, <1>6, <1>13, IdtInitRuns DEF Paired
  <2> QED BY <1>1, <1>9, <1>14, <1>15, <2>1, MiddleRuns DEF Paired
<1>17. /\ Paired(pic_unmask(1)) /\ Paired(device_register) /\ Paired(stdin_init)
       /\ Paired(timer_init) /\ Paired(scheduler_create_elf_process)
  <2>1. /\ Paired(pic_unmask(0)) /\ Paired(pic_unmask(1))
        /\ Paired(idt_irq_register(0)) /\ Paired(idt_irq_register(1))
    BY <1>11 DEF IRQ
  <2> QED BY <1>4, <1>5, <1>6, <2>1
          DEF device_register, stdin_init, timer_init, scheduler_create_elf_process
<1>18. Runs(scheduler_create_elf_process, E, B, W, TRUE, FALSE)
  <2> HIDE DEF E, B, W
  <2> QED BY <1>17, RunsWeaker DEF Paired
<1>19. Runs(sys_entry, E, B, W, TRUE, FALSE)
  <2> HIDE DEF E, B, W
  <2> QED BY <1>16, <1>17, <1>18, EntryRuns DEF Paired
<1>20. Runs(GIVE_UP, E, B, W, TRUE, FALSE) /\ Runs(FAILURE, E, B, W, TRUE, FALSE)
  <2>1. Paired(GIVE_UP)
    BY <1>1, <1>4, <1>6 DEF GIVE_UP
  <2>2. Paired(PRINT \o PRINT)
    BY <1>1, <1>4
  <2>3. Paired(FAILURE)
    BY <1>4, <2>1, <2>2 DEF FAILURE
  <2> HIDE DEF E, B, W
  <2> QED BY <2>1, <2>3, RunsWeaker DEF Paired
<1> QED BY <1>1, <1>19, <1>20 DEF LockPairs, Paired

\* Without _DEBUG the functions of pic.c and idt.c print nothing.
LEMMA NoDebug ==
    ASSUME ~Debug
    PROVE  /\ DEBUG = << >> /\ pic_set_mask = Step("mask") /\ device_register = << >>
           /\ \A irq \in IRQ : /\ pic_mask(irq) = StepOf("mask1", irq)
                               /\ pic_unmask(irq) = StepOf("unmask", irq)
                               /\ idt_irq_register(irq) = StepOf("register", irq)
           /\ scheduler_create_elf_process = Step("create")
           /\ pic_disable = pic_set_mask /\ pic_enable = pic_configure \o pic_set_mask
<1>1. DEBUG = << >>
  BY DEF DEBUG
<1>2. \A s \in Seq(Instr) : << >> \o s = s /\ s \o << >> = s
  OBVIOUS
<1>3. /\ Step("mask") \in Seq(Instr) /\ Step("create") \in Seq(Instr)
      /\ \A irq \in IRQ : /\ StepOf("mask1", irq) \in Seq(Instr)
                          /\ StepOf("unmask", irq) \in Seq(Instr)
                          /\ StepOf("register", irq) \in Seq(Instr)
  BY DEF Step, StepOf, Instr, Ops, IRQ
<1>4. pic_set_mask = Step("mask") /\ scheduler_create_elf_process = Step("create")
  BY <1>1, <1>2, <1>3 DEF pic_set_mask, scheduler_create_elf_process
<1>5. \A irq \in IRQ : /\ pic_mask(irq) = StepOf("mask1", irq)
                       /\ pic_unmask(irq) = StepOf("unmask", irq)
                       /\ idt_irq_register(irq) = StepOf("register", irq)
  BY <1>1, <1>2, <1>3 DEF pic_mask, pic_unmask, idt_irq_register
<1>6. pic_disable = pic_set_mask
  BY <1>1, <1>2, <1>3, <1>4 DEF pic_disable
<1>7. pic_configure \in Seq(Instr)
  BY PicSteps, MoreSteps
<1>8. pic_enable = pic_configure \o pic_set_mask
  BY <1>1, <1>2, <1>7 DEF pic_enable
<1> QED BY <1>1, <1>4, <1>5, <1>6, <1>8 DEF device_register

\* Boot prints only while every IRQ is masked or has a handler: pic_configure masks
\* what its first word unmasks, and each unmasking is followed by the registration.
LEMMA QuietFirstEntry ==
    ASSUME ~Debug, NEW i \in IRQ
    PROVE  QuietFirst(i, sys_entry, TRUE, FALSE)
<1> DEFINE E == {x \in Instr : x.op = "mask" \/ (x.op \in {"mask1", "register"} /\ x.irq = i)}
           B == {x \in Instr : x.op = "icw1" \/ (x.op = "unmask" /\ x.irq = i)}
           W == Performs(Printers)
<1>1. /\ Performs(FirstOps) \cap B = {} /\ Performs({}) \cap B = {} /\ Performs({}) \cap W = {}
      /\ Performs({"check", "lock", "unlock"}) \cap B = {} /\ Performs(PrintOps) \cap B = {}
      /\ << >> \in Seq(Performs({}))
  BY DEF Performs, FirstOps, PrintOps
<1>2. ASSUME NEW o \in {"mask", "lidt", "icw1", "icw2", "create", "mask1", "unmask", "register"},
             NEW irq \in IRQ
      PROVE  [op |-> o, irq |-> irq] \in Instr
  BY DEF Instr, Ops
<1>3. ASSUME NEW o \in {"mask", "lidt", "icw1", "icw2", "create", "mask1", "unmask", "register"},
             NEW irq \in IRQ
      PROVE  /\ [op |-> o, irq |-> irq] \in E
                <=> o = "mask" \/ (o \in {"mask1", "register"} /\ irq = i)
             /\ [op |-> o, irq |-> irq] \in B <=> o = "icw1" \/ (o = "unmask" /\ irq = i)
             /\ [op |-> o, irq |-> irq] \in W <=> o = "create"
  BY <1>2 DEF Performs, Printers
<1> HIDE DEF E, B, W
<1>4. ASSUME NEW o \in {"mask", "lidt", "icw1", "icw2", "create", "mask1", "unmask", "register"},
             NEW irq \in IRQ, NEW p \in BOOLEAN, NEW q \in BOOLEAN,
             o = "create" => p,
             q => \/ o = "mask" \/ (o \in {"mask1", "register"} /\ irq = i)
                  \/ p /\ ~(o = "icw1" \/ (o = "unmask" /\ irq = i))
      PROVE  Runs(StepOf(o, irq), E, B, W, p, q)
  <2> DEFINE x == [op |-> o, irq |-> irq]
  <2>1. /\ x \in Instr
        /\ x \in W => p
        /\ q => (x \in E \/ (p /\ x \notin B))
    BY <1>2, <1>3, <1>4
  <2> HIDE DEF x
  <2>2. Runs(<<x>>, E, B, W, p, q)
    BY <2>1, RunsOne
  <2> QED BY <2>2 DEF StepOf, x
<1>5. 0 \in IRQ /\ 1 \in IRQ /\ \A o : Step(o) = StepOf(o, 0)
  BY DEF IRQ, Step, StepOf
<1>6. /\ Runs(<< >>, E, B, W, TRUE, TRUE) /\ Runs(<< >>, E, B, W, FALSE, FALSE)
      /\ Runs(first, E, B, W, TRUE, TRUE) /\ Runs(memory, E, B, W, TRUE, TRUE)
      /\ Runs(PRINT, E, B, W, TRUE, TRUE)
  BY <1>1, PrintSteps, OtherSteps, Keeps, Ignores
<1>7. Runs(pic_set_mask, E, B, W, TRUE, TRUE) /\ Runs(pic_set_mask, E, B, W, FALSE, TRUE)
  BY <1>4, <1>5, NoDebug
<1>8. Runs(pic_configure, E, B, W, TRUE, TRUE)
  <2>1. Runs(Step("icw1"), E, B, W, TRUE, FALSE) /\ Runs(Step("icw2"), E, B, W, FALSE, FALSE)
    BY <1>4, <1>5
  <2> QED BY <1>6, <1>7, <2>1, NoDebug, ConfigureRuns
<1>9. Runs(idt_init, E, B, W, TRUE, TRUE)
  <2>1. Runs(pic_enable, E, B, W, TRUE, TRUE)
    BY <1>7, <1>8, NoDebug, RunsConcat
  <2>2. Runs(Step("lidt"), E, B, W, TRUE, TRUE)
    BY <1>4, <1>5
  <2> QED BY <1>6, <1>7, <2>1, <2>2, NoDebug, IdtInitRuns
<1>10. Runs(pic_init, E, B, W, TRUE, TRUE)
  <2>1. Runs(pic_mask(0), E, B, W, TRUE, TRUE) /\ Runs(pic_mask(1), E, B, W, TRUE, TRUE)
    BY <1>4, <1>5, NoDebug
  <2> QED BY <1>6, <1>8, <2>1, NoDebug, PicInitRuns
<1>11. Runs(middle, E, B, W, TRUE, TRUE)
  BY <1>6, <1>9, <1>10, MiddleRuns
<1>12. Runs(timer_init, E, B, W, TRUE, TRUE)
  <2>1. CASE i = 0
    <3>1. Runs(pic_unmask(0), E, B, W, TRUE, FALSE)
      BY <1>4, <1>5, NoDebug
    <3>2. Runs(idt_irq_register(0), E, B, W, FALSE, TRUE)
      BY <1>4, <1>5, <2>1, NoDebug
    <3> QED BY <3>1, <3>2, RunsConcat DEF timer_init
  <2>2. CASE i = 1
    <3>1. Runs(pic_unmask(0), E, B, W, TRUE, TRUE)
      <4>1. ~("unmask" = "icw1" \/ ("unmask" = "unmask" /\ 0 = i))
        BY <2>2
      <4>2. Runs(StepOf("unmask", 0), E, B, W, TRUE, TRUE)
        BY <1>4, <1>5, <4>1
      <4> QED BY <1>5, <4>2, NoDebug
    <3>2. Runs(idt_irq_register(0), E, B, W, TRUE, TRUE)
      BY <1>4, <1>5, <2>2, NoDebug
    <3> QED BY <3>1, <3>2, RunsConcat DEF timer_init
  <2> QED BY <2>1, <2>2 DEF IRQ
<1>13. Runs(scheduler_create_elf_process, E, B, W, TRUE, FALSE)
  BY <1>4, <1>5, NoDebug
<1>14. Runs(stdin_init, E, B, W, TRUE, TRUE)
  BY <1>4, <1>5, NoDebug DEF stdin_init
<1>15. CASE i = 1
  <2>1. Runs(pic_unmask(1), E, B, W, TRUE, FALSE) /\ Runs(stdin_init, E, B, W, FALSE, TRUE)
    BY <1>4, <1>5, <1>15, NoDebug DEF stdin_init
  <2> QED BY <1>6, <1>11, <1>12, <1>13, <2>1, NoDebug, EntryRuns DEF QuietFirst, E, B, W
<1>16. CASE i = 0
  <2>1. Runs(pic_unmask(1), E, B, W, TRUE, TRUE)
    <3>1. ~("unmask" = "icw1" \/ ("unmask" = "unmask" /\ 1 = i))
      BY <1>16
    <3>2. Runs(StepOf("unmask", 1), E, B, W, TRUE, TRUE)
      BY <1>4, <1>5, <3>1
    <3> QED BY <1>5, <3>2, NoDebug
  <2> QED BY <1>6, <1>11, <1>12, <1>13, <1>14, <2>1, NoDebug, EntryRuns DEF QuietFirst, E, B, W
<1> QED BY <1>15, <1>16 DEF IRQ

--------------------------------------------------------------------------------
(* The invariant *)

\* For each fact, what is left of sys_entry needs at most what is known now.
OrderInv ==
    /\ code \in Seq(Instr)
    /\ IdtFirst(code, TRUE, FALSE) /\ MaskedFirst(code, TRUE, FALSE)
    /\ RemapFirst(code, TRUE, FALSE) /\ HandlersLast(code, TRUE, FALSE)
    /\ ~idt => IdtFirst(code, FALSE, FALSE)
    /\ _pic_mask # IRQ => MaskedFirst(code, FALSE, FALSE)
    /\ ~remapped => RemapFirst(code, FALSE, FALSE)
    /\ irq_handlers # {} => HandlersLast(code, FALSE, FALSE)

\* Nothing gets through without an IDT, and the kernel has unmasked nothing before the
\* PIC's vectors are set.
PicInv ==
    /\ ~idt => imr = IRQ /\ _pic_mask = IRQ
    /\ ~remapped => _pic_mask = IRQ /\ irq_handlers = {}

Entry == [irq : IRQ, at : {"handler", "exception", "eoi", "iret"}]

\* Interrupts do not nest.
StackInv ==
    /\ stack # << >> => ~flag
    /\ Len(stack) <= 1

\* A request of the keyboard, pending or about to be handled, stands for a byte.
KeyInv ==
    /\ bytes <= typed
    /\ 1 \in irr => bytes > 0
    /\ stack # << >> /\ Head(stack).irq = 1 /\ Head(stack).at = "handler" =>
          bytes > 0 /\ 1 \notin irr

\* As long as no masked IRQ was taken, the PIC has in service at most the IRQ that
\* is being handled.
ServiceInv == ~masked =>
    /\ stack = << >> => isr = {}
    /\ stack # << >> =>
          /\ isr \subseteq {Head(stack).irq} /\ Head(stack).at # "exception"
          /\ Head(stack).at = "iret" => isr = {}

Inv == TypeOK /\ OrderInv /\ PicInv /\ StackInv /\ KeyInv /\ ServiceInv /\ NeverResets

--------------------------------------------------------------------------------
(* Boot's next step *)

\* What the next step may rely on, and what is left to rely on after it.
LEMMA OrderTail ==
    ASSUME OrderInv, code # << >>
    PROVE  /\ Head(code) \in Instr /\ Tail(code) \in Seq(Instr)
           /\ Head(code).op \in {"icw1", "unmask"} => idt
           /\ Head(code).op = "icw1" => _pic_mask = IRQ /\ irq_handlers = {}
           /\ Head(code).op \in {"unmask", "register"} => remapped
           /\ IdtFirst(Tail(code), TRUE, FALSE) /\ MaskedFirst(Tail(code), TRUE, FALSE)
           /\ RemapFirst(Tail(code), TRUE, FALSE) /\ HandlersLast(Tail(code), TRUE, FALSE)
           /\ Head(code).op = "lidt" \/ idt \/ IdtFirst(Tail(code), FALSE, FALSE)
           /\ \/ _pic_mask = IRQ /\ Head(code).op # "unmask"
              \/ MaskedFirst(Tail(code), FALSE, FALSE)
           /\ \/ Head(code).op = "icw2"
              \/ remapped /\ Head(code).op # "icw1"
              \/ RemapFirst(Tail(code), FALSE, FALSE)
           /\ \/ irq_handlers = {} /\ Head(code).op # "register"
              \/ HandlersLast(Tail(code), FALSE, FALSE)
<1>1. code \in Seq(Instr) /\ Head(code) \in Instr /\ Tail(code) \in Seq(Instr)
  BY DEF OrderInv
<1> DEFINE x == Head(code)
<1>2. \A ops : x \in Performs(ops) <=> x.op \in ops
  BY <1>1 DEF Performs
<1> HIDE DEF x
<1>3. /\ x.op \in {"icw1", "unmask"} => idt
      /\ IdtFirst(Tail(code), TRUE, FALSE)
      /\ x.op = "lidt" \/ idt \/ IdtFirst(Tail(code), FALSE, FALSE)
  <2>1. CASE idt
    BY <2>1, RunsTail DEF OrderInv, IdtFirst, x
  <2>2. CASE ~idt
    <3>1. Runs(code, Performs({"lidt"}), {}, Performs({"icw1", "unmask"}), FALSE, FALSE)
      BY <2>2 DEF OrderInv, IdtFirst
    <3> QED BY <1>2, <3>1, RunsTail DEF IdtFirst, x
  <2> QED BY <2>1, <2>2
<1>4. /\ x.op = "icw1" => _pic_mask = IRQ
      /\ MaskedFirst(Tail(code), TRUE, FALSE)
      /\ (_pic_mask = IRQ /\ x.op # "unmask") \/ MaskedFirst(Tail(code), FALSE, FALSE)
  <2>1. CASE _pic_mask = IRQ
    <3>1. Runs(code, {}, Performs({"unmask"}), Performs({"icw1"}), TRUE, FALSE)
      BY DEF OrderInv, MaskedFirst
    <3> QED BY <1>2, <2>1, <3>1, RunsTail DEF MaskedFirst, x
  <2>2. CASE _pic_mask # IRQ
    <3>1. Runs(code, {}, Performs({"unmask"}), Performs({"icw1"}), FALSE, FALSE)
      BY <2>2 DEF OrderInv, MaskedFirst
    <3> QED BY <1>2, <3>1, RunsTail DEF MaskedFirst, x
  <2> QED BY <2>1, <2>2
<1>5. /\ x.op \in {"unmask", "register"} => remapped
      /\ RemapFirst(Tail(code), TRUE, FALSE)
      /\ x.op = "icw2" \/ (remapped /\ x.op # "icw1") \/ RemapFirst(Tail(code), FALSE, FALSE)
  <2>1. CASE remapped
    <3>1. Runs(code, Performs({"icw2"}), Performs({"icw1"}), Performs({"unmask", "register"}),
               TRUE, FALSE)
      BY DEF OrderInv, RemapFirst
    <3> QED BY <1>2, <2>1, <3>1, RunsTail DEF RemapFirst, x
  <2>2. CASE ~remapped
    <3>1. Runs(code, Performs({"icw2"}), Performs({"icw1"}), Performs({"unmask", "register"}),
               FALSE, FALSE)
      BY <2>2 DEF OrderInv, RemapFirst
    <3> QED BY <1>2, <3>1, RunsTail DEF RemapFirst, x
  <2> QED BY <2>1, <2>2
<1>6. /\ x.op = "icw1" => irq_handlers = {}
      /\ HandlersLast(Tail(code), TRUE, FALSE)
      /\ (irq_handlers = {} /\ x.op # "register") \/ HandlersLast(Tail(code), FALSE, FALSE)
  <2>1. CASE irq_handlers = {}
    <3>1. Runs(code, {}, Performs({"register"}), Performs({"icw1"}), TRUE, FALSE)
      BY DEF OrderInv, HandlersLast
    <3> QED BY <1>2, <2>1, <3>1, RunsTail DEF HandlersLast, x
  <2>2. CASE irq_handlers # {}
    <3>1. Runs(code, {}, Performs({"register"}), Performs({"icw1"}), FALSE, FALSE)
      BY <2>2 DEF OrderInv, HandlersLast
    <3> QED BY <1>2, <3>1, RunsTail DEF HandlersLast, x
  <2> QED BY <2>1, <2>2
<1> QED BY <1>1, <1>3, <1>4, <1>5, <1>6 DEF x

\* Printing in front of what is left changes none of it.
LEMMA PrintAgain ==
    ASSUME NEW t, NEW p \in {TRUE, FALSE}
    PROVE  /\ IdtFirst(t, p, FALSE) => IdtFirst(PRINT \o t, p, FALSE)
           /\ MaskedFirst(t, p, FALSE) => MaskedFirst(PRINT \o t, p, FALSE)
           /\ RemapFirst(t, p, FALSE) => RemapFirst(PRINT \o t, p, FALSE)
           /\ HandlersLast(t, p, FALSE) => HandlersLast(PRINT \o t, p, FALSE)
<1>1. ASSUME NEW E, NEW B, NEW W, Performs(PrintOps) \cap B = {}, Performs(PrintOps) \cap W = {},
             Runs(t, E, B, W, p, FALSE)
      PROVE  Runs(PRINT \o t, E, B, W, p, FALSE)
  <2>1. Runs(PRINT, E, B, W, TRUE, TRUE) /\ Runs(PRINT, E, B, W, FALSE, FALSE)
    BY <1>1, PrintSteps, Keeps, Ignores
  <2>2. CASE p = TRUE
    BY <1>1, <2>1, <2>2, RunsConcat
  <2>3. CASE p = FALSE
    BY <1>1, <2>1, <2>3, RunsConcat
  <2> QED BY <2>2, <2>3
<1>2. \A ops : ops \cap PrintOps = {} => Performs(PrintOps) \cap Performs(ops) = {}
  BY DEF Performs
<1>3. /\ {"lidt"} \cap PrintOps = {} /\ {"icw1", "unmask"} \cap PrintOps = {}
      /\ {"unmask"} \cap PrintOps = {} /\ {"icw1"} \cap PrintOps = {}
      /\ {"unmask", "register"} \cap PrintOps = {} /\ {"register"} \cap PrintOps = {}
  BY DEF PrintOps
<1>4. IdtFirst(t, p, FALSE) => IdtFirst(PRINT \o t, p, FALSE)
  BY <1>1, <1>2, <1>3 DEF IdtFirst
<1>5. MaskedFirst(t, p, FALSE) => MaskedFirst(PRINT \o t, p, FALSE)
  BY <1>1, <1>2, <1>3 DEF MaskedFirst
<1>6. RemapFirst(t, p, FALSE) => RemapFirst(PRINT \o t, p, FALSE)
  BY <1>1, <1>2, <1>3 DEF RemapFirst
<1>7. HandlersLast(t, p, FALSE) => HandlersLast(PRINT \o t, p, FALSE)
  BY <1>1, <1>2, <1>3 DEF HandlersLast
<1> QED BY <1>4, <1>5, <1>6, <1>7

\* Giving up needs nothing to be known.
LEMMA FailureOrder ==
    ASSUME NEW t \in {GIVE_UP, FAILURE}, NEW p \in {TRUE, FALSE}
    PROVE  /\ t \in Seq(Instr)
           /\ IdtFirst(t, p, FALSE) /\ MaskedFirst(t, p, FALSE)
           /\ RemapFirst(t, p, FALSE) /\ HandlersLast(t, p, FALSE)
<1>1. t \in Seq(Performs(FailureOps))
  BY FailureSteps
<1>2. ASSUME NEW E, NEW B, NEW W, Performs(FailureOps) \cap W = {}
      PROVE  Runs(t, E, B, W, p, FALSE)
  BY <1>1, <1>2, Ignores
<1>3. /\ Performs(FailureOps) \cap Performs({"icw1", "unmask"}) = {}
      /\ Performs(FailureOps) \cap Performs({"icw1"}) = {}
      /\ Performs(FailureOps) \cap Performs({"unmask", "register"}) = {}
  BY DEF Performs, FailureOps
<1>4. IdtFirst(t, p, FALSE) /\ MaskedFirst(t, p, FALSE)
  BY <1>2, <1>3 DEF IdtFirst, MaskedFirst
<1>5. RemapFirst(t, p, FALSE) /\ HandlersLast(t, p, FALSE)
  BY <1>2, <1>3 DEF RemapFirst, HandlersLast
<1> QED BY <1>1, <1>4, <1>5, MoreSteps

\* Every step of boot keeps to the order, and what the order is for.
LEMMA BootOrder == Inv /\ BootStep => OrderInv' /\ PicInv'
<1> SUFFICES ASSUME Inv, BootStep PROVE OrderInv' /\ PicInv'
  OBVIOUS
<1> USE DEF Inv
<1>0. _pic_mask \subseteq IRQ /\ irq_handlers \subseteq IRQ
  BY DEF TypeOK
<1>1. CASE Lock
  <2>1. CASE lock
    BY <1>1, <2>1 DEF Lock, OrderInv, PicInv, pic
  <2>2. CASE ~lock
    <3>1. code # << >> /\ Head(code).op = "lock" /\ code' = Tail(code)
          /\ UNCHANGED <<idt, _pic_mask, imr, remapped, irq_handlers>>
      BY <1>1, <2>2 DEF Lock, At, Done, pic
    <3> QED BY <3>1, OrderTail DEF OrderInv, PicInv
  <2> QED BY <2>1, <2>2
<1>2. CASE Unlock
  <2>1. code # << >> /\ Head(code).op = "unlock" /\ code' = Tail(code)
        /\ UNCHANGED <<idt, _pic_mask, imr, remapped, irq_handlers>>
    BY <1>2 DEF Unlock, At, Done, pic
  <2> QED BY <2>1, OrderTail DEF OrderInv, PicInv
<1>3. CASE Check
  <2>1. /\ code # << >> /\ Head(code).op \in {"check", "probe"}
        /\ code' = Tail(code) \/ code' \in {GIVE_UP, FAILURE}
        /\ UNCHANGED <<idt, _pic_mask, imr, remapped, irq_handlers>>
    BY <1>3 DEF Check, At, Done, pic
  <2>2. CASE code' = Tail(code)
    BY <2>1, <2>2, OrderTail DEF OrderInv, PicInv
  <2>3. CASE code' \in {GIVE_UP, FAILURE}
    BY <2>1, <2>3, FailureOrder DEF OrderInv, PicInv
  <2> QED BY <2>1, <2>2, <2>3
<1>4. CASE SetMask
  <2>1. /\ code # << >> /\ Head(code).op \in {"mask", "mask1", "unmask"} /\ code' = Tail(code)
        /\ _pic_mask' = NewMask /\ imr' = NewMask
        /\ UNCHANGED <<idt, remapped, irq_handlers>>
    BY <1>4 DEF SetMask, At, Done
  <2>2. Head(code).op # "unmask" /\ _pic_mask = IRQ => NewMask = IRQ
    <3>1. Head(code).irq \in IRQ
      BY <2>1, OrderTail DEF Instr
    <3> QED BY <2>1, <3>1 DEF NewMask, irqArg
  <2>3. _pic_mask' # IRQ => MaskedFirst(Tail(code), FALSE, FALSE)
    BY <2>1, <2>2, OrderTail
  <2>4. PicInv'
    BY <2>1, <2>2, OrderTail DEF PicInv
  <2> QED BY <2>1, <2>3, <2>4, OrderTail DEF OrderInv
<1>5. CASE Icw1
  <2>1. code # << >> /\ Head(code).op = "icw1" /\ code' = Tail(code) /\ remapped' = FALSE
        /\ UNCHANGED <<idt, _pic_mask, irq_handlers>>
    BY <1>5 DEF Icw1, At, Done
  <2> QED BY <2>1, OrderTail DEF OrderInv, PicInv
<1>6. CASE Icw2
  <2>1. code # << >> /\ Head(code).op = "icw2" /\ code' = Tail(code) /\ remapped' = TRUE
        /\ UNCHANGED <<idt, _pic_mask, imr, irq_handlers>>
    BY <1>6 DEF Icw2, At, Done
  <2> QED BY <2>1, OrderTail DEF OrderInv, PicInv
<1>7. CASE Lidt
  <2>1. code # << >> /\ Head(code).op = "lidt" /\ code' = Tail(code) /\ idt' = TRUE
        /\ UNCHANGED <<_pic_mask, imr, remapped, irq_handlers>>
    BY <1>7 DEF Lidt, At, Done, pic
  <2> QED BY <2>1, OrderTail DEF OrderInv, PicInv
<1>8. CASE Flag
  <2>1. code # << >> /\ Head(code).op \in {"cli", "sti"} /\ code' = Tail(code)
        /\ UNCHANGED <<idt, _pic_mask, imr, remapped, irq_handlers>>
    BY <1>8 DEF Flag, At, Done, pic
  <2> QED BY <2>1, OrderTail DEF OrderInv, PicInv
<1>9. CASE Register
  <2>1. code # << >> /\ Head(code).op = "register" /\ code' = Tail(code)
        /\ UNCHANGED <<idt, _pic_mask, imr, remapped>>
    BY <1>9 DEF Register, At, Done, pic
  <2>2. HandlersLast(Tail(code), FALSE, FALSE) /\ remapped
    BY <2>1, OrderTail
  <2> QED BY <2>1, <2>2, OrderTail DEF OrderInv, PicInv
<1>10. CASE Create
  <2>1. /\ code # << >> /\ Head(code).op = "create"
        /\ code' = Tail(code) \/ code' = PRINT \o Tail(code)
        /\ UNCHANGED <<idt, _pic_mask, imr, remapped, irq_handlers>>
    BY <1>10 DEF Create, At, Done, pic
  <2>2. /\ Tail(code) \in Seq(Instr)
        /\ IdtFirst(Tail(code), TRUE, FALSE) /\ MaskedFirst(Tail(code), TRUE, FALSE)
        /\ RemapFirst(Tail(code), TRUE, FALSE) /\ HandlersLast(Tail(code), TRUE, FALSE)
        /\ ~idt => IdtFirst(Tail(code), FALSE, FALSE)
        /\ _pic_mask # IRQ => MaskedFirst(Tail(code), FALSE, FALSE)
        /\ ~remapped => RemapFirst(Tail(code), FALSE, FALSE)
        /\ irq_handlers # {} => HandlersLast(Tail(code), FALSE, FALSE)
    BY <2>1, OrderTail
  <2>3. CASE code' = Tail(code)
    BY <2>1, <2>2, <2>3 DEF OrderInv, PicInv
  <2>4. CASE code' = PRINT \o Tail(code)
    <3>1. PRINT \o Tail(code) \in Seq(Instr)
      BY <2>2, AllSteps
    <3>2. PicInv'
      BY <2>1 DEF PicInv
    <3> QED BY <2>1, <2>2, <2>4, <3>1, <3>2, PrintAgain DEF OrderInv
  <2> QED BY <2>1, <2>3, <2>4
<1>11. CASE Hlt
  BY <1>11 DEF Hlt, vars, pic, OrderInv, PicInv
<1>12. CASE Hcf
  <2>1. code # << >> /\ Head(code).op = "hcf" /\ code' = Tail(code)
        /\ UNCHANGED <<idt, _pic_mask, imr, remapped, irq_handlers>>
    BY <1>12 DEF Hcf, At, Done, pic
  <2> QED BY <2>1, OrderTail DEF OrderInv, PicInv
<1> QED BY <1>1, <1>2, <1>3, <1>4, <1>5, <1>6, <1>7, <1>8, <1>9, <1>10, <1>11, <1>12 DEF BootStep

\* A step of boot is taken while no interrupt is handled, and touches neither the
\* keyboard nor, but for the first initialization word, what the PIC has pending.
LEMMA BootLeaves ==
    ASSUME BootStep
    PROVE  /\ stack = << >> /\ stack' = stack
           /\ typed' = typed /\ bytes' = bytes /\ tooSoon' = tooSoon /\ masked' = masked
           /\ switched' = switched
           /\ irr' = irr \/ irr' = {}
           /\ isr' = isr \/ isr' = {}
           /\ mode' \in {mode, "run", "spin", "halt"}
<1>1. CASE Lock
  BY <1>1 DEF Lock, At, pic, keyboard
<1>2. CASE Unlock
  BY <1>2 DEF Unlock, At, pic, keyboard
<1>3. CASE Check
  BY <1>3 DEF Check, At, pic, keyboard
<1>4. CASE SetMask
  BY <1>4 DEF SetMask, At, keyboard
<1>5. CASE Icw1
  BY <1>5 DEF Icw1, At, keyboard
<1>6. CASE Icw2
  BY <1>6 DEF Icw2, At, keyboard
<1>7. CASE Lidt
  BY <1>7 DEF Lidt, At, pic, keyboard
<1>8. CASE Flag
  BY <1>8 DEF Flag, At, pic, keyboard
<1>9. CASE Register
  BY <1>9 DEF Register, At, pic, keyboard
<1>10. CASE Create
  BY <1>10 DEF Create, At, pic, keyboard
<1>11. CASE Hlt
  BY <1>11 DEF Hlt, vars, pic, keyboard
<1>12. CASE Hcf
  BY <1>12 DEF Hcf, At, pic, keyboard
<1> QED BY <1>1, <1>2, <1>3, <1>4, <1>5, <1>6, <1>7, <1>8, <1>9, <1>10, <1>11, <1>12 DEF BootStep

\* The types of what boot's steps set.
LEMMA BootTypes ==
    ASSUME Inv, BootStep
    PROVE  /\ flag' \in BOOLEAN /\ idt' \in BOOLEAN /\ remapped' \in BOOLEAN
           /\ _pic_mask' \subseteq IRQ /\ imr' \subseteq IRQ /\ irq_handlers' \subseteq IRQ
           /\ lock' \in BOOLEAN /\ published' \in BOOLEAN
<1> USE DEF Inv, TypeOK
<1>1. CASE Lock
  BY <1>1 DEF Lock, pic
<1>2. CASE Unlock
  BY <1>2 DEF Unlock, pic
<1>3. CASE Check
  BY <1>3 DEF Check, pic
<1>4. CASE SetMask
  <2>1. code # << >> /\ Head(code).op \in {"mask", "mask1", "unmask"}
    BY <1>4 DEF SetMask, At
  <2>2. Head(code).irq \in IRQ
    BY <2>1, OrderTail DEF Instr
  <2>3. NewMask \subseteq IRQ
    BY <2>1, <2>2 DEF NewMask, irqArg
  <2> QED BY <1>4, <2>3 DEF SetMask
<1>5. CASE Icw1
  BY <1>5 DEF Icw1
<1>6. CASE Icw2
  BY <1>6 DEF Icw2
<1>7. CASE Lidt
  BY <1>7 DEF Lidt, pic
<1>8. CASE Flag
  BY <1>8 DEF Flag, pic, At
<1>9. CASE Register
  <2>1. code # << >>
    BY <1>9 DEF Register, At
  <2>2. Head(code).irq \in IRQ
    BY <2>1, OrderTail DEF Instr
  <2> QED BY <1>9, <2>2 DEF Register, pic, irqArg
<1>10. CASE Create
  BY <1>10 DEF Create, pic
<1>11. CASE Hlt
  BY <1>11 DEF Hlt, vars, pic
<1>12. CASE Hcf
  BY <1>12 DEF Hcf, pic
<1> QED BY <1>1, <1>2, <1>3, <1>4, <1>5, <1>6, <1>7, <1>8, <1>9, <1>10, <1>11, <1>12 DEF BootStep

\* Boot keeps the invariant.
LEMMA BootKeeps == ASSUME Inv, BootStep PROVE Inv'
<1> USE DEF Inv
<1>1. OrderInv' /\ PicInv'
  BY BootOrder
<1>2. TypeOK'
  <2>1. code' \in Seq([op : Ops, irq : IRQ])
    BY <1>1 DEF OrderInv, Instr
  <2> QED BY <2>1, BootTypes, BootLeaves DEF TypeOK
<1>3. StackInv' /\ KeyInv' /\ ServiceInv'
  BY BootLeaves DEF StackInv, KeyInv, ServiceInv
<1>4. NeverResets'
  BY BootLeaves DEF NeverResets
<1> QED BY <1>1, <1>2, <1>3, <1>4

--------------------------------------------------------------------------------
(* Interrupts and devices *)

\* Steps that are not boot's leave what boot set up alone.
LEMMA OrderKept ==
    ASSUME Inv, UNCHANGED <<code, idt, _pic_mask, imr, remapped, irq_handlers>>
    PROVE  OrderInv' /\ PicInv'
BY DEF Inv, OrderInv, PicInv

\* A sequence of one element.
LEMMA OneElement ==
    ASSUME NEW S, NEW s \in Seq(S), s # << >>, Len(s) <= 1
    PROVE  Head(s) \in S /\ Head(s) = s[1] /\ Len(s) = 1 /\ DOMAIN s = {1}
<1>1. Len(s) \in Nat /\ DOMAIN s = 1 .. Len(s) /\ Len(s) # 0
  OBVIOUS
<1>2. Len(s) = 1 /\ DOMAIN s = {1}
  BY <1>1
<1> QED BY <1>2

\* The interrupt being handled goes on with its next part.
LEMMA Continues ==
    ASSUME stack \in Seq(Entry), stack # << >>, Len(stack) <= 1,
           NEW a \in {"handler", "exception", "eoi", "iret"}, Continue(a)
    PROVE  /\ stack' \in Seq(Entry) /\ stack' # << >> /\ Len(stack') <= 1
           /\ Head(stack').irq = Head(stack).irq /\ Head(stack').at = a
           /\ Head(stack) \in Entry
<1> DEFINE e == Head(stack)
           f == [e EXCEPT !.at = a]
<1>1. e \in Entry /\ e = stack[1] /\ Len(stack) = 1 /\ DOMAIN stack = {1}
  BY OneElement
<1>2. f \in Entry /\ f.irq = e.irq /\ f.at = a
  BY <1>1 DEF Entry
<1>3. stack' = [stack EXCEPT ![1] = f]
  BY <1>1 DEF Continue
<1> HIDE DEF e, f
<1>4. stack' \in Seq(Entry) /\ Len(stack') = 1 /\ stack'[1] = f
  BY <1>1, <1>2, <1>3
<1>5. Head(stack') = f /\ stack' # << >>
  BY <1>4
<1> QED BY <1>1, <1>2, <1>4, <1>5 DEF e

\* The PIC has at most one IRQ in service, so ending the one of highest priority ends it.
LEMMA EndsAll == ASSUME NEW s, NEW i, s \subseteq {i}, i \in IRQ PROVE Ended(s) = {}
<1>1. ASSUME NEW x \in s, NEW y \in s, y < x PROVE FALSE
  <2>1. x = i /\ y = i /\ i \in Int
    BY DEF IRQ
  <2> QED BY <1>1, <2>1
<1> QED BY <1>1 DEF Ended

\* A device raises its line.
LEMMA DeviceInv == ASSUME Inv, TimerEdge \/ KeyPress PROVE Inv'
<1> USE DEF Inv
<1>1. CASE TimerEdge
  <2>1. /\ irr' = irr \cup {0}
        /\ UNCHANGED <<code, flag, idt, _pic_mask, imr, isr, remapped, irq_handlers, stack,
                       lock, published, switched, mode, typed, bytes, tooSoon, masked>>
    BY <1>1 DEF TimerEdge, keyboard
  <2>2. TypeOK'
    BY <2>1 DEF TypeOK, IRQ
  <2>3. StackInv' /\ KeyInv' /\ ServiceInv' /\ NeverResets'
    BY <2>1 DEF StackInv, KeyInv, ServiceInv, NeverResets
  <2> QED BY <2>1, <2>2, <2>3, OrderKept
<1>2. CASE KeyPress
  <2>1. /\ typed < MaxKeys /\ typed' = typed + 1 /\ bytes' = bytes + 1
        /\ tooSoon' = (tooSoon \/ 1 \notin irq_handlers)
        /\ irr' = IF bytes = 0 THEN irr \cup {1} ELSE irr
        /\ UNCHANGED <<code, flag, idt, _pic_mask, imr, isr, remapped, irq_handlers, stack,
                       lock, published, switched, mode, masked>>
    BY <1>2 DEF KeyPress
  <2>2. typed \in Nat /\ bytes \in Nat /\ bytes <= typed /\ MaxKeys \in Nat
    BY BootAssumption DEF TypeOK, KeyInv
  <2>3. typed' \in 0 .. MaxKeys /\ bytes' \in 0 .. MaxKeys
    BY <2>1, <2>2
  <2>4. TypeOK'
    BY <2>1, <2>3 DEF TypeOK, IRQ
  <2>5. KeyInv'
    BY <2>1, <2>2 DEF KeyInv
  <2>6. StackInv' /\ ServiceInv' /\ NeverResets'
    BY <2>1 DEF StackInv, ServiceInv, NeverResets
  <2> QED BY <2>1, <2>4, <2>5, <2>6, OrderKept
<1> QED BY <1>1, <1>2

\* An interrupt is taken: there is an IDT, for without one everything is masked; it is
\* taken for an exception only if the kernel has it masked.
LEMMA DeliverInv == ASSUME Inv, NEW irq \in IRQ, Deliver(irq) PROVE Inv'
<1> USE DEF Inv
<1> DEFINE e == [irq |-> irq, at |-> IF remapped THEN "handler" ELSE "exception"]
<1>1. /\ flag /\ irq \in irr /\ irq \notin imr
      /\ irr' = irr \ {irq} /\ isr' = isr \cup {irq} /\ flag' = FALSE
      /\ stack' = <<e>> \o stack
      /\ mode' = IF idt THEN "run" ELSE "reset"
      /\ masked' = (masked \/ irq \in _pic_mask)
      /\ UNCHANGED <<code, idt, _pic_mask, imr, remapped, irq_handlers, lock, published,
                     switched, typed, bytes, tooSoon>>
  BY DEF Deliver, Grants, FlagInHandler, keyboard
<1>2. stack = << >> /\ stack' = <<e>>
  <2>1. stack \in Seq([irq : IRQ, at : {"handler", "exception", "eoi", "iret"}]) /\ stack = << >>
    BY <1>1 DEF TypeOK, StackInv
  <2> QED BY <1>1, <2>1
<1>3. e \in Entry /\ e.irq = irq /\ e.at = IF remapped THEN "handler" ELSE "exception"
  BY DEF Entry
<1> HIDE DEF e
<1>4. stack' \in Seq(Entry) /\ stack' # << >> /\ Len(stack') = 1 /\ Head(stack') = e
  BY <1>2, <1>3
<1>5. TypeOK'
  <2>1. stack' \in Seq([irq : IRQ, at : {"handler", "exception", "eoi", "iret"}])
    BY <1>4 DEF Entry
  <2> QED BY <1>1, <2>1 DEF TypeOK
<1>6. idt
  BY <1>1 DEF PicInv
<1>7. NeverResets'
  BY <1>1, <1>6 DEF NeverResets
<1>8. StackInv'
  BY <1>1, <1>4 DEF StackInv
<1>9. KeyInv'
  BY <1>1, <1>3, <1>4 DEF KeyInv
<1>10. ServiceInv'
  <2> SUFFICES ASSUME ~masked'
      PROVE  isr' \subseteq {irq} /\ e.at = "handler"
    BY <1>3, <1>4 DEF ServiceInv
  <2>1. ~masked /\ irq \notin _pic_mask
    BY <1>1
  <2>2. isr = {}
    BY <1>2, <2>1 DEF ServiceInv
  <2>3. remapped
    BY <2>1 DEF PicInv
  <2> QED BY <1>1, <1>3, <2>2, <2>3
<1> QED BY <1>1, <1>5, <1>7, <1>8, <1>9, <1>10, OrderKept

\* A handled interrupt: the keyboard's byte is there to be read.
LEMMA HandlerInv == ASSUME Inv, Handler PROVE Inv'
<1> USE DEF Inv
<1>1. /\ stack # << >> /\ Head(stack).at = "handler" /\ Continue("eoi")
      /\ isr' = Ended(isr)
      /\ UNCHANGED <<code, flag, idt, _pic_mask, imr, remapped, irq_handlers, lock, published,
                     mode, typed, tooSoon, masked>>
  BY DEF Handler, Handling
<1>2. stack \in Seq(Entry) /\ Len(stack) <= 1
  BY DEF TypeOK, StackInv, Entry
<1>3. /\ stack' \in Seq(Entry) /\ stack' # << >> /\ Len(stack') <= 1
      /\ Head(stack').irq = Head(stack).irq /\ Head(stack').at = "eoi"
      /\ Head(stack).irq \in IRQ
  BY <1>1, <1>2, Continues DEF Entry
<1>4. isr' \subseteq isr
  BY <1>1 DEF Ended
<1>5. /\ bytes' \in 0 .. MaxKeys /\ bytes' <= typed /\ irr' \subseteq IRQ
      /\ 1 \in irr' => bytes' > 0
      /\ switched' \in BOOLEAN
  <2>1. typed \in Nat /\ bytes \in 0 .. MaxKeys /\ MaxKeys \in Nat
    BY BootAssumption DEF TypeOK
  <2>2. CASE irqNow = 1
    <3>1. bytes > 0 /\ 1 \notin irr
      BY <1>1, <2>2 DEF KeyInv, irqNow
    <3>2. bytes' = bytes - 1 /\ (irr' = IF bytes' > 0 THEN irr \cup {1} ELSE irr)
          /\ switched' = switched
      BY <2>2 DEF Handler, ReadData
    <3>3. bytes' \in 0 .. MaxKeys /\ bytes' <= typed
      BY <2>1, <3>1, <3>2 DEF KeyInv
    <3>4. irr' \subseteq IRQ /\ (1 \in irr' => bytes' > 0) /\ switched' \in BOOLEAN
      BY <3>1, <3>2 DEF TypeOK, IRQ
    <3> QED BY <3>3, <3>4
  <2>3. CASE irqNow # 1
    <3>1. bytes' = bytes /\ irr' = irr /\ switched' = (switched \/ published)
      BY <2>3 DEF Handler
    <3> QED BY <3>1 DEF KeyInv, TypeOK
  <2> QED BY <2>2, <2>3
<1>6. TypeOK'
  BY <1>1, <1>3, <1>4, <1>5 DEF TypeOK, Entry
<1>7. StackInv' /\ KeyInv' /\ NeverResets'
  BY <1>1, <1>3, <1>5 DEF StackInv, KeyInv, NeverResets
<1>8. ServiceInv'
  BY <1>1, <1>3, <1>4 DEF ServiceInv
<1> QED BY <1>1, <1>6, <1>7, <1>8, OrderKept

\* The rest of handling an interrupt.
LEMMA InterruptInv == ASSUME Inv, Ignore \/ EndOfInterrupt \/ Exception \/ Iret PROVE Inv'
<1> USE DEF Inv
<1>1. stack \in Seq(Entry) /\ Len(stack) <= 1 /\ stack # << >>
  BY DEF TypeOK, StackInv, Entry, Ignore, EndOfInterrupt, Exception, Iret, Handling
<1>2. Head(stack).irq \in IRQ
  <2>1. Head(stack) \in Entry
    BY <1>1
  <2> QED BY <2>1 DEF Entry
<1>3. UNCHANGED <<code, idt, _pic_mask, imr, irr, remapped, irq_handlers, lock, published,
                  switched, typed, bytes, tooSoon, masked>>
  BY DEF Ignore, EndOfInterrupt, Exception, Iret, pic, keyboard
<1>4. CASE Ignore
  <2>1. /\ Head(stack).at = "handler" /\ UNCHANGED <<flag, isr>> /\ mode' \in {mode, "spin"}
        /\ stack' = stack \/ Continue("eoi")
    BY <1>4 DEF Ignore, Handling, pic
  <2>2. /\ stack' \in Seq(Entry) /\ stack' # << >> /\ Len(stack') <= 1
        /\ Head(stack').irq = Head(stack).irq
        /\ stack' = stack \/ Head(stack').at = "eoi"
    BY <1>1, <2>1, Continues
  <2>3. TypeOK'
    BY <1>3, <2>1, <2>2 DEF TypeOK, Entry
  <2>4. StackInv' /\ KeyInv' /\ ServiceInv' /\ NeverResets'
    BY <1>1, <1>3, <2>1, <2>2 DEF StackInv, KeyInv, ServiceInv, NeverResets
  <2> QED BY <1>3, <2>3, <2>4, OrderKept
<1>5. CASE EndOfInterrupt
  <2>1. Head(stack).at = "eoi" /\ UNCHANGED <<flag, mode>> /\ isr' = Ended(isr) /\ Continue("iret")
    BY <1>5 DEF EndOfInterrupt, Handling
  <2>2. /\ stack' \in Seq(Entry) /\ stack' # << >> /\ Len(stack') <= 1
        /\ Head(stack').irq = Head(stack).irq /\ Head(stack').at = "iret"
    BY <1>1, <2>1, Continues
  <2>3. isr' \subseteq isr /\ (~masked => isr' = {})
    <3>1. isr' \subseteq isr
      BY <2>1 DEF Ended
    <3>2. ASSUME ~masked PROVE isr' = {}
      BY <1>1, <1>2, <2>1, <3>2, EndsAll DEF ServiceInv
    <3> QED BY <3>1, <3>2
  <2>4. TypeOK'
    BY <1>3, <2>1, <2>2, <2>3 DEF TypeOK, Entry
  <2>5. StackInv' /\ KeyInv' /\ ServiceInv' /\ NeverResets'
    BY <1>1, <1>3, <2>1, <2>2, <2>3 DEF StackInv, KeyInv, ServiceInv, NeverResets
  <2> QED BY <1>3, <2>4, <2>5, OrderKept
<1>6. CASE Exception
  <2>1. /\ Head(stack).at = "exception" /\ UNCHANGED <<flag, isr>>
        /\ mode' \in {mode, "spin", "panic"}
        /\ stack' = stack \/ Continue("iret")
    BY <1>6 DEF Exception, Handling, pic
  <2>2. /\ stack' \in Seq(Entry) /\ stack' # << >> /\ Len(stack') <= 1
        /\ Head(stack').irq = Head(stack).irq
        /\ stack' = stack \/ Head(stack').at = "iret"
    BY <1>1, <2>1, Continues
  <2>3. masked
    BY <1>1, <2>1 DEF ServiceInv
  <2>4. TypeOK'
    BY <1>3, <2>1, <2>2 DEF TypeOK, Entry
  <2>5. StackInv' /\ KeyInv' /\ ServiceInv' /\ NeverResets'
    BY <1>1, <1>3, <2>1, <2>2, <2>3 DEF StackInv, KeyInv, ServiceInv, NeverResets
  <2> QED BY <1>3, <2>4, <2>5, OrderKept
<1>7. CASE Iret
  <2>1. Head(stack).at = "iret" /\ UNCHANGED <<mode, isr>> /\ flag' = TRUE /\ stack' = Tail(stack)
    BY <1>7 DEF Iret, Handling, pic
  <2>2. stack' = << >> /\ stack' \in Seq(Entry)
    BY <1>1, <2>1
  <2>3. TypeOK'
    BY <1>3, <2>1, <2>2 DEF TypeOK, Entry
  <2>4. StackInv' /\ KeyInv' /\ ServiceInv' /\ NeverResets'
    BY <1>1, <1>3, <2>1, <2>2 DEF StackInv, KeyInv, ServiceInv, NeverResets
  <2> QED BY <1>3, <2>3, <2>4, OrderKept
<1> QED BY <1>4, <1>5, <1>6, <1>7

\* At boot, sys_entry is all that is left and its order needs nothing.
LEMMA InitInv == Init => Inv
<1> SUFFICES ASSUME Init PROVE Inv
  OBVIOUS
<1>1. TypeOK
  <2>1. code \in Seq([op : Ops, irq : IRQ])
    BY AllSteps DEF Init, Instr
  <2>2. stack \in Seq([irq : IRQ, at : {"handler", "exception", "eoi", "iret"}])
    BY DEF Init
  <2>3. typed \in 0 .. MaxKeys /\ bytes \in 0 .. MaxKeys
    BY BootAssumption DEF Init
  <2>4. /\ _pic_mask \subseteq IRQ /\ imr \subseteq IRQ /\ irr \subseteq IRQ
        /\ isr \subseteq IRQ /\ irq_handlers \subseteq IRQ
    BY DEF Init
  <2>5. /\ flag \in BOOLEAN /\ idt \in BOOLEAN /\ remapped \in BOOLEAN
        /\ lock \in BOOLEAN /\ published \in BOOLEAN /\ switched \in BOOLEAN
        /\ tooSoon \in BOOLEAN /\ masked \in BOOLEAN
        /\ mode \in {"run", "spin", "halt", "panic", "reset"}
    BY DEF Init
  <2> QED BY <2>1, <2>2, <2>3, <2>4, <2>5 DEF TypeOK
<1>2. /\ IdtFirst(sys_entry, TRUE, FALSE) /\ RemapFirst(sys_entry, TRUE, FALSE)
  BY IdtFirstEntry, RemapFirstEntry, RunsWeaker DEF IdtFirst, RemapFirst
<1>3. OrderInv
  BY <1>2, AllSteps, IdtFirstEntry, MaskedFirstEntry, RemapFirstEntry, HandlersLastEntry
  DEF Init, OrderInv
<1>4. PicInv /\ StackInv /\ KeyInv /\ ServiceInv /\ NeverResets
  BY DEF Init, PicInv, StackInv, KeyInv, ServiceInv, NeverResets
<1> QED BY <1>1, <1>3, <1>4 DEF Inv

--------------------------------------------------------------------------------
(* Theorems about every build *)

\* The invariant holds with and without _DEBUG and for any number of keys.
THEOREM Invariance == Spec => []Inv
<1>1. Inv /\ [Next]_vars => Inv'
  <2> SUFFICES ASSUME Inv, [Next]_vars PROVE Inv'
    OBVIOUS
  <2>1. CASE BootStep
    BY <2>1, BootKeeps
  <2>2. CASE TimerEdge \/ KeyPress
    BY <2>2, DeviceInv
  <2>3. CASE Interrupt
    BY <2>3, HandlerInv, InterruptInv DEF Interrupt
  <2>4. CASE Process
    <3>1. UNCHANGED <<code, flag, idt, _pic_mask, imr, irr, isr, remapped, irq_handlers, stack,
                      lock, published, switched, typed, bytes, tooSoon, masked>>
          /\ mode' \in {"run", "spin"}
      BY <2>4 DEF Process, pic, keyboard
    <3>2. TypeOK' /\ StackInv' /\ KeyInv' /\ ServiceInv' /\ NeverResets'
      BY <3>1 DEF Inv, TypeOK, StackInv, KeyInv, ServiceInv, NeverResets
    <3> QED BY <3>1, <3>2, OrderKept DEF Inv
  <2>5. CASE Stopped \/ UNCHANGED vars
    <3>1. UNCHANGED <<code, flag, idt, _pic_mask, imr, irr, isr, remapped, irq_handlers, stack,
                      lock, published, switched, mode, typed, bytes, tooSoon, masked>>
      BY <2>5 DEF Stopped, vars, pic, keyboard
    <3>2. TypeOK' /\ StackInv' /\ KeyInv' /\ ServiceInv' /\ NeverResets'
      BY <3>1 DEF Inv, TypeOK, StackInv, KeyInv, ServiceInv, NeverResets
    <3> QED BY <3>1, <3>2, OrderKept DEF Inv
  <2>6. CASE \E irq \in IRQ : Deliver(irq)
    BY <2>6, DeliverInv
  <2> QED BY <2>1, <2>2, <2>3, <2>4, <2>5, <2>6 DEF Next
<1> QED BY InitInv, <1>1, PTL DEF Spec

\* Boot's state keeps its types: in particular the keyboard's controller is never read
\* when it is empty.
THEOREM TypeCorrect == Spec => []TypeOK
<1>1. Inv => TypeOK
  BY DEF Inv
<1> QED BY Invariance, <1>1, PTL

\* No interrupt is taken without an IDT, although rtc_init enables interrupts before
\* there is one.
THEOREM NoReset == Spec => []NeverResets
<1>1. Inv => NeverResets
  BY DEF Inv
<1> QED BY Invariance, <1>1, PTL

\* Signalling end of interrupt twice never ends an interrupt other than the one being
\* handled, unless one was taken while the PIC was being programmed.
THEOREM NoForeignEnd == Spec => EndsItsOwn
<1> DEFINE A == ~masked => \A irq \in isr \ isr' : irq = irqNow
<1>1. Inv /\ [Next]_vars => [A]_vars
  <2> SUFFICES ASSUME Inv, Next PROVE A
    OBVIOUS
  <2> SUFFICES ASSUME ~masked, NEW irq \in isr \ isr' PROVE irq = irqNow
    OBVIOUS
  <2>1. CASE stack = << >>
    BY <2>1 DEF Inv, ServiceInv
  <2>2. CASE stack # << >>
    BY <2>2 DEF Inv, ServiceInv, irqNow
  <2> QED BY <2>1, <2>2
<1> QED BY Invariance, <1>1, PTL DEF Spec, EndsItsOwn

--------------------------------------------------------------------------------
(* The lock, in a build without _DEBUG *)

\* IRQ i is masked, and stays so when the mask is written again, or has a handler.
Quiet(i) == (i \in imr /\ i \in _pic_mask) \/ i \in irq_handlers

\* For the lock, init and each IRQ, what is left of sys_entry needs at most what is
\* known now.
LockInv ==
    /\ LockPairs(code, TRUE, FALSE) /\ CreateLast(code, TRUE, FALSE)
    /\ lock => LockPairs(code, FALSE, FALSE)
    /\ published => CreateLast(code, FALSE, FALSE)
    /\ \A i \in IRQ : /\ QuietFirst(i, code, TRUE, FALSE)
                      /\ ~Quiet(i) => QuietFirst(i, code, FALSE, FALSE)

\* While boot holds the lock, whoever can interrupt it does not print.
SpinInv ==
    /\ lock => ~published /\ \A i \in IRQ : Quiet(i)
    /\ lock /\ stack # << >> =>
          /\ Head(stack).at # "exception"
          /\ Head(stack).at = "handler" => Head(stack).irq \in irq_handlers
    /\ switched => published

QuietInv == Inv /\ LockInv /\ SpinInv /\ NeverSpins

\* What the next step may rely on, and what is left to rely on after it.
LEMMA LockTail ==
    ASSUME Inv, LockInv, code # << >>
    PROVE  /\ Head(code).op # "unlock" => ~lock
           /\ Head(code).op \in Printers => ~published /\ \A i \in IRQ : Quiet(i)
           /\ LockPairs(Tail(code), TRUE, FALSE) /\ CreateLast(Tail(code), TRUE, FALSE)
           /\ \/ Head(code).op = "unlock"
              \/ ~lock /\ Head(code).op # "lock"
              \/ LockPairs(Tail(code), FALSE, FALSE)
           /\ (~published /\ Head(code).op # "create") \/ CreateLast(Tail(code), FALSE, FALSE)
           /\ \A i \in IRQ :
                 /\ QuietFirst(i, Tail(code), TRUE, FALSE)
                 /\ \/ Head(code).op = "mask"
                    \/ Head(code).op \in {"mask1", "register"} /\ Head(code).irq = i
                    \/ /\ Quiet(i) /\ Head(code).op # "icw1"
                       /\ ~(Head(code).op = "unmask" /\ Head(code).irq = i)
                    \/ QuietFirst(i, Tail(code), FALSE, FALSE)
<1> DEFINE x == Head(code)
<1>1. x \in Instr
  BY OrderTail DEF Inv
<1>2. x.op \in Ops /\ \A ops : x \in Performs(ops) <=> x.op \in ops
  BY <1>1 DEF Performs, Instr
<1> HIDE DEF x
<1>3. /\ x.op # "unlock" => ~lock
      /\ LockPairs(Tail(code), TRUE, FALSE)
      /\ x.op = "unlock" \/ (~lock /\ x.op # "lock") \/ LockPairs(Tail(code), FALSE, FALSE)
  <2> DEFINE E == Performs({"unlock"})
             B == Performs({"lock"})
             W == Performs(Ops \ {"unlock"})
  <2>1. /\ x \in E <=> x.op = "unlock"
        /\ x \in B <=> x.op = "lock"
        /\ x \in W <=> x.op # "unlock"
    BY <1>2
  <2>2. /\ Runs(code, E, B, W, TRUE, FALSE)
        /\ lock => Runs(code, E, B, W, FALSE, FALSE)
    BY DEF LockInv, LockPairs
  <2> HIDE DEF E, B, W
  <2>3. CASE lock
    <3>1. Runs(code, E, B, W, FALSE, FALSE)
      BY <2>2, <2>3
    <3> QED BY <2>1, <3>1, RunsTail DEF LockPairs, E, B, W, x
  <2>4. CASE ~lock
    <3> QED BY <2>1, <2>2, <2>4, RunsTail DEF LockPairs, E, B, W, x
  <2> QED BY <2>3, <2>4
<1>4. /\ x.op \in Printers => ~published
      /\ CreateLast(Tail(code), TRUE, FALSE)
      /\ (~published /\ x.op # "create") \/ CreateLast(Tail(code), FALSE, FALSE)
  <2> DEFINE B == Performs({"create"})
             W == Performs(Printers)
  <2>1. /\ x \in B <=> x.op = "create"
        /\ x \in W <=> x.op \in Printers
    BY <1>2
  <2>2. /\ Runs(code, {}, B, W, TRUE, FALSE)
        /\ published => Runs(code, {}, B, W, FALSE, FALSE)
    BY DEF LockInv, CreateLast
  <2> HIDE DEF B, W
  <2>3. CASE published
    <3>1. Runs(code, {}, B, W, FALSE, FALSE)
      BY <2>2, <2>3
    <3> QED BY <2>1, <3>1, RunsTail DEF CreateLast, B, W, x
  <2>4. CASE ~published
    <3> QED BY <2>1, <2>2, <2>4, RunsTail DEF CreateLast, B, W, x
  <2> QED BY <2>3, <2>4
<1>5. ASSUME NEW i \in IRQ
      PROVE  /\ x.op \in Printers => Quiet(i)
             /\ QuietFirst(i, Tail(code), TRUE, FALSE)
             /\ \/ x.op = "mask"
                \/ x.op \in {"mask1", "register"} /\ x.irq = i
                \/ Quiet(i) /\ x.op # "icw1" /\ ~(x.op = "unmask" /\ x.irq = i)
                \/ QuietFirst(i, Tail(code), FALSE, FALSE)
  <2> DEFINE E == {y \in Instr : y.op = "mask" \/ (y.op \in {"mask1", "register"} /\ y.irq = i)}
             B == {y \in Instr : y.op = "icw1" \/ (y.op = "unmask" /\ y.irq = i)}
             W == Performs(Printers)
  <2>1. /\ x \in E <=> x.op = "mask" \/ (x.op \in {"mask1", "register"} /\ x.irq = i)
        /\ x \in B <=> x.op = "icw1" \/ (x.op = "unmask" /\ x.irq = i)
        /\ x \in W <=> x.op \in Printers
    BY <1>1, <1>2
  <2>2. /\ Runs(code, E, B, W, TRUE, FALSE)
        /\ ~Quiet(i) => Runs(code, E, B, W, FALSE, FALSE)
    BY DEF LockInv, QuietFirst
  <2> HIDE DEF E, B, W
  <2>3. CASE ~Quiet(i)
    <3>1. Runs(code, E, B, W, FALSE, FALSE)
      BY <2>2, <2>3
    <3> QED BY <2>1, <3>1, RunsTail DEF QuietFirst, E, B, W, x
  <2>4. CASE Quiet(i)
    <3> QED BY <2>1, <2>2, <2>4, RunsTail DEF QuietFirst, E, B, W, x
  <2> QED BY <2>3, <2>4
<1> QED BY <1>3, <1>4, <1>5 DEF x

\* A step of boot that takes no lock and publishes nothing.
LEMMA PlainStep ==
    ASSUME QuietInv, code # << >>, code' = Tail(code),
           Head(code).op \notin {"lock", "unlock", "create"},
           UNCHANGED <<stack, lock, published, switched>>, mode' \in {mode, "halt"},
           \A i \in IRQ :
              (\/ Head(code).op = "mask"
               \/ Head(code).op \in {"mask1", "register"} /\ Head(code).irq = i
               \/ /\ Quiet(i) /\ Head(code).op # "icw1"
                  /\ ~(Head(code).op = "unmask" /\ Head(code).irq = i)) => Quiet(i)'
    PROVE  LockInv' /\ SpinInv' /\ NeverSpins'
<1> USE DEF QuietInv
<1>1. ~lock /\ ~lock'
  BY LockTail
<1>2. LockInv'
  <2>1. /\ LockPairs(code, TRUE, FALSE)' /\ CreateLast(code, TRUE, FALSE)'
        /\ published' => CreateLast(code, FALSE, FALSE)'
    BY LockTail DEF LockPairs, CreateLast
  <2>2. ASSUME NEW i \in IRQ
        PROVE  QuietFirst(i, code, TRUE, FALSE)' /\ (~Quiet(i)' => QuietFirst(i, code, FALSE, FALSE)')
    BY LockTail DEF QuietFirst
  <2> QED BY <1>1, <2>1, <2>2 DEF LockInv
<1>3. SpinInv'
  BY <1>1 DEF SpinInv
<1>4. NeverSpins'
  BY DEF NeverSpins
<1> QED BY <1>2, <1>3, <1>4

\* Giving up publishes nothing, unmasks nothing and releases the lock.
LEMMA FailureQuiet ==
    ASSUME NEW t \in {GIVE_UP, FAILURE}
    PROVE  /\ LockPairs(t, TRUE, FALSE) /\ CreateLast(t, TRUE, FALSE)
           /\ \A i \in IRQ : QuietFirst(i, t, TRUE, FALSE)
<1>1. t \in Seq(Performs(FailureOps))
  BY FailureSteps
<1>2. ASSUME NEW E, NEW B, NEW W, Performs(FailureOps) \cap B = {}
      PROVE  Runs(t, E, B, W, TRUE, FALSE)
  <2>1. Runs(t, E, B, W, TRUE, TRUE)
    BY <1>1, <1>2, Keeps
  <2> QED BY <2>1, RunsWeaker
<1>3. CreateLast(t, TRUE, FALSE)
  <2>1. Performs(FailureOps) \cap Performs({"create"}) = {}
    BY DEF Performs, FailureOps
  <2> QED BY <1>2, <2>1 DEF CreateLast
<1>4. ASSUME NEW i \in IRQ PROVE QuietFirst(i, t, TRUE, FALSE)
  <2>1. Performs(FailureOps)
        \cap {x \in Instr : x.op = "icw1" \/ (x.op = "unmask" /\ x.irq = i)} = {}
    BY DEF Performs, FailureOps
  <2> QED BY <1>2, <2>1 DEF QuietFirst
<1> QED BY <1>3, <1>4, LockPairsEntry

\* Boot's steps, with the lock.
LEMMA BootQuiet == ASSUME QuietInv, BootStep PROVE LockInv' /\ SpinInv' /\ NeverSpins'
<1> USE DEF QuietInv
<1>1. stack = << >>
  BY BootLeaves
<1>2. CASE Lock
  <2>1. code # << >> /\ Head(code).op = "lock"
    BY <1>2 DEF Lock, At
  <2>2. ~lock /\ ~published /\ \A i \in IRQ : Quiet(i)
    BY <2>1, LockTail DEF Printers
  <2>3. /\ lock' = TRUE /\ code' = Tail(code)
        /\ UNCHANGED <<stack, imr, _pic_mask, irq_handlers, published, switched, mode>>
    BY <1>2, <2>2 DEF Lock, Done, pic
  <2>4. \A i \in IRQ : Quiet(i)'
    BY <2>2, <2>3 DEF Quiet
  <2>5. LockInv'
    <3>1. LockPairs(code, TRUE, FALSE)' /\ CreateLast(code, TRUE, FALSE)'
          /\ LockPairs(code, FALSE, FALSE)'
      BY <2>1, <2>3, LockTail DEF LockPairs, CreateLast
    <3>2. \A i \in IRQ : QuietFirst(i, code, TRUE, FALSE)'
      BY <2>1, <2>3, LockTail DEF QuietFirst
    <3> QED BY <2>2, <2>3, <2>4, <3>1, <3>2 DEF LockInv
  <2>6. SpinInv' /\ NeverSpins'
    BY <1>1, <2>2, <2>3, <2>4 DEF SpinInv, NeverSpins
  <2> QED BY <2>5, <2>6
<1>3. CASE Unlock
  <2>1. /\ code # << >> /\ Head(code).op = "unlock" /\ lock' = FALSE /\ code' = Tail(code)
        /\ UNCHANGED <<stack, imr, _pic_mask, irq_handlers, published, switched, mode>>
    BY <1>3 DEF Unlock, At, Done, pic
  <2>2. \A i \in IRQ : Quiet(i)' <=> Quiet(i)
    BY <2>1 DEF Quiet
  <2>3. LockInv'
    <3>1. /\ LockPairs(code, TRUE, FALSE)' /\ CreateLast(code, TRUE, FALSE)'
          /\ published' => CreateLast(code, FALSE, FALSE)'
      BY <2>1, LockTail DEF LockPairs, CreateLast
    <3>2. ASSUME NEW i \in IRQ
          PROVE  /\ QuietFirst(i, code, TRUE, FALSE)'
                 /\ ~Quiet(i)' => QuietFirst(i, code, FALSE, FALSE)'
      BY <2>1, <2>2, LockTail DEF QuietFirst
    <3> QED BY <2>1, <3>1, <3>2 DEF LockInv
  <2>4. SpinInv' /\ NeverSpins'
    BY <2>1 DEF SpinInv, NeverSpins
  <2> QED BY <2>3, <2>4
<1>4. CASE Hcf \/ Flag \/ Lidt \/ Icw2
  <2>1. /\ code # << >> /\ Head(code).op \in {"hcf", "cli", "sti", "lidt", "icw2"}
        /\ code' = Tail(code)
        /\ UNCHANGED <<stack, lock, published, switched, imr, _pic_mask, irq_handlers>>
        /\ mode' = mode \/ mode' = "halt"
    BY <1>4 DEF Hcf, Flag, Lidt, Icw2, At, Done, pic
  <2>2. \A i \in IRQ : Quiet(i)' <=> Quiet(i)
    BY <2>1 DEF Quiet
  <2> QED BY <2>1, <2>2, PlainStep
<1>5. CASE SetMask
  <2>1. /\ code # << >> /\ Head(code).op \in {"mask", "mask1", "unmask"}
        /\ code' = Tail(code) /\ _pic_mask' = NewMask /\ imr' = NewMask
        /\ UNCHANGED <<stack, lock, published, switched, irq_handlers, mode>>
    BY <1>5 DEF SetMask, At, Done
  <2>2. ASSUME NEW i \in IRQ,
               \/ Head(code).op = "mask"
               \/ Head(code).op \in {"mask1", "register"} /\ Head(code).irq = i
               \/ /\ Quiet(i) /\ Head(code).op # "icw1"
                  /\ ~(Head(code).op = "unmask" /\ Head(code).irq = i)
        PROVE  Quiet(i)'
    <3>1. CASE i \in irq_handlers
      BY <2>1, <3>1 DEF Quiet
    <3>2. CASE i \notin irq_handlers
      <4>1. i \in NewMask
        BY <2>1, <2>2, <3>2 DEF Quiet, NewMask, irqArg
      <4> QED BY <2>1, <4>1 DEF Quiet
    <3> QED BY <3>1, <3>2
  <2> QED BY <2>1, <2>2, PlainStep
<1>6. CASE Icw1
  <2>1. /\ code # << >> /\ Head(code).op = "icw1" /\ code' = Tail(code)
        /\ UNCHANGED <<stack, lock, published, switched, irq_handlers, mode>>
    BY <1>6 DEF Icw1, At, Done
  <2> QED BY <2>1, PlainStep
<1>7. CASE Register
  <2>1. /\ code # << >> /\ Head(code).op = "register" /\ code' = Tail(code)
        /\ irq_handlers' = irq_handlers \cup {Head(code).irq}
        /\ UNCHANGED <<stack, lock, published, switched, imr, _pic_mask, mode>>
    BY <1>7 DEF Register, At, Done, pic, irqArg
  <2>2. \A i \in IRQ : Quiet(i) \/ Head(code).irq = i => Quiet(i)'
    BY <2>1 DEF Quiet
  <2> QED BY <2>1, <2>2, PlainStep
<1>8. CASE Create
  <2>1. /\ code # << >> /\ Head(code).op = "create"
        /\ \/ published' = TRUE /\ code' = Tail(code)
           \/ published' = published /\ code' = PRINT \o Tail(code)
        /\ UNCHANGED <<stack, lock, switched, imr, _pic_mask, irq_handlers, mode>>
    BY <1>8 DEF Create, At, Done, pic
  <2>2. ~lock /\ ~published /\ \A i \in IRQ : Quiet(i)
    BY <2>1, LockTail DEF Printers
  <2>3. \A i \in IRQ : Quiet(i)'
    BY <2>1, <2>2 DEF Quiet
  <2>4. SpinInv' /\ NeverSpins'
    BY <2>1, <2>2 DEF SpinInv, NeverSpins
  <2>5. CASE published' = TRUE /\ code' = Tail(code)
    <3>1. LockPairs(code, TRUE, FALSE)' /\ CreateLast(code, TRUE, FALSE)'
          /\ CreateLast(code, FALSE, FALSE)'
      BY <2>1, <2>5, LockTail DEF LockPairs, CreateLast
    <3>2. \A i \in IRQ : QuietFirst(i, code, TRUE, FALSE)'
      BY <2>1, <2>5, LockTail DEF QuietFirst
    <3> QED BY <2>1, <2>2, <2>3, <2>4, <3>1, <3>2 DEF LockInv
  <2>6. CASE published' = published /\ code' = PRINT \o Tail(code)
    <3>1. LockPairs(code, TRUE, FALSE)'
      <4>1. LockPairs(Tail(code), TRUE, FALSE)
        BY <2>1, LockTail
      <4>2. LockPairs(PRINT \o Tail(code), TRUE, FALSE)
        BY <4>1, LockPairsEntry, RunsConcat DEF LockPairs
      <4> QED BY <2>6, <4>2 DEF LockPairs
    <3>2. CreateLast(code, TRUE, FALSE)'
      <4>1. CreateLast(Tail(code), TRUE, FALSE)
        BY <2>1, LockTail
      <4>2. Performs(PrintOps) \cap Performs({"create"}) = {}
        BY DEF Performs, PrintOps
      <4>3. CreateLast(PRINT, TRUE, TRUE)
        BY <4>2, PrintSteps, Keeps DEF CreateLast
      <4>4. CreateLast(PRINT \o Tail(code), TRUE, FALSE)
        BY <4>1, <4>3, RunsConcat DEF CreateLast
      <4> QED BY <2>6, <4>4 DEF CreateLast
    <3>3. ASSUME NEW i \in IRQ PROVE QuietFirst(i, code, TRUE, FALSE)'
      <4> DEFINE B == {x \in Instr : x.op = "icw1" \/ (x.op = "unmask" /\ x.irq = i)}
      <4>1. QuietFirst(i, Tail(code), TRUE, FALSE)
        BY <2>1, LockTail
      <4>2. Performs(PrintOps) \cap B = {}
        BY DEF Performs, PrintOps
      <4>3. QuietFirst(i, PRINT, TRUE, TRUE)
        BY <4>2, PrintSteps, Keeps DEF QuietFirst
      <4>4. QuietFirst(i, PRINT \o Tail(code), TRUE, FALSE)
        BY <4>1, <4>3, RunsConcat DEF QuietFirst
      <4> QED BY <2>6, <4>4 DEF QuietFirst
    <3> QED BY <2>1, <2>2, <2>3, <2>4, <2>6, <3>1, <3>2, <3>3 DEF LockInv
  <2> QED BY <2>1, <2>5, <2>6
<1>9. CASE Hlt
  <2>1. UNCHANGED <<code, imr, _pic_mask, irq_handlers, stack, lock, published, switched, mode>>
    BY <1>9 DEF Hlt, vars, pic
  <2> QED BY <2>1 DEF LockInv, SpinInv, NeverSpins, Quiet
<1>10. CASE Check
  <2>1. /\ code # << >> /\ Head(code).op \in {"check", "probe"}
        /\ code' = Tail(code) \/ code' \in {GIVE_UP, FAILURE}
        /\ UNCHANGED <<stack, lock, published, switched, imr, _pic_mask, irq_handlers, mode>>
    BY <1>10 DEF Check, At, Done, pic
  <2>2. \A i \in IRQ : Quiet(i)' <=> Quiet(i)
    BY <2>1 DEF Quiet
  <2>3. CASE code' = Tail(code)
    BY <2>1, <2>2, <2>3, PlainStep
  <2>4. CASE code' \in {GIVE_UP, FAILURE}
    <3>1. ~lock /\ ~published /\ \A i \in IRQ : Quiet(i)
      BY <2>1, LockTail DEF Printers
    <3>2. LockInv'
      BY <2>1, <2>2, <2>4, <3>1, FailureQuiet DEF LockInv
    <3> QED BY <2>1, <3>1, <3>2 DEF SpinInv, NeverSpins
  <2> QED BY <2>1, <2>3, <2>4
<1> QED BY <1>2, <1>3, <1>4, <1>5, <1>6, <1>7, <1>8, <1>9, <1>10 DEF BootStep

\* Everybody else leaves boot's order alone.
LEMMA LockKept ==
    ASSUME LockInv, UNCHANGED <<code, lock, published, imr, _pic_mask, irq_handlers>>
    PROVE  LockInv'
BY DEF LockInv, Quiet, LockPairs, CreateLast, QuietFirst

\* Interrupts, devices and processes, while boot holds the lock.
LEMMA OthersQuiet ==
    ASSUME QuietInv,
           \/ TimerEdge \/ KeyPress \/ Interrupt \/ Process \/ Stopped \/ UNCHANGED vars
           \/ \E irq \in IRQ : Deliver(irq)
    PROVE  LockInv' /\ SpinInv' /\ NeverSpins'
<1> USE DEF QuietInv
<1>1. UNCHANGED <<code, lock, published, imr, _pic_mask, irq_handlers>>
  BY DEF TimerEdge, KeyPress, Interrupt, Handler, Ignore, EndOfInterrupt, Exception, Iret,
         Process, Stopped, Deliver, vars, pic
<1>2. LockInv'
  BY <1>1, LockKept
<1>3. \A i \in IRQ : Quiet(i)' <=> Quiet(i)
  BY <1>1 DEF Quiet
<1>4. stack \in Seq(Entry) /\ Len(stack) <= 1
  BY DEF Inv, TypeOK, StackInv, Entry
<1>5. CASE TimerEdge \/ KeyPress \/ Stopped \/ UNCHANGED vars
  <2>1. UNCHANGED <<stack, switched, mode>>
    BY <1>5 DEF TimerEdge, KeyPress, Stopped, vars
  <2> QED BY <1>1, <1>2, <1>3, <2>1 DEF SpinInv, NeverSpins
<1>6. CASE Process
  <2>1. switched /\ (mode' = IF lock THEN "spin" ELSE "run") /\ UNCHANGED <<stack, switched>>
    BY <1>6 DEF Process
  <2>2. ~lock
    BY <2>1 DEF SpinInv
  <2> QED BY <1>1, <1>2, <1>3, <2>1, <2>2 DEF SpinInv, NeverSpins
<1>7. CASE \E irq \in IRQ : Deliver(irq)
  <2>1. PICK irq \in IRQ : Deliver(irq)
    BY <1>7
  <2> DEFINE e == [irq |-> irq, at |-> IF remapped THEN "handler" ELSE "exception"]
  <2>2. /\ flag /\ irq \notin imr /\ stack' = <<e>> \o stack /\ switched' = switched
        /\ mode' = IF idt THEN "run" ELSE "reset"
    BY <2>1 DEF Deliver, Grants
  <2>3. e \in Entry /\ e.irq = irq /\ e.at = IF remapped THEN "handler" ELSE "exception"
    BY DEF Entry
  <2> HIDE DEF e
  <2>4. Head(stack') = e
    <3>1. stack = << >>
      BY <2>2 DEF Inv, StackInv
    <3>2. stack' = <<e>>
      BY <2>2, <3>1
    <3> QED BY <3>2
  <2>5. lock => irq \in irq_handlers /\ remapped
    BY <2>2 DEF SpinInv, Quiet, Inv, PicInv
  <2>6. lock => e.at = "handler" /\ e.irq \in irq_handlers
    BY <2>3, <2>5
  <2>7. SpinInv'
    BY <1>1, <1>3, <2>2, <2>4, <2>6 DEF SpinInv
  <2> QED BY <1>2, <2>2, <2>7 DEF NeverSpins
<1>8. CASE Interrupt
  <2>1. stack # << >>
    BY <1>8 DEF Interrupt, Handler, Ignore, EndOfInterrupt, Exception, Iret, Handling
  <2>2. CASE Handler
    <3>1. /\ Continue("eoi") /\ mode' = mode
          /\ switched' = switched \/ switched' = (switched \/ published)
      BY <2>2 DEF Handler
    <3>2. Head(stack').at = "eoi"
      BY <1>4, <2>1, <3>1, Continues
    <3>3. switched' => published
      BY <3>1 DEF SpinInv
    <3>4. SpinInv'
      BY <1>1, <1>3, <3>2, <3>3 DEF SpinInv
    <3> QED BY <1>2, <3>1, <3>4 DEF NeverSpins
  <2>3. CASE Ignore
    <3>1. Head(stack).at = "handler" /\ Head(stack).irq \notin irq_handlers /\ switched' = switched
      BY <2>3 DEF Ignore, Handling, irqNow
    <3>2. ~lock
      BY <2>1, <3>1 DEF SpinInv
    <3>3. mode' = mode
      BY <2>3, <3>2 DEF Ignore
    <3> QED BY <1>1, <1>2, <1>3, <3>1, <3>2, <3>3 DEF SpinInv, NeverSpins
  <2>4. CASE EndOfInterrupt
    <3>1. Continue("iret") /\ UNCHANGED <<mode, switched>>
      BY <2>4 DEF EndOfInterrupt
    <3>2. Head(stack').at = "iret"
      BY <1>4, <2>1, <3>1, Continues
    <3> QED BY <1>1, <1>2, <1>3, <3>1, <3>2 DEF SpinInv, NeverSpins
  <2>5. CASE Exception
    <3>1. Head(stack).at = "exception" /\ switched' = switched
      BY <2>5 DEF Exception, Handling
    <3>2. ~lock
      BY <2>1, <3>1 DEF SpinInv
    <3>3. mode' \in {mode, "panic"}
      BY <2>5, <3>2 DEF Exception
    <3> QED BY <1>1, <1>2, <1>3, <3>1, <3>2, <3>3 DEF SpinInv, NeverSpins
  <2>6. CASE Iret
    <3>1. stack' = Tail(stack) /\ UNCHANGED <<mode, switched>>
      BY <2>6 DEF Iret
    <3>2. stack' = << >>
      <4>1. Len(stack) = 1
        BY <1>4, <2>1, OneElement
      <4> QED BY <1>4, <3>1, <4>1
    <3> QED BY <1>1, <1>2, <1>3, <3>1, <3>2 DEF SpinInv, NeverSpins
  <2> QED BY <1>8, <2>2, <2>3, <2>4, <2>5, <2>6 DEF Interrupt
<1> QED BY <1>5, <1>6, <1>7, <1>8

\* In a build without _DEBUG nobody ever spins on stdout_lock: boot prints only while
\* every IRQ is masked or has a handler that does not print, and no process runs before
\* boot has printed for the last time.
THEOREM NoDeadlock == ASSUME ~Debug PROVE Spec => []NeverSpins
<1>1. Init => QuietInv
  <2> SUFFICES ASSUME Init PROVE QuietInv
    OBVIOUS
  <2>1. \A i \in IRQ : QuietFirst(i, sys_entry, TRUE, FALSE)
    BY QuietFirstEntry
  <2>2. \A i \in IRQ : Quiet(i)
    BY DEF Init, Quiet
  <2>3. LockInv
    BY <2>1, <2>2, LockPairsEntry, CreateLastEntry DEF Init, LockInv
  <2>4. SpinInv /\ NeverSpins
    BY DEF Init, SpinInv, NeverSpins
  <2> QED BY <2>3, <2>4, InitInv DEF QuietInv
<1>2. Inv /\ Inv' /\ QuietInv /\ [Next]_vars => QuietInv'
  BY BootQuiet, OthersQuiet DEF Next, QuietInv
<1>3. QuietInv => NeverSpins
  BY DEF QuietInv
<1> QED BY <1>1, <1>2, <1>3, Invariance, PTL DEF Spec
================================================================================
