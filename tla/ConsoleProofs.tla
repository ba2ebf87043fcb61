------------------------------ MODULE ConsoleProofs -----------------------------
(***************************************************************************)
(* Proofs about the console.  The keyboard interrupt overwrites the buffer *)
(* and any process may empty it, so what is handed out is put in relation  *)
(* to the one thing all of them share: the number of the key in the buffer.*)
(***************************************************************************)
EXTENDS Console, TLAPS

\* What is on the wire is newer than the key in the buffer, and in order.
WireInv ==
    /\ key.n <= typed
    /\ \A k \in DOMAIN wire : key.n < wire[k].n /\ wire[k].n <= typed
    /\ \A k, l \in DOMAIN wire : k < l => wire[k].n < wire[l].n

\* What was handed out is not newer than the key in the buffer, and older if
\* that key can still be handed out.
ReadInv ==
    /\ key.sym # "NULL" => key.n > 0
    /\ \A l \in DOMAIN reads :
          /\ reads[l] <= key.n
          /\ key.sym # "NULL" => reads[l] < key.n

\* Before init looks at what it read: a positive result means that its key was
\* handed out just then, after every key it has printed.
TestInv ==
    \A p \in Inits : pc[p] = "test" =>
        /\ rax[p] \in {0, 1}
        /\ rax[p] = 1 =>
              /\ \E l \in DOMAIN reads : reads[l] = buf[p].n
              /\ \A k \in DOMAIN shown[p] : shown[p][k] < buf[p].n

Inv == TypeOK /\ WireInv /\ ReadInv /\ TestInv /\ EachKeyOnce /\ ShownWereTyped

--------------------------------------------------------------------------------

\* Appending something larger than everything so far keeps a sequence increasing.
LEMMA IncreasingAppend ==
    ASSUME NEW s \in Seq(Nat), NEW x \in Nat, Increasing(s),
           \A k \in DOMAIN s : s[k] < x
    PROVE  Increasing(Append(s, x))
BY DEF Increasing

\* What is left of a sequence when its head is taken.
LEMMA TailOf ==
    ASSUME NEW S, NEW s \in Seq(S), s # << >>
    PROVE  /\ Head(s) = s[1] /\ s[1] \in S /\ 1 \in DOMAIN s
           /\ Tail(s) \in Seq(S) /\ Len(s) \in Nat /\ Len(s) > 0
           /\ DOMAIN s = 1 .. Len(s) /\ DOMAIN Tail(s) = 1 .. (Len(s) - 1)
           /\ \A k \in 1 .. (Len(s) - 1) : Tail(s)[k] = s[k + 1]
OBVIOUS

\* The elements of a sequence.
LEMMA ElementOf == ASSUME NEW S, NEW s \in Seq(S), NEW k \in DOMAIN s PROVE s[k] \in S
OBVIOUS

\* A byte on the wire has a number.
LEMMA ByteNumber ==
    ASSUME NEW b \in [n : 1 .. MaxBytes, code : Codes, released : BOOLEAN]
    PROVE  b.n \in Nat /\ b.n \in 1 .. MaxBytes
BY ConsoleAssumption

\* Clearing the buffer keeps the number of its key.
LEMMA ClearedKey ==
    ASSUME NEW k \in Key
    PROVE  /\ [k EXCEPT !.sym = "NULL"] \in Key
           /\ [k EXCEPT !.sym = "NULL"].n = k.n
           /\ [k EXCEPT !.sym = "NULL"].sym = "NULL"
           /\ k.n \in 0 .. MaxBytes
BY DEF Key

\* At boot nothing is typed, read or printed.
LEMMA InitInv == Init => Inv
<1> SUFFICES ASSUME Init PROVE Inv
  OBVIOUS
<1>1. TypeOK
  BY ConsoleAssumption
  DEF Init, TypeOK, Key, Procs, Garbage, DEVICE_READY, DEVICE_BUSY
<1>2. WireInv /\ ReadInv /\ EachKeyOnce
  BY ConsoleAssumption DEF Init, WireInv, ReadInv, EachKeyOnce, Increasing
<1>3. TestInv /\ ShownWereTyped
  BY DEF Init, TestInv, ShownWereTyped, Increasing, Procs
<1> QED BY <1>1, <1>2, <1>3 DEF Inv

\* The keyboard sends another byte.
LEMMA TypeInv == Inv /\ Type => Inv'
<1> SUFFICES ASSUME Inv, Type PROVE Inv'
  OBVIOUS
<1> USE DEF Inv
<1>1. PICK c \in Codes, r \in BOOLEAN :
          wire' = Append(wire, [n |-> typed + 1, code |-> c, released |-> r])
  BY DEF Type
<1> DEFINE b == [n |-> typed + 1, code |-> c, released |-> r]
<1>2. /\ typed' = typed + 1 /\ typed < MaxBytes
      /\ UNCHANGED <<kernel, pc, shown>>
  BY DEF Type
<1>3. typed + 1 \in 1 .. MaxBytes
  BY <1>2, ConsoleAssumption DEF TypeOK
<1>4. TypeOK'
  <2>1. b \in [n : 1 .. MaxBytes, code : Codes, released : BOOLEAN]
    BY <1>3
  <2>2. wire' \in Seq([n : 1 .. MaxBytes, code : Codes, released : BOOLEAN])
    BY <1>1, <2>1 DEF TypeOK
  <2> QED BY <1>2, <1>3, <2>2 DEF TypeOK, kernel
<1>5. WireInv'
  <2>1. /\ wire \in Seq([n : 1 .. MaxBytes, code : Codes, released : BOOLEAN])
        /\ typed \in Nat /\ key.n \in Nat /\ key' = key
    BY <1>2, ConsoleAssumption DEF TypeOK, Key, kernel
  <2>2. /\ DOMAIN wire' = 1 .. (Len(wire) + 1) /\ DOMAIN wire = 1 .. Len(wire)
        /\ Len(wire) \in Nat
        /\ \A k \in 1 .. Len(wire) : wire'[k] = wire[k]
        /\ wire'[Len(wire) + 1] = b
    BY <1>1, <2>1
  <2>3. \A k \in DOMAIN wire : wire[k].n \in Nat
    BY <2>1, ElementOf, ByteNumber
  <2>4. b.n = typed + 1
    OBVIOUS
  <2> HIDE DEF b
  <2>5. key'.n <= typed'
    BY <1>2, <2>1 DEF WireInv
  <2>6. ASSUME NEW k \in DOMAIN wire'
        PROVE  key'.n < wire'[k].n /\ wire'[k].n <= typed'
    <3>1. CASE k = Len(wire) + 1
      BY <1>2, <2>1, <2>2, <2>4, <3>1 DEF WireInv
    <3>2. CASE k \in 1 .. Len(wire)
      <4>1. key.n < wire[k].n /\ wire[k].n <= typed /\ wire[k].n \in Nat
        BY <2>2, <2>3, <3>2 DEF WireInv
      <4> QED BY <1>2, <2>1, <2>2, <3>2, <4>1
    <3> QED BY <2>2, <2>6, <3>1, <3>2
  <2>7. ASSUME NEW k \in DOMAIN wire', NEW l \in DOMAIN wire', k < l
        PROVE  wire'[k].n < wire'[l].n
    <3>1. k \in 1 .. Len(wire) /\ wire[k].n <= typed /\ wire[k].n \in Nat
      BY <2>2, <2>3, <2>7 DEF WireInv
    <3>2. CASE l = Len(wire) + 1
      BY <2>1, <2>2, <2>4, <3>1, <3>2
    <3>3. CASE l \in 1 .. Len(wire)
      <4>1. wire[k].n < wire[l].n
        BY <2>2, <2>7, <3>1, <3>3 DEF WireInv
      <4> QED BY <2>2, <3>1, <3>3, <4>1
    <3> QED BY <2>2, <2>7, <3>2, <3>3
  <2> QED BY <2>5, <2>6, <2>7 DEF WireInv
<1>6. ReadInv' /\ TestInv' /\ EachKeyOnce' /\ ShownWereTyped'
  BY <1>2 DEF kernel, ReadInv, TestInv, EachKeyOnce, ShownWereTyped
<1> QED BY <1>4, <1>5, <1>6

\* The interrupt takes the oldest byte from the wire and overwrites the buffer.
LEMMA HandlerInv == Inv /\ keyboard_handler => Inv'
<1> SUFFICES ASSUME Inv, keyboard_handler PROVE Inv'
  OBVIOUS
<1> USE DEF Inv
<1>1. PICK s \in Translations(Head(wire).code) :
          key' = [n |-> Head(wire).n, sym |-> s, released |-> Head(wire).released]
  BY DEF keyboard_handler
<1>2. /\ wire # << >> /\ wire' = Tail(wire)
      /\ UNCHANGED <<typed, mode, rax, buf, was, reads, pc, shown>>
  BY DEF keyboard_handler
<1> DEFINE Byte == [n : 1 .. MaxBytes, code : Codes, released : BOOLEAN]
<1>3. /\ wire \in Seq(Byte) /\ typed \in Nat /\ key.n \in Nat /\ MaxBytes \in Nat
  BY ConsoleAssumption DEF TypeOK, Key
<1>4. /\ Head(wire) = wire[1] /\ wire[1] \in Byte /\ 1 \in DOMAIN wire
      /\ Tail(wire) \in Seq(Byte) /\ Len(wire) \in Nat /\ Len(wire) > 0
      /\ DOMAIN wire = 1 .. Len(wire) /\ DOMAIN wire' = 1 .. (Len(wire) - 1)
      /\ \A k \in 1 .. (Len(wire) - 1) : wire'[k] = wire[k + 1]
  <2> HIDE DEF Byte
  <2> QED BY <1>2, <1>3, TailOf
<1>5. s \in {"NULL", "name", "wild"}
  <2>1. wire[1].code \in Codes
    BY <1>4
  <2> QED BY <1>4, <2>1 DEF Translations, Codes
<1>6. key' \in Key /\ key'.n = wire[1].n /\ wire[1].n \in 1 .. MaxBytes
  BY <1>1, <1>3, <1>4, <1>5 DEF Key
<1>7. TypeOK'
  BY <1>2, <1>4, <1>6 DEF TypeOK
<1>8. WireInv'
  <2>1. \A k \in DOMAIN wire : wire[k].n \in Nat
    BY <1>3, ElementOf, ByteNumber
  <2>2. key'.n <= typed'
    BY <1>2, <1>4, <1>6 DEF WireInv
  <2>3. ASSUME NEW k \in DOMAIN wire'
        PROVE  key'.n < wire'[k].n /\ wire'[k].n <= typed'
    <3>1. k + 1 \in DOMAIN wire /\ 1 < k + 1 /\ wire'[k] = wire[k + 1]
      BY <1>4, <2>3
    <3> QED BY <1>2, <1>4, <1>6, <3>1 DEF WireInv
  <2>4. ASSUME NEW k \in DOMAIN wire', NEW l \in DOMAIN wire', k < l
        PROVE  wire'[k].n < wire'[l].n
    <3>1. /\ k + 1 \in DOMAIN wire /\ l + 1 \in DOMAIN wire /\ k + 1 < l + 1
          /\ wire'[k] = wire[k + 1] /\ wire'[l] = wire[l + 1]
      BY <1>4, <2>4
    <3> QED BY <3>1 DEF WireInv
  <2> QED BY <2>2, <2>3, <2>4 DEF WireInv
<1>9. ReadInv'
  <2>1. key.n < wire[1].n /\ key'.n > 0
    BY <1>4, <1>6 DEF WireInv
  <2>2. \A l \in DOMAIN reads : reads[l] \in Nat
    BY ConsoleAssumption DEF TypeOK
  <2> QED BY <1>2, <1>3, <1>6, <2>1, <2>2 DEF ReadInv
<1>10. TestInv' /\ EachKeyOnce' /\ ShownWereTyped'
  BY <1>2 DEF TestInv, EachKeyOnce, ShownWereTyped
<1> QED BY <1>7, <1>8, <1>9, <1>10

--------------------------------------------------------------------------------
(* System calls *)

\* What a system call of p leaves alone: the key's number, what the other processes
\* hold, and everything handed out so far.
Quiet(p) ==
    /\ UNCHANGED <<key, buf, reads>>
    /\ \A q \in Procs \ {p} : rax'[q] = rax[q]

\* A write, a poll and an unknown call hand out no key and touch nobody else's rax.
LEMMA CallQuiet ==
    ASSUME Inv, NEW p \in Procs, NEW d \in Devices,
           Write(p, d) \/ Poll(p, d) \/ Unknown(p)
    PROVE  /\ Quiet(p)
           /\ mode' \in {"run", "spin", "panic"}
           /\ rax' \in [Procs -> 0 .. 5]
           /\ was' \in [Procs -> {DEVICE_READY, DEVICE_BUSY}]
<1> USE DEF Inv
<1>1. device_poll(d) \in {DEVICE_READY, DEVICE_BUSY}
  BY DEF device_poll, stdin_poll
<1>2. CASE Write(p, d)
  BY <1>1, <1>2 DEF TypeOK, Write, Quiet
<1>3. CASE Poll(p, d)
  <2>1. was' = was \/ was' = [was EXCEPT ![p] = device_poll(d)]
    BY <1>3 DEF Poll
  <2>2. was' \in [Procs -> {DEVICE_READY, DEVICE_BUSY}]
    BY <1>1, <2>1 DEF TypeOK
  <2>3. rax' = [rax EXCEPT ![p] = 4] /\ mode' \in {mode, "panic"}
        /\ UNCHANGED <<key, buf, reads>>
    BY <1>3 DEF Poll
  <2> QED BY <2>2, <2>3 DEF TypeOK, Quiet
<1>4. CASE Unknown(p)
  BY <1>4 DEF TypeOK, Unknown, Quiet
<1> QED BY <1>2, <1>3, <1>4

\* A step that hands out no key and prints none keeps what was handed out and printed.
LEMMA QuietInv ==
    ASSUME Inv, UNCHANGED <<typed, wire, key, reads, shown>>
    PROVE  WireInv' /\ ReadInv' /\ EachKeyOnce' /\ ShownWereTyped'
BY DEF Inv, WireInv, ReadInv, EachKeyOnce, ShownWereTyped

\* A read empties the buffer and hands its key out, which is newer than every key
\* handed out before; a read that finds no key changes nothing but rax.
LEMMA ReadKeeps ==
    ASSUME Inv, NEW p \in Procs, NEW d \in Devices, Read(p, d),
           UNCHANGED <<typed, wire, shown>>
    PROVE  /\ mode' = mode /\ was' = was /\ key' \in Key
           /\ rax' \in [Procs -> 0 .. 5] /\ buf' \in [Procs -> Key]
           /\ reads' \in Seq(1 .. MaxBytes)
           /\ \A q \in Procs \ {p} : rax'[q] = rax[q] /\ buf'[q] = buf[q]
           /\ \A l \in DOMAIN reads : l \in DOMAIN reads' /\ reads'[l] = reads[l]
           /\ WireInv' /\ ReadInv' /\ EachKeyOnce' /\ ShownWereTyped'
           /\ d = STDIN =>
                 \/ rax'[p] = 0
                 \/ /\ rax'[p] = 1
                    /\ \E l \in DOMAIN reads' : reads'[l] = buf'[p].n
                    /\ \A l \in DOMAIN reads : reads[l] < buf'[p].n
<1> USE DEF Inv
<1>1. CASE d = STDIN /\ key.sym # "NULL"
  <2>1. /\ buf' = [buf EXCEPT ![p] = key] /\ key' = [key EXCEPT !.sym = "NULL"]
        /\ reads' = Append(reads, key.n) /\ rax' = [rax EXCEPT ![p] = 1]
        /\ mode' = mode /\ was' = was
    BY <1>1 DEF Read, Cleared, Stored
  <2>2. /\ key' \in Key /\ key'.n = key.n /\ key'.sym = "NULL" /\ key.n \in 1 .. MaxBytes
        /\ key \in Key
    <3>1. key \in Key /\ key.n > 0
      BY <1>1 DEF TypeOK, ReadInv
    <3>2. key.n \in 0 .. MaxBytes
      BY <3>1, ClearedKey
    <3> QED BY <2>1, <3>1, <3>2, ClearedKey, ConsoleAssumption
  <2>3. /\ rax' \in [Procs -> 0 .. 5] /\ buf' \in [Procs -> Key]
        /\ rax'[p] = 1 /\ buf'[p] = key
        /\ \A q \in Procs \ {p} : rax'[q] = rax[q] /\ buf'[q] = buf[q]
    BY <2>1, <2>2 DEF TypeOK
  <2>4. /\ reads' \in Seq(1 .. MaxBytes) /\ reads \in Seq(1 .. MaxBytes)
        /\ DOMAIN reads' = 1 .. (Len(reads) + 1) /\ DOMAIN reads = 1 .. Len(reads)
        /\ Len(reads) \in Nat
        /\ \A l \in 1 .. Len(reads) : reads'[l] = reads[l]
        /\ reads'[Len(reads) + 1] = key.n
    BY <2>1, <2>2 DEF TypeOK
  <2>5. \A l \in DOMAIN reads : reads[l] < key.n /\ reads[l] \in Nat
    BY <1>1, <2>4, ConsoleAssumption DEF ReadInv
  <2>6. WireInv'
    BY <2>2 DEF WireInv
  <2>7. ReadInv'
    <3>1. ASSUME NEW l \in DOMAIN reads' PROVE reads'[l] <= key'.n
      <4>1. CASE l = Len(reads) + 1
        BY <2>2, <2>4, <4>1, ConsoleAssumption
      <4>2. CASE l \in 1 .. Len(reads)
        BY <2>2, <2>4, <2>5, <4>2, ConsoleAssumption
      <4> QED BY <2>4, <4>1, <4>2
    <3> QED BY <2>2, <3>1 DEF ReadInv
  <2>8. EachKeyOnce'
    <3>1. reads \in Seq(Nat) /\ key.n \in Nat
      BY <2>2, <2>4, ConsoleAssumption
    <3>2. Increasing(reads)
      BY DEF EachKeyOnce
    <3>3. Increasing(Append(reads, key.n))
      BY <2>5, <3>1, <3>2, IncreasingAppend
    <3> QED BY <2>1, <3>3 DEF EachKeyOnce
  <2>9. \A l \in DOMAIN reads : l \in DOMAIN reads' /\ reads'[l] = reads[l]
    BY <2>4
  <2>10. ShownWereTyped'
    BY <2>9 DEF ShownWereTyped
  <2>11. \E l \in DOMAIN reads' : reads'[l] = buf'[p].n
    <3>1. Len(reads) + 1 \in DOMAIN reads'
      BY <2>4
    <3> QED BY <2>3, <2>4, <3>1
  <2> QED BY <2>1, <2>2, <2>3, <2>4, <2>5, <2>6, <2>7, <2>8, <2>9, <2>10, <2>11
<1>2. CASE ~(d = STDIN /\ key.sym # "NULL")
  <2>1. /\ rax' = [rax EXCEPT ![p] = IF d = ABSENT THEN 3 ELSE 0]
        /\ UNCHANGED <<key, mode, buf, was, reads>>
    BY <1>2 DEF Read, Stored
  <2>2. WireInv' /\ ReadInv' /\ EachKeyOnce' /\ ShownWereTyped'
    BY <2>1, QuietInv
  <2>3. d = STDIN => rax'[p] = 0
    BY <2>1 DEF TypeOK, STDIN, ABSENT
  <2> QED BY <2>1, <2>2, <2>3 DEF TypeOK
<1> QED BY <1>1, <1>2

--------------------------------------------------------------------------------
(* The processes *)

\* init's read: the key it got is newer than all it has printed, for those were
\* handed out before.
LEMMA InitReadInv == ASSUME Inv, NEW p \in Inits, InitRead(p) PROVE Inv'
<1> USE DEF Inv
<1>1. /\ p \in Procs /\ STDIN \in Devices /\ Inits \subseteq Procs
      /\ Read(p, STDIN) /\ UNCHANGED <<typed, wire, shown>>
      /\ pc' = [pc EXCEPT ![p] = "test"]
  BY DEF InitRead, Procs, Devices, Goto
<1>2. TypeOK'
  BY <1>1, ReadKeeps DEF TypeOK
<1>3. TestInv'
  <2> SUFFICES ASSUME NEW q \in Inits, pc'[q] = "test"
      PROVE  /\ rax'[q] \in {0, 1}
             /\ rax'[q] = 1 =>
                   /\ \E l \in DOMAIN reads' : reads'[l] = buf'[q].n
                   /\ \A k \in DOMAIN shown'[q] : shown'[q][k] < buf'[q].n
    BY DEF TestInv
  <2>1. CASE q = p
    <3>1. \A k \in DOMAIN shown[p] : \E l \in DOMAIN reads : reads[l] = shown[p][k]
      BY DEF ShownWereTyped
    <3> QED BY <1>1, <2>1, <3>1, ReadKeeps
  <2>2. CASE q # p
    <3>1. pc[q] = "test" /\ q \in Procs
      BY <1>1, <2>2 DEF TypeOK
    <3>2. /\ rax[q] \in {0, 1}
          /\ rax[q] = 1 =>
                /\ \E l \in DOMAIN reads : reads[l] = buf[q].n
                /\ \A k \in DOMAIN shown[q] : shown[q][k] < buf[q].n
      BY <3>1 DEF TestInv
    <3> QED BY <1>1, <2>2, <3>1, <3>2, ReadKeeps
  <2> QED BY <2>1, <2>2
<1> QED BY <1>1, <1>2, <1>3, ReadKeeps

\* A process other than init makes any call.
LEMMA AnyCallInv == ASSUME Inv, NEW p \in Others, AnyCall(p) PROVE Inv'
<1> USE DEF Inv
<1>1. p \in Procs /\ p \notin Inits /\ Inits \subseteq Procs
  BY ConsoleAssumption DEF Procs
<1>2. PICK d \in Devices : Read(p, d) \/ Write(p, d) \/ Poll(p, d) \/ Unknown(p)
  BY DEF AnyCall
<1>3. UNCHANGED <<typed, wire, pc, shown>>
  BY DEF AnyCall
<1>4. CASE Read(p, d)
  <2>1. TypeOK'
    BY <1>1, <1>3, <1>4, ReadKeeps DEF TypeOK
  <2>2. TestInv'
    BY <1>1, <1>3, <1>4, ReadKeeps DEF TestInv
  <2> QED BY <1>1, <1>3, <1>4, <2>1, <2>2, ReadKeeps
<1>5. CASE Write(p, d) \/ Poll(p, d) \/ Unknown(p)
  <2>1. /\ Quiet(p) /\ mode' \in {"run", "spin", "panic"}
        /\ rax' \in [Procs -> 0 .. 5]
        /\ was' \in [Procs -> {DEVICE_READY, DEVICE_BUSY}]
    BY <1>1, <1>5, CallQuiet
  <2>2. TypeOK'
    BY <1>3, <2>1 DEF TypeOK, Quiet
  <2>3. TestInv'
    BY <1>1, <1>3, <2>1 DEF TestInv, Quiet
  <2> QED BY <1>3, <2>1, <2>2, <2>3, QuietInv DEF Quiet
<1> QED BY <1>2, <1>4, <1>5

\* init prints the key it has just read, which is newer than all it printed before.
LEMMA InitShowInv == ASSUME Inv, NEW p \in Inits, InitShow(p) PROVE Inv'
<1> USE DEF Inv
<1>1. /\ pc[p] = "test" /\ rax[p] # 0 /\ p \in Procs /\ Inits \subseteq Procs
      /\ shown' = [shown EXCEPT ![p] = Append(shown[p], buf[p].n)]
      /\ mode' \in {"run", "panic"} /\ pc' = [pc EXCEPT ![p] = "poll"]
      /\ UNCHANGED <<typed, wire, key, rax, buf, was, reads>>
  BY DEF InitShow, At, Printable, Goto, Procs
<1>2. /\ \A k \in DOMAIN shown[p] : shown[p][k] < buf[p].n
      /\ \E l \in DOMAIN reads : reads[l] = buf[p].n
  BY <1>1 DEF TestInv
<1>3. buf[p].n \in 1 .. MaxBytes
  <2>1. reads \in Seq(1 .. MaxBytes)
    BY DEF TypeOK
  <2> QED BY <1>2, <2>1, ElementOf
<1>4. TypeOK'
  <2>1. shown' \in [Inits -> Seq(1 .. MaxBytes)]
    BY <1>1, <1>3 DEF TypeOK
  <2> QED BY <1>1, <2>1 DEF TypeOK
<1>5. TestInv'
  BY <1>1 DEF TypeOK, TestInv
<1>6. WireInv' /\ ReadInv' /\ EachKeyOnce'
  BY <1>1 DEF WireInv, ReadInv, EachKeyOnce
<1>7. ShownWereTyped'
  <2> SUFFICES ASSUME NEW q \in Inits
      PROVE  /\ Increasing(shown'[q])
             /\ \A k \in DOMAIN shown'[q] : \E l \in DOMAIN reads : reads[l] = shown'[q][k]
    BY <1>1 DEF ShownWereTyped
  <2>1. /\ Increasing(shown[q])
        /\ \A k \in DOMAIN shown[q] : \E l \in DOMAIN reads : reads[l] = shown[q][k]
    BY DEF ShownWereTyped
  <2>2. CASE q = p
    <3>1. shown'[p] = Append(shown[p], buf[p].n) /\ shown[p] \in Seq(1 .. MaxBytes)
      BY <1>1 DEF TypeOK
    <3>2. shown[p] \in Seq(Nat) /\ buf[p].n \in Nat
      BY <1>3, <3>1, ConsoleAssumption
    <3>3. Increasing(shown'[p])
      BY <1>2, <2>1, <2>2, <3>1, <3>2, IncreasingAppend
    <3>4. \A k \in DOMAIN shown'[p] : k \in DOMAIN shown[p] \/ shown'[p][k] = buf[p].n
      BY <1>3, <3>1
    <3>5. \A k \in DOMAIN shown[p] : shown'[p][k] = shown[p][k]
      BY <1>3, <3>1
    <3> QED BY <1>2, <2>1, <2>2, <3>3, <3>4, <3>5
  <2>3. CASE q # p
    BY <1>1, <2>1, <2>3 DEF TypeOK
  <2> QED BY <2>2, <2>3
<1> QED BY <1>4, <1>5, <1>6, <1>7

\* init's other steps move it away from its test and hand out nothing.
LEMMA InitElseInv ==
    ASSUME Inv, NEW p \in Inits, InitPoll(p) \/ InitPolled(p) \/ InitSkip(p)
    PROVE  Inv'
<1> USE DEF Inv
<1>1. p \in Procs /\ Inits \subseteq Procs /\ STDIN \in Devices
  BY DEF Procs, Devices
<1>2. CASE InitPoll(p)
  <2>1. /\ Quiet(p) /\ mode' \in {"run", "spin", "panic"}
        /\ rax' \in [Procs -> 0 .. 5]
        /\ was' \in [Procs -> {DEVICE_READY, DEVICE_BUSY}]
    BY <1>1, <1>2, CallQuiet DEF InitPoll
  <2>2. pc' = [pc EXCEPT ![p] = "polled"] /\ UNCHANGED <<typed, wire, shown>>
    BY <1>2 DEF InitPoll, Goto
  <2>3. TypeOK'
    BY <1>1, <2>1, <2>2 DEF TypeOK, Quiet
  <2>4. TestInv'
    BY <1>1, <2>1, <2>2 DEF TypeOK, TestInv, Quiet
  <2> QED BY <2>1, <2>2, <2>3, <2>4, QuietInv DEF Quiet
<1>3. CASE InitPolled(p) \/ InitSkip(p)
  <2>1. PICK l \in {"poll", "read"} : pc' = [pc EXCEPT ![p] = l]
    BY <1>3 DEF InitPolled, InitSkip, Goto
  <2>2. UNCHANGED <<typed, wire, key, mode, rax, buf, was, reads, shown>>
    BY <1>3 DEF InitPolled, InitSkip, kernel
  <2>3. TypeOK'
    BY <1>1, <2>1, <2>2 DEF TypeOK
  <2>4. TestInv'
    BY <1>1, <2>1, <2>2 DEF TypeOK, TestInv
  <2> QED BY <2>2, <2>3, <2>4, QuietInv
<1> QED BY <1>2, <1>3

--------------------------------------------------------------------------------
(* Theorems *)

\* The invariant holds for every number of processes and of keys.
THEOREM Invariance == Spec => []Inv
<1>1. Inv /\ [Next]_vars => Inv'
  <2> SUFFICES ASSUME Inv, [Next]_vars PROVE Inv'
    OBVIOUS
  <2>1. CASE Type
    BY <2>1, TypeInv
  <2>2. CASE keyboard_handler
    BY <2>2, HandlerInv
  <2>3. CASE \E p \in Inits : InitStep(p)
    BY <2>3, InitReadInv, InitShowInv, InitElseInv DEF InitStep
  <2>4. CASE \E p \in Others : AnyCall(p)
    BY <2>4, AnyCallInv
  <2>5. CASE Stopped \/ UNCHANGED vars
    <3>1. UNCHANGED <<typed, wire, key, mode, rax, buf, was, reads, pc, shown>>
      BY <2>5 DEF Stopped, vars, kernel
    <3>2. TypeOK' /\ TestInv'
      BY <3>1 DEF Inv, TypeOK, TestInv
    <3> QED BY <3>1, <3>2, QuietInv DEF Inv
  <2> QED BY <2>1, <2>2, <2>3, <2>4, <2>5 DEF Next
<1> QED BY InitInv, <1>1, PTL DEF Spec

\* The console's state keeps its types, whatever processes call.
THEOREM TypeCorrect == Spec => []TypeOK
<1>1. Inv => TypeOK
  BY DEF Inv
<1> QED BY Invariance, <1>1, PTL

\* Over all processes together, a key is handed out at most once and in the order
\* the keys were typed, although the interrupt overwrites the buffer at any moment.
THEOREM KeysHandedOutOnce == Spec => []EachKeyOnce
<1>1. Inv => EachKeyOnce
  BY DEF Inv
<1> QED BY Invariance, <1>1, PTL

\* Every init prints only keys that were handed out, each once and in order, and
\* never its uninitialized key, although it does not wait for a key.
THEOREM PrintsOnlyTyped == Spec => []ShownWereTyped
<1>1. Inv => ShownWereTyped
  BY DEF Inv
<1> QED BY Invariance, <1>1, PTL
================================================================================
