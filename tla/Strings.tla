--------------------------------- MODULE Strings --------------------------------
(***************************************************************************)
(* The functions of lib/string.c with state or limits of their own: strtok *)
(* and strtol, with strspn and strcspn below them.                         *)
(*                                                                         *)
(* A string is a sequence of characters; reading past it gives NUL.  A     *)
(* pointer into a family of strings is [buf, at].                          *)
(***************************************************************************)
EXTENDS Integers, Sequences, SequencesExt

CONSTANT LONG_MAX    \* 2^63 - 1

ASSUME LongAssumption == LONG_MAX \in Nat /\ LONG_MAX >= 36

NUL == "\\0"
NullPtr == [buf |-> 0, at |-> 0]

CharAt(s, i) == IF i <= Len(s) THEN s[i] ELSE NUL

\* How far from position i on the characters satisfy In.
SpanLength(s, i, In(_)) ==
    (CHOOSE j \in i .. (Len(s) + 1) :
        /\ j > Len(s) \/ ~In(s[j])
        /\ \A k \in i .. (j - 1) : In(s[k])) - i

strspn(s, i, accept) == SpanLength(s, i, LAMBDA c : c \in accept)

strcspn(s, i, reject) == SpanLength(s, i, LAMBDA c : c \notin reject \cup {NUL})

--------------------------------------------------------------------------------
(* strtok.  mem are the strings, last is its static variable. *)

\* Mutant: the rest starts at the delimiter that was overwritten.
strtok_no_step(mem, str, last, delim) ==
    LET p == IF str = NullPtr THEN last ELSE str
        s == mem[p.buf]
        start == p.at + strspn(s, p.at, delim)
        end == start + strcspn(s, start, delim)
    IN IF p = NullPtr \/ CharAt(s, start) = NUL
       THEN [mem |-> mem, last |-> last, token |-> NullPtr]
       ELSE [mem |-> IF CharAt(s, end) = NUL THEN mem ELSE [mem EXCEPT ![p.buf][end] = NUL],
             last |-> [p EXCEPT !.at = end], token |-> [p EXCEPT !.at = start]]

strtok(mem, str, last, delim) ==
    LET p == IF str = NullPtr THEN last ELSE str
        s == mem[p.buf]
        start == p.at + strspn(s, p.at, delim)
        end == start + strcspn(s, start, delim)
        more == CharAt(s, end) # NUL
    IN IF p = NullPtr \/ CharAt(s, start) = NUL
       THEN [mem |-> mem, last |-> last, token |-> NullPtr]
       ELSE [mem |-> IF more THEN [mem EXCEPT ![p.buf][end] = NUL] ELSE mem,
             last |-> [p EXCEPT !.at = IF more THEN end + 1 ELSE end],
             token |-> [p EXCEPT !.at = start]]

--------------------------------------------------------------------------------
(* strtol, for callers that do not ask where the number ends *)

Digits == <<"0", "1", "2", "3", "4", "5", "6", "7", "8", "9", "a", "b", "c", "d", "e", "f",
            "g", "h", "i", "j", "k", "l", "m", "n", "o", "p", "q", "r", "s", "t", "u", "v",
            "w", "x", "y", "z">>    \* capitals count like small letters

Digit == [c \in ToSet(Digits) |-> (CHOOSE k \in DOMAIN Digits : Digits[k] = c) - 1]

IsDigit(c, base) == c \in DOMAIN Digit /\ Digit[c] < base

Blank == {" ", "\t", "\n", "\r", "\f"}

HexPrefix(s, i) == CharAt(s, i) = "0" /\ CharAt(s, i + 1) = "x"

\* The base that the number is read in, and how long the prefix is that says so.
BaseOf(s, i, base) ==
    CASE base = 0 /\ HexPrefix(s, i) -> <<16, 2>>
      [] base = 0 /\ ~HexPrefix(s, i) /\ CharAt(s, i) = "0" -> <<8, 1>>
      [] base = 0 /\ CharAt(s, i) # "0" -> <<10, 0>>
      [] base = 16 /\ HexPrefix(s, i) -> <<16, 2>>
      [] OTHER -> <<base, 0>>

\* Mutant: the last digit before the limit is not looked at.
OverflowsLate(result, digit, base) == result > LONG_MAX \div base

Overflows(result, digit, base) ==
    \/ result > LONG_MAX \div base
    \/ result = LONG_MAX \div base /\ digit > LONG_MAX % base

strtol(s, base) ==
    LET signed == 1 + strspn(s, 1, Blank)
        negative == CharAt(s, signed) = "-"
        number == IF CharAt(s, signed) \in {"-", "+"} THEN signed + 1 ELSE signed
        b == BaseOf(s, number, base)[1]
        first == number + BaseOf(s, number, base)[2]
        digits == SubSeq(s, first, first - 1 + SpanLength(s, first, LAMBDA c : IsDigit(c, b)))
        \* The loop: -1 once the number does not fit.
        Add(result, c) ==
            IF result = -1 \/ Overflows(result, Digit[c], b) THEN -1
            ELSE result * b + Digit[c]
        after[k \in 0 .. Len(digits)] == IF k = 0 THEN 0 ELSE Add(after[k - 1], digits[k])
        result == after[Len(digits)]
    IN CASE result = -1 /\ ~negative -> LONG_MAX
         [] result = -1 /\ negative  -> -LONG_MAX - 1
         [] OTHER -> IF negative THEN -result ELSE result
================================================================================
