----------------------------- MODULE PageAllocator -----------------------------
(***************************************************************************)
(* What the physical memory manager promises its callers.  Frames are      *)
(* given to the allocator while it is being set up; once it is sealed,     *)
(* every frame is either free or held by exactly one caller, and moves     *)
(* between the two only by Alloc and Release.  The promise is void as      *)
(* soon as a caller releases a page that it does not hold.                 *)
(***************************************************************************)
CONSTANT Frame

VARIABLES free,     \* frames that may be handed out
          held,     \* frames that callers own
          sealed,   \* set-up has ended
          broken    \* a caller has released a page that it did not hold

vars == <<free, held, sealed, broken>>

Init == free = {} /\ held = {} /\ sealed = FALSE /\ broken = FALSE

Donate == /\ ~sealed
          /\ \E f \in Frame \ free : free' = free \cup {f}
          /\ UNCHANGED <<held, sealed, broken>>

Seal == ~sealed /\ sealed' = TRUE /\ UNCHANGED <<free, held, broken>>

Alloc == /\ sealed /\ ~broken
         /\ \E f \in free : free' = free \ {f} /\ held' = held \cup {f}
         /\ UNCHANGED <<sealed, broken>>

Release == /\ sealed /\ ~broken
           /\ \E f \in held : held' = held \ {f} /\ free' = free \cup {f}
           /\ UNCHANGED <<sealed, broken>>

Break == /\ sealed /\ ~broken
         /\ broken' = TRUE /\ free' = {} /\ held' = {}
         /\ UNCHANGED sealed

Next == Donate \/ Seal \/ Alloc \/ Release \/ Break

Spec == Init /\ [][Next]_vars
================================================================================
