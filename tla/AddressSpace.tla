------------------------------ MODULE AddressSpace ------------------------------
(***************************************************************************)
(* What the kernel's memory code promises its callers: address spaces that *)
(* do not disturb one another.  Space 0 is the kernel's; its lower half    *)
(* holds the heap, whose regions belong to whoever allocated them; every   *)
(* other space belongs to a process and shares the kernel's upper half.    *)
(*                                                                         *)
(* A step is a relation between the view t before it and the view u after. *)
(* A view is a record:                                                     *)
(*   space   per space, its translations: [virt, to, rights]               *)
(*   owned   the heap regions handed out, [start, size] in pages           *)
(*   broken  memory ran out where the code does not look, or worse: there  *)
(*           are no promises any more                                      *)
(***************************************************************************)
EXTENDS Integers

CONSTANT Lower    \* the virtual pages of the lower half

VARIABLE view

Pages(r) == r.start .. (r.start + r.size - 1)
OwnedPages(t) == UNION {Pages(r) : r \in t.owned}

Init == view = [space |-> << >>, owned |-> {}, broken |-> FALSE]

Outside(translations, pages) == {x \in translations : x.virt \notin pages}

\* No page of an old space is translated differently but these of the kernel's.
OnlyKernel(t, u, pages) ==
    \A s \in DOMAIN t.space :
        IF s = 0 THEN Outside(u.space[s], pages) = Outside(t.space[s], pages)
        ELSE u.space[s] = t.space[s]

Boot(t, u) == t.space = << >> /\ DOMAIN u.space = {0} /\ u.owned = t.owned

Alloc(t, u) ==
    \E r \in u.owned \ t.owned :
        /\ u.owned = t.owned \cup {r}
        /\ Pages(r) \subseteq Lower \ OwnedPages(t)
        /\ DOMAIN u.space = DOMAIN t.space
        /\ OnlyKernel(t, u, Pages(r))

\* An allocation that fails leaves the regions of others alone.
AllocFails(t, u) ==
    /\ u.owned = t.owned
    /\ DOMAIN u.space = DOMAIN t.space
    /\ OnlyKernel(t, u, Lower \ OwnedPages(t))

Free(t, u) ==
    \E r \in t.owned \ u.owned :
        /\ u.owned = t.owned \ {r}
        /\ DOMAIN u.space = DOMAIN t.space
        /\ OnlyKernel(t, u, Pages(r))

\* A new process gets the kernel's upper half and a lower half of its own.  The
\* buffer its file is read into may take a heap region, and takes no other page.
Create(t, u) ==
    /\ 0 \in DOMAIN t.space /\ t.owned \subseteq u.owned
    /\ \E s \in DOMAIN u.space \ DOMAIN t.space :
          /\ DOMAIN u.space = DOMAIN t.space \cup {s}
          /\ Outside(u.space[s], Lower) = Outside(t.space[0], Lower)
    /\ OnlyKernel(t, u, Lower \ OwnedPages(t))

Step(t, u) ==
    \/ u.broken
    \/ ~t.broken /\ (\/ Boot(t, u) \/ Alloc(t, u) \/ AllocFails(t, u)
                     \/ Free(t, u) \/ Create(t, u))

Next == Step(view, view')

Spec == Init /\ [][Next]_view
================================================================================
