--------------------------------- MODULE MCPmm ---------------------------------
(* Memory maps that make every branch of pmm_init happen. *)
EXTENDS Pmm

E(base, length, usable) ==
    [base |-> base, length |-> length, type |-> IF usable THEN "usable" ELSE "other"]

MCMemMaps == {
    \* the first usable entry is too short for the array, the second hosts it
    <<E(1, 1, TRUE), E(2, 2, FALSE), E(4, 4, TRUE)>>,
    \* the array takes a whole entry
    <<E(3, 2, TRUE), E(1, 1, TRUE), E(6, 1, TRUE)>>,
    \* the array does not fill its last page
    <<E(1, 5, TRUE)>>,
    \* a single usable page, which the array takes
    <<E(2, 1, TRUE)>>,
    \* no entry can host the array
    <<E(1, 1, TRUE), E(3, 1, TRUE), E(5, 1, TRUE)>>,
    \* no usable memory at all
    <<E(1, 2, FALSE)>> }
================================================================================
