------------------------------- MODULE FileTree -------------------------------
(***************************************************************************)
(* What the virtual file system promises: an ordered tree of named nodes   *)
(* with contents.  A new node is the last child of its parent; siblings    *)
(* keep their order; deleting a node takes what is below it out of the     *)
(* tree and touches nothing else; a node's name and place never change;    *)
(* a write concerns one node and never shortens it.                        *)
(*                                                                         *)
(* A step is a relation between the tree t before it and the tree u after. *)
(***************************************************************************)
EXTENDS Naturals, Sequences, SequencesExt

CONSTANT Root

VARIABLE tree     \* on the nodes in the tree: [name, kids, body]

Init == tree = << >>

Format(t, u) ==
    /\ t = << >>
    /\ DOMAIN u = {Root} /\ u[Root].kids = << >> /\ u[Root].body = << >>

Create(t, u) ==
    \E n \in DOMAIN u \ DOMAIN t, d \in DOMAIN t :
        /\ DOMAIN u = DOMAIN t \cup {n}
        /\ u[n].kids = << >>
        /\ \A m \in DOMAIN t :
              u[m] = IF m = d THEN [t[d] EXCEPT !.kids = Append(@, n)] ELSE t[m]

\* What goes is n, what is below it, and nothing else.
Delete(t, u) ==
    LET gone == DOMAIN t \ DOMAIN u
    IN  \E d \in DOMAIN u \cap DOMAIN t : \E i \in DOMAIN t[d].kids :
            LET n == t[d].kids[i]
            IN  /\ n \in gone
                /\ \A m \in gone : /\ ToSet(t[m].kids) \subseteq gone
                                   /\ m # n => \E p \in gone : m \in ToSet(t[p].kids)
                /\ u = [m \in DOMAIN t \ gone |->
                          IF m = d THEN [t[d] EXCEPT !.kids = RemoveAt(@, i)] ELSE t[m]]

Write(t, u) ==
    \E n \in DOMAIN t :
        /\ DOMAIN u = DOMAIN t
        /\ u = [t EXCEPT ![n].body = u[n].body]
        /\ Len(u[n].body) >= Len(t[n].body)

Step(t, u) == Format(t, u) \/ Create(t, u) \/ Delete(t, u) \/ Write(t, u)

Next == Step(tree, tree')

Spec == Init /\ [][Next]_tree
===============================================================================
