----------------------------- MODULE ProcessTree -----------------------------
(***************************************************************************)
(* What Fork, Exit and Wait promise to user programs: a tree of processes. *)
(* A process exits after its children have been waited for, and stays in   *)
(* the tree until its parent's Wait has returned it, once.                 *)
(***************************************************************************)
EXTENDS Naturals

CONSTANTS Process, NoProcess, FirstProcess

VARIABLES
    parent,     \* parent of every process of the tree
    exited,     \* processes that have exited and have not been waited for
    reaped      \* processes that are gone

tree == <<parent, exited, reaped>>

Alive == {p \in DOMAIN parent : p \notin exited \cup reaped}

ChildrenOf(p) == {c \in DOMAIN parent : parent[c] = p /\ c \notin reaped}

Init ==
    /\ parent = [p \in {FirstProcess} |-> NoProcess]
    /\ exited = {}
    /\ reaped = {}

Fork(p, c) ==
    /\ p \in Alive
    /\ c \in Process \ DOMAIN parent
    /\ parent' = [q \in DOMAIN parent \cup {c} |-> IF q = c THEN p ELSE parent[q]]
    /\ UNCHANGED <<exited, reaped>>

\* The first process has nobody to wait for it.
Exit(p) ==
    /\ p \in Alive
    /\ ChildrenOf(p) = {}
    /\ IF parent[p] = NoProcess
       THEN reaped' = reaped \cup {p} /\ UNCHANGED exited
       ELSE exited' = exited \cup {p} /\ UNCHANGED reaped
    /\ UNCHANGED parent

Wait(p, c) ==
    /\ p \in Alive
    /\ c \in ChildrenOf(p) \cap exited
    /\ exited' = exited \ {c}
    /\ reaped' = reaped \cup {c}
    /\ UNCHANGED parent

Next ==
    \/ \E p, c \in Process : Fork(p, c)
    \/ \E p \in Process : Exit(p)
    \/ \E p, c \in Process : Wait(p, c)

Spec == Init /\ [][Next]_tree

=============================================================================
