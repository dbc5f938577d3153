---------------------------- MODULE PrivateMemory ----------------------------
(***************************************************************************)
(* What virtual memory promises a user program: every process has a        *)
(* memory of its own.  A store changes one page of the process that makes  *)
(* it and nothing else, a forked child starts with a copy of its parent's  *)
(* memory, an executed program with its image, and paging does not show.   *)
(***************************************************************************)
CONSTANTS
    Process,    \* processes
    Page,       \* pages of a process's memory
    Value,      \* contents of a page
    Program,    \* initial memories: functions from Page to Value
    Blank       \* the memory of a process that does not exist

VARIABLES running, memory

vars == <<running, memory>>

Init ==
    \E p \in Process, i \in Program :
        /\ running = {p}
        /\ memory = [q \in Process |-> IF q = p THEN i ELSE Blank]

Write(p, v, x) ==
    /\ p \in running
    /\ memory' = [memory EXCEPT ![p] = [memory[p] EXCEPT ![v] = x]]
    /\ UNCHANGED running

Fork(p, c) ==
    /\ p \in running /\ c \notin running
    /\ running' = running \cup {c}
    /\ memory' = [memory EXCEPT ![c] = memory[p]]

Exec(p, i) ==
    /\ p \in running
    /\ memory' = [memory EXCEPT ![p] = i]
    /\ UNCHANGED running

Exit(p) ==
    /\ p \in running
    /\ running' = running \ {p}
    /\ memory' = [memory EXCEPT ![p] = Blank]

Next ==
    \/ \E p \in Process, v \in Page, x \in Value : Write(p, v, x)
    \/ \E p, c \in Process : Fork(p, c)
    \/ \E p \in Process, i \in Program : Exec(p, i)
    \/ \E p \in Process : Exit(p)

Spec == Init /\ [][Next]_vars

=============================================================================
