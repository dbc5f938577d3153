------------------------ MODULE MCVirtualMemoryExec ------------------------
(* Two executables, with different text, for a process to change between.  *)
EXTENDS VirtualMemoryExec, MCVirtualMemory

CONSTANTS prog1, prog2

TwoImages ==
    [e \in Executable |-> [v \in Page |->
        IF v \in ZeroPage \/ e = prog2 THEN Zero
        ELSE CHOOSE x \in Value : x # Zero]]

=============================================================================
