-------------------------- MODULE MCVirtualMemory --------------------------
(* Instances of VirtualMemory: page 0 is text, page 1 is the stack.  Page  *)
(* contents are 0 (zeroes, the stack) or 1 (the image's text).             *)
EXTENDS VirtualMemory, TLC

MCImage ==
    [e \in Executable |-> [v \in Page |->
        IF v \in ZeroPage THEN Zero ELSE CHOOSE x \in Value : x # Zero]]

\* Every page alike, where contents do not matter.
BlankImage == [e \in Executable |-> [v \in Page |-> Zero]]

Symmetry ==
    Permutations(Process) \cup Permutations(SwapFrame \ {FirstSwapFrame})

\* The state without what no later step reads before overwriting it: contents
\* and page number of a frame or slot nobody owns, the offset of an entry that
\* is not on swap, the frame number of an entry that is not valid (except in
\* entry 0, which ~AddrSpace reads); and with working-set sizes no process can
\* exceed taken as one.
MCView ==
    LET Entry(te, v) ==
            [te EXCEPT !.offset = IF te.File = SwapFile THEN @ ELSE FirstSwapFrame,
                       !.physicalPage = IF te.valid \/ v = FirstPage
                                        THEN @ ELSE FirstFrame]
    IN  <<live,
          [vm EXCEPT
             !.wSetSize = [p \in Process |->
                 IF @[p] > Cardinality(Page) THEN Cardinality(Page) ELSE @[p]],
             !.pageTable = [p \in Process |-> [v \in Page |-> Entry(@[p][v], v)]],
             !.ownersPage = [f \in Frame |->
                 IF vm.owners[f] = {} THEN FirstPage ELSE @[f]],
             !.mainMemory = [f \in Frame |->
                 IF vm.owners[f] = {} THEN Zero ELSE @[f]],
             !.swapPage = [k \in SwapFrame |->
                 IF vm.swapOwners[k] = {} THEN FirstPage ELSE @[k]],
             !.swapData = [k \in SwapFrame |->
                 IF vm.swapOwners[k] = {} THEN Zero ELSE @[k]]]>>

=============================================================================
