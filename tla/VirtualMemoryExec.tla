------------------------- MODULE VirtualMemoryExec -------------------------
(***************************************************************************)
(* The Exec system call on top of VirtualMemory: AddrSpace::ModifySpace    *)
(* installs the new page table and pages in its first pages before it      *)
(* gives the old table's frames back, so a victim chosen in between may be *)
(* one of the process's own old frames, which pageout then looks up in the *)
(* new table.                                                              *)
(***************************************************************************)
EXTENDS VirtualMemory

\* The last loop of ModifySpace, over the old table.  As in ~AddrSpace the
\* owner-count test looks at the frame in entry 0, here after a valid entry.
ReleaseOld(s, p, old) ==
    LET t == ReleaseTable(s, p, old)
    IN  IF \E v \in Page : old[v].valid
        THEN ClearCow(t, old[FirstPage].physicalPage) ELSE t

Exec(p, e) ==
    /\ p \in live
    /\ \E s \in Setup_Load(vm, p, e) :
           vm' = ReleaseOld(s, p, vm.pageTable[p])
    /\ UNCHANGED live

NextExec ==
    \/ Next
    \/ \E p \in Process, e \in Executable : Exec(p, e)

SpecExec == Init /\ [][NextExec]_vars

-----------------------------------------------------------------------------
(* Properties *)

\* A clear page flag means a free page ("Clear all the page flags. This means
\* that all pages are free", memmgr.cc:18): get_next_free_page may hand the
\* frame to anybody, so no page table may still map it.
ClearFlagMeansFree ==
    \A p \in Process, v \in Page :
        vm.pageTable[p][v].valid
            => vm.pageTable[p][v].physicalPage \in vm.page_flags

=============================================================================
