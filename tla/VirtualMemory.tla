--------------------------- MODULE VirtualMemory ---------------------------
(***************************************************************************)
(* Demand paging, copy-on-write and swapping of user programs: the page    *)
(* tables (AddrSpace), the frame table (MemoryManager), the swap file      *)
(* (SwapManager) and the page-table half of Machine::Translate.            *)
(*                                                                         *)
(* A page fault, a copy-on-write hit, a fork and the destruction of an     *)
(* address space each run to their end without a context switch: the file  *)
(* system of this build is a stub over UNIX calls, and no code on these    *)
(* paths re-enables interrupts.  Each is therefore one action.  A handler  *)
(* calls others (a fault pages a victim out, a copy-on-write hit takes a   *)
(* frame first), so the handlers are operators from a machine state s, a   *)
(* record, to the set of states the call may return in.                    *)
(*                                                                         *)
(* Abstracted: a page's contents are one value; BitMap::Find may return    *)
(* any clear bit, not only the lowest; FIFO, LRU and second chance may     *)
(* evict any resident page of the process; the owner arrays are sets, and  *)
(* owners[0] may be any member.                                            *)
(***************************************************************************)
EXTENDS Naturals, FiniteSets

CONSTANTS
    Process,        \* address spaces (AddrSpace objects, one per user thread)
    Page,           \* virtual page numbers, the same for every executable
    FirstPage,      \* page 0, what "pageTable->" without an index denotes
    TextPage,       \* first page of program text
    StackPage,      \* last page, numPages - 1
    ZeroPage,       \* pages of .bss, .sbss and the stack: filled with zeroes
    Frame,          \* physical page numbers, 0 .. NumPhysPages - 1
    FirstFrame,     \* physical page 0, what SetupTable puts in every entry
    SwapFrame,      \* page-sized slots of the swap file, 0 .. NumSwapPages - 1
    FirstSwapFrame, \* offset 0
    Executable,     \* open executable files
    Image,          \* Image[e][v]: what executable e holds for page v
    Value,          \* contents of a page
    Zero,           \* a page of zeroes
    Garbage,        \* what a read through a NULL OpenFile would yield
    SwapFile, NoFile,    \* the OpenFile of the swap file, and NULL
    pageReplPolicy,      \* "DUMB" or "LOCAL" (FIFO, LRU, SECONDCHANCE)
    DefaultWss,          \* working-set size of a new AddrSpace
    WssRange             \* sizes refreshWss may assign

ASSUME PageAssumption ==
    /\ {FirstPage, TextPage, StackPage} \subseteq Page
    /\ ZeroPage \subseteq Page
    /\ StackPage \in ZeroPage /\ TextPage \notin ZeroPage

ASSUME FrameAssumption ==
    /\ IsFiniteSet(Page)
    /\ FirstFrame \in Frame /\ FirstSwapFrame \in SwapFrame
    /\ \A f \in Frame : Frame # {f}    \* a victim other than notMe exists

ASSUME FileAssumption ==
    /\ SwapFile # NoFile
    /\ {SwapFile, NoFile} \cap Executable = {}
    /\ Executable # {}
    /\ Image \in [Executable -> [Page -> Value]]
    /\ Zero \in Value /\ Garbage \notin Value

ASSUME PolicyAssumption ==
    /\ pageReplPolicy \in {"DUMB", "LOCAL"}
    /\ DefaultWss \in Nat \ {0}
    /\ WssRange \subseteq Nat \ {0}

VARIABLES
    vm,        \* page tables, frame table, swap file and memory: see Machine
    live       \* address spaces in existence

vars == <<vm, live>>

-----------------------------------------------------------------------------
(* State *)

File == Executable \cup {SwapFile, NoFile}

TranslationEntry ==
    [valid : BOOLEAN, physicalPage : Frame, dirty : BOOLEAN, cow : BOOLEAN,
     zero : BOOLEAN, File : File, offset : SwapFrame]

Machine ==
    [pageTable  : [Process -> [Page -> TranslationEntry]],
     wSetSize   : [Process -> Nat],
     page_flags : SUBSET Frame,                 \* MemoryManager
     owners     : [Frame -> SUBSET Process],
     ownersPage : [Frame -> Page],
     mainMemory : [Frame -> Value \cup {Garbage}],
     frame_flags : SUBSET SwapFrame,            \* SwapManager
     swapOwners : [SwapFrame -> SUBSET Process],
     swapPage   : [SwapFrame -> Page],
     swapData   : [SwapFrame -> Value \cup {Garbage}]]

\* Mutant of BlankEntry: the frame number is left uninitialised.
BlankEntryUninitialised ==
    [valid |-> FALSE, physicalPage |-> Garbage, dirty |-> FALSE,
     cow |-> FALSE, zero |-> FALSE, File |-> NoFile, offset |-> FirstSwapFrame]

\* An entry as SetupTable leaves it.
BlankEntry ==
    [valid |-> FALSE, physicalPage |-> FirstFrame, dirty |-> FALSE,
     cow |-> FALSE, zero |-> FALSE, File |-> NoFile, offset |-> FirstSwapFrame]

\* The managers as their constructors leave them, before any address space.
PowerOn ==
    [pageTable  |-> [p \in Process |-> [v \in Page |-> BlankEntry]],
     wSetSize   |-> [p \in Process |-> DefaultWss],
     page_flags |-> {},
     owners     |-> [f \in Frame |-> {}],
     ownersPage |-> [f \in Frame |-> FirstPage],
     mainMemory |-> [f \in Frame |-> Zero],
     frame_flags |-> {},
     swapOwners |-> [k \in SwapFrame |-> {}],
     swapPage   |-> [k \in SwapFrame |-> FirstPage],
     swapData   |-> [k \in SwapFrame |-> Zero]]

-----------------------------------------------------------------------------
(* MemoryManager and SwapManager: the handlers' building blocks *)

\* Page table with the entries for page v of every process in Q rewritten.
Rewrite(s, Q, v, New(_)) ==
    [q \in Process |-> [u \in Page |->
        IF q \in Q /\ u = v THEN New(s.pageTable[q][u])
                            ELSE s.pageTable[q][u]]]

\* Mutant of Without: the owner's record is never dropped.
WithoutForgotten(ownerSet, p) == ownerSet

\* Owners left once p gives the page up.  With a single recorded owner the
\* record is dropped without looking at who that owner is.
Without(ownerSet, p) ==
    IF \E q \in ownerSet : ownerSet = {q} THEN {} ELSE ownerSet \ {p}

\* Owners once p is recorded too, in the frame table as in the swap file.
add_frame_owner(ownerSet, p) == ownerSet \cup {p}

Resident(s, p) == {v \in Page : s.pageTable[p][v].valid}

TooManyFrames(s, p) == Cardinality(Resident(s, p)) > s.wSetSize[p]

\* Mutant of NeedsSwapFrame: a dirty page gets a new slot every time.
NeedsSwapFrameAgain(local) == local.dirty

\* A dirty page that has no place in the swap file yet.
NeedsSwapFrame(local) == local.dirty /\ local.File # SwapFile

\* pageout(victim), reading the translation entry of owner first, and with k
\* the frame SwapManager::get_next_free_frame returned if one was needed.
PageoutVia(s, victim, first, k) ==
    LET v     == s.ownersPage[victim]
        Q     == s.owners[victim]
        local == s.pageTable[first][v]
        fresh == NeedsSwapFrame(local)
        slot  == IF fresh THEN k ELSE local.offset
        swapped == local.dirty \/ local.File = SwapFile
        Leave(te) ==
            [te EXCEPT !.valid = FALSE,
                       !.File = IF fresh THEN SwapFile ELSE @,
                       !.offset = IF fresh THEN k ELSE @,
                       !.zero = IF fresh THEN FALSE ELSE @,
                       !.cow = IF swapped THEN @ ELSE FALSE]
    IN  [s EXCEPT
           !.pageTable = Rewrite(s, Q, v, Leave),
           !.owners[victim] = {},
           !.frame_flags = IF fresh THEN @ \cup {k} ELSE @,
           !.swapData = IF local.dirty
                        THEN [@ EXCEPT ![slot] = s.mainMemory[victim]] ELSE @,
           !.swapOwners = IF swapped THEN [@ EXCEPT ![slot] = Q] ELSE @,
           !.swapPage = IF swapped THEN [@ EXCEPT ![slot] = v] ELSE @]

\* The states pageout may return in: none if the swap file is full, where
\* the code stops at ASSERT (swap_num >= 0).
Pageout(s, victim) ==
    UNION { {PageoutVia(s, victim, first, k) :
               k \in IF NeedsSwapFrame(s.pageTable[first][s.ownersPage[victim]])
                     THEN SwapFrame \ s.frame_flags ELSE {FirstSwapFrame}} :
            first \in s.owners[victim] }

\* The frames Choose_Victim may return for current process p; notMe holds the
\* frame that must not be chosen, if any.
Choose_Victim(s, p, notMe) ==
    IF pageReplPolicy = "DUMB" \/ ~TooManyFrames(s, p)
    THEN {f \in Frame \ notMe : s.owners[f] # {}}
    ELSE {s.pageTable[p][v].physicalPage : v \in Resident(s, p)} \ notMe

\* Mutant of TakeFrame: get_next_free_page returns a frame it has not marked.
TakeFrameUnmarked(s, p, notMe) ==
    IF ~TooManyFrames(s, p) /\ s.page_flags # Frame
    THEN {[state |-> s, frame |-> f] : f \in Frame \ s.page_flags}
    ELSE UNION { {[state |-> t, frame |-> f] : t \in Pageout(s, f)} :
                 f \in Choose_Victim(s, p, notMe) }

\* get_next_free_page by process p, or else the frame of a victim paged out.
TakeFrame(s, p, notMe) ==
    IF ~TooManyFrames(s, p) /\ s.page_flags # Frame
    THEN {[state |-> [s EXCEPT !.page_flags = @ \cup {f}], frame |-> f] :
            f \in Frame \ s.page_flags}
    ELSE UNION { {[state |-> t, frame |-> f] : t \in Pageout(s, f)} :
                 f \in Choose_Victim(s, p, notMe) }

\* What a page that is not in memory holds, by its translation entry.
Backing(s, te, v) ==
    CASE te.zero -> Zero
      [] ~te.zero /\ te.File = SwapFile -> s.swapData[te.offset]
      [] ~te.zero /\ te.File \in Executable -> Image[te.File][v]
      [] ~te.zero /\ te.File = NoFile -> Garbage

\* Second half of pagein: fill frame f with page v of p and record its owners.
Load(s, p, v, f) ==
    LET local    == s.pageTable[p][v]
        fromSwap == local.File = SwapFile
        Q == IF fromSwap THEN s.swapOwners[local.offset] ELSE {p}
        Arrive(te) ==
            [te EXCEPT !.valid = TRUE, !.dirty = FALSE, !.physicalPage = f,
                       !.cow = IF fromSwap THEN @ ELSE FALSE]
    IN  [s EXCEPT
           !.pageTable = Rewrite(s, Q, v, Arrive),
           !.owners[f] = Q,
           !.ownersPage[f] = IF fromSwap THEN s.swapPage[local.offset] ELSE v,
           !.mainMemory[f] = Backing(s, local, v)]

Pagein(s, p, v) == {Load(a.state, p, v, a.frame) : a \in TakeFrame(s, p, {})}

\* If frame f is left with one owner, that owner may write it in place.
ClearCow(s, f) ==
    IF \E q \in s.owners[f] : s.owners[f] = {q}
    THEN LET Own(te) == [te EXCEPT !.cow = FALSE]
         IN  [s EXCEPT !.pageTable =
                Rewrite(s, s.owners[f], s.ownersPage[f], Own)]
    ELSE s

-----------------------------------------------------------------------------
(* AddrSpace *)

\* SetupTable and the section loops of Setup_Load.
SetupTable(e) ==
    [v \in Page |-> IF v \in ZeroPage
                    THEN [BlankEntry EXCEPT !.zero = TRUE]
                    ELSE [BlankEntry EXCEPT !.File = e]]

\* Setup_Load: install the table of executable e, page in its first page of
\* text and its last stack page.
Setup_Load(s, p, e) ==
    UNION {Pagein(t, p, StackPage) :
             t \in Pagein([s EXCEPT !.pageTable[p] = SetupTable(e)], p, TextPage)}

\* duplicatePage: give p its own copy, in frame g, of its shared page v.
DuplicateInto(s, p, v, g) ==
    LET local == s.pageTable[p][v]
        old   == local.physicalPage
        onSwap == local.File = SwapFile
        left  == Without(s.owners[old], p)
        swapLeft == Without(s.swapOwners[local.offset], p)
        Move(te) == [te EXCEPT !.cow = FALSE, !.valid = TRUE,
                               !.physicalPage = g,
                               !.File = IF onSwap THEN NoFile ELSE @]
        s1 == [s EXCEPT
                 !.owners = [@ EXCEPT ![g] = add_frame_owner(s.owners[g], p),
                                      ![old] = left],
                 !.ownersPage[g] = v,
                 !.mainMemory[g] = s.mainMemory[old],
                 !.page_flags = IF left = {} THEN @ \ {old} ELSE @,
                 !.swapOwners = IF onSwap
                                THEN [@ EXCEPT ![local.offset] = swapLeft]
                                ELSE @,
                 !.frame_flags = IF onSwap /\ swapLeft = {}
                                 THEN @ \ {local.offset} ELSE @]
        s2 == ClearCow(s1, old)
    IN  [s2 EXCEPT !.pageTable = Rewrite(s2, {p}, v, Move)]

duplicatePage(s, p, v) ==
    {DuplicateInto(a.state, p, v, a.frame) :
        a \in TakeFrame(s, p, {s.pageTable[p][v].physicalPage})}

\* Mutant of Shared: only pages on swap become copy-on-write.
SharedOnSwap(te) == [te EXCEPT !.cow = @ \/ te.File = SwapFile]

\* An entry of parent and child after a fork.
Shared(te) == [te EXCEPT !.cow = @ \/ te.valid \/ te.File = SwapFile]

\* CopyFrom: child c shares every page of p that is in memory or on swap.
CopyFrom(s, p, c) ==
    LET table == [v \in Page |-> Shared(s.pageTable[p][v])]
    IN  [s EXCEPT
           !.pageTable = [@ EXCEPT ![p] = table, ![c] = table],
           !.owners = [f \in Frame |->
               IF \E v \in Page : table[v].valid /\ table[v].physicalPage = f
               THEN add_frame_owner(@[f], c) ELSE @[f]],
           !.swapOwners = [k \in SwapFrame |->
               IF \E v \in Page : table[v].File = SwapFile /\ table[v].offset = k
               THEN add_frame_owner(@[k], c) ELSE @[k]],
           !.wSetSize[c] = DefaultWss]

\* The pages of table old given back by p: every valid one to the frame
\* table, every swapped one to the swap file.
ReleaseTable(s, p, old) ==
    LET held   == {old[v].physicalPage : v \in {u \in Page : old[u].valid}}
        onSwap == {old[v].offset : v \in {u \in Page : old[u].File = SwapFile}}
    IN  [s EXCEPT
           !.owners = [f \in Frame |->
               IF f \in held THEN Without(@[f], p) ELSE @[f]],
           !.page_flags =
               @ \ {f \in held : Without(s.owners[f], p) = {}},
           !.swapOwners = [k \in SwapFrame |->
               IF k \in onSwap THEN Without(@[k], p) ELSE @[k]],
           !.frame_flags =
               @ \ {k \in onSwap : Without(s.swapOwners[k], p) = {}}]

\* ~AddrSpace.  The owner-count test names no index and so looks at the frame
\* in entry 0, whether or not that entry is valid.
Release(s, p) ==
    LET old == s.pageTable[p]
        t   == ClearCow(ReleaseTable(s, p, old), old[FirstPage].physicalPage)
    IN  [t EXCEPT !.pageTable[p] = [v \in Page |-> BlankEntry]]

-----------------------------------------------------------------------------
(* Actions *)

\* StartProcess has loaded the first program.
Init ==
    \E p \in Process, e \in Executable :
        /\ live = {p}
        /\ vm \in Setup_Load(PowerOn, p, e)

\* Translate finds page v of p not valid; ExceptionHandler pages it in.
PageFault(p, v) ==
    /\ p \in live
    /\ ~vm.pageTable[p][v].valid
    /\ vm' \in Pagein(vm, p, v)
    /\ UNCHANGED live

\* Mutant of Store: the dirty bit is not set.
StoreClean(s, p, v, x) ==
    [s EXCEPT !.mainMemory[s.pageTable[p][v].physicalPage] = x]

\* The store of x by p: Translate with writing set, on a valid page.
Store(s, p, v, x) ==
    LET Dirty(te) == [te EXCEPT !.dirty = TRUE]
    IN  [s EXCEPT !.pageTable = Rewrite(s, {p}, v, Dirty),
                  !.mainMemory[s.pageTable[p][v].physicalPage] = x]

\* Mutant of Write: the store ignores cow.
WriteThrough(p, v, x) ==
    /\ p \in live
    /\ vm.pageTable[p][v].valid
    /\ vm' = Store(vm, p, v, x)
    /\ UNCHANGED live

Write(p, v, x) ==
    /\ p \in live
    /\ vm.pageTable[p][v].valid
    /\ IF vm.pageTable[p][v].cow
       THEN \E s \in duplicatePage(vm, p, v) : vm' = Store(s, p, v, x)
       ELSE vm' = Store(vm, p, v, x)
    /\ UNCHANGED live

\* System_Fork's address space for child c.
Fork(p, c) ==
    /\ p \in live /\ c \notin live
    /\ vm' = CopyFrom(vm, p, c)
    /\ live' = live \cup {c}

\* The Thread destructor deletes the address space of an exited process.
Destroy(p) ==
    /\ p \in live
    /\ vm' = Release(vm, p)
    /\ live' = live \ {p}

\* refreshWss, with the contraction step disabled (the default).
RefreshWss(p, n) ==
    /\ p \in live
    /\ vm' = [vm EXCEPT !.wSetSize[p] = n]
    /\ UNCHANGED live

Next ==
    \/ \E p \in Process, v \in Page : PageFault(p, v)
    \/ \E p \in Process, v \in Page, x \in Value : Write(p, v, x)
    \/ \E p, c \in Process : Fork(p, c)
    \/ \E p \in Process : Destroy(p)
    \/ \E p \in Process, n \in WssRange : RefreshWss(p, n)

Spec == Init /\ [][Next]_vars

-----------------------------------------------------------------------------
(* Properties *)

\* Every part of the machine state has the shape the code declares.
TypeOK == vm \in Machine /\ live \subseteq Process

\* The frame table and the page tables are inverses of each other: a frame
\* lists an owner exactly when that owner's entry, at the page number the frame
\* records, is valid and points at the frame.  pageout and ClearCow reach into
\* other processes' tables through this record, and a deleted address space
\* must not be listed anywhere.
OwnersMapped(s) ==
    \A f \in Frame, p \in Process, v \in Page :
        (p \in s.owners[f] /\ s.ownersPage[f] = v)
        <=> (s.pageTable[p][v].valid /\ s.pageTable[p][v].physicalPage = f)

MappingsMatchOwners == OwnersMapped(vm)

\* A frame is marked in page_flags exactly while somebody owns it: no frame
\* leaks (marked for ever, owned by nobody) and none is handed out twice.
FlagsOwned(s) == \A f \in Frame : f \in s.page_flags <=> s.owners[f] # {}

FlagsMatchOwners == FlagsOwned(vm)

\* "Each owner should have exactly the same translation entry for the page"
\* (memmgr.cc:311): whichever owner pageout takes as owners[0], it decides
\* alike whether to write the page, and where.  Stated of the entries that
\* map one frame.
OwnersAgree(s) ==
    \A p, q \in Process, v \in Page :
        LET a == s.pageTable[p][v]
            b == s.pageTable[q][v]
        IN  a.valid /\ b.valid /\ a.physicalPage = b.physicalPage
              => /\ a.dirty = b.dirty /\ a.zero = b.zero /\ a.File = b.File
                 /\ a.File = SwapFile => a.offset = b.offset

SharersAgree == OwnersAgree(vm)

\* A frame with several owners is copy-on-write for every one of them.
OwnersCow(s) ==
    \A p, q \in Process, v \in Page :
        LET a == s.pageTable[p][v]
            b == s.pageTable[q][v]
        IN  p # q /\ a.valid /\ b.valid /\ a.physicalPage = b.physicalPage
              => a.cow

SharedIsCow == OwnersCow(vm)

\* The swap file's records name exactly the processes whose entries point into
\* it, and a slot is marked exactly while it is recorded.
SwapMapped(s) ==
    \A k \in SwapFrame, p \in Process, v \in Page :
        (p \in s.swapOwners[k] /\ s.swapPage[k] = v)
        <=> (s.pageTable[p][v].File = SwapFile /\ s.pageTable[p][v].offset = k)

SwapFlags(s) ==
    \A k \in SwapFrame : k \in s.frame_flags <=> s.swapOwners[k] # {}

\* Sharers of a slot are in memory together, in one frame, or not at all, and
\* all copy-on-write.
SwapShared(s) ==
    \A p, q \in Process, v \in Page :
        LET a == s.pageTable[p][v]
            b == s.pageTable[q][v]
        IN  p # q /\ a.File = SwapFile /\ b.File = SwapFile /\ a.offset = b.offset
              => /\ a.cow
                 /\ a.valid = b.valid
                 /\ a.valid => a.physicalPage = b.physicalPage

\* A page that is both in memory and on swap has the same owners in both
\* places, so that a later pagein does not make it valid for a process that
\* has left it, nor leave out one that shares it.
SwapMatchesOwners == SwapMapped(vm) /\ SwapFlags(vm) /\ SwapShared(vm)

\* A clean page in memory equals what a pagein of it would read, so pageout may
\* drop it unwritten; a page with neither a file nor zeroes to come from is in
\* memory and dirty, so that it never has to be read through a NULL OpenFile.
CleanIsBacked(s) ==
    \A p \in Process, v \in Page :
        LET te == s.pageTable[p][v]
        IN  te.valid /\ ~te.dirty
              => s.mainMemory[te.physicalPage] = Backing(s, te, v)

OneSource(s) ==
    \A p \in Process, v \in Page :
        s.pageTable[p][v].zero => s.pageTable[p][v].File = NoFile

Sourced(s, L) ==
    \A p \in L, v \in Page :
        LET te == s.pageTable[p][v]
        IN  ~te.zero /\ te.File = NoFile => te.valid /\ te.dirty

EvictionLosesNothing == CleanIsBacked(vm) /\ OneSource(vm) /\ Sourced(vm, live)

\* A process that does not exist has an empty page table.
Unused(s, L) ==
    \A p \in Process \ L, v \in Page : s.pageTable[p][v] = BlankEntry

\* ASSERT (swap_num >= 0) in pageout: with a swap slot for every page of every
\* process, a dirty page always finds one, however slots were used before.
SwapSuffices ==
    \A f \in Frame : \A p \in vm.owners[f] :
        NeedsSwapFrame(vm.pageTable[p][vm.ownersPage[f]])
            => vm.frame_flags # SwapFrame

\* What page v of p holds, wherever the page is.
View(s, p, v) ==
    LET te == s.pageTable[p][v]
    IN  IF te.valid THEN s.mainMemory[te.physicalPage] ELSE Backing(s, te, v)

\* Initial memory of a program loaded from e, and of no program at all.
ImageOf(e) == [v \in Page |-> IF v \in ZeroPage THEN Zero ELSE Image[e][v]]
NoProgram == [v \in Page |-> Garbage]

Private == INSTANCE PrivateMemory WITH
    Program <- {ImageOf(e) : e \in Executable}, Blank <- NoProgram,
    running <- live, memory <- [p \in Process |-> [v \in Page |-> View(vm, p, v)]]

\* Paging is invisible: seen through the page tables, every process has the
\* private memory of PrivateMemory.  A page evicted without being written, a
\* frame or swap slot reused while mapped, or a store that reaches a sharer,
\* would show as a step PrivateMemory does not have.
PagingIsInvisible == Private!Spec

=============================================================================
