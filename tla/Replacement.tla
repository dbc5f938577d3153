---------------------------- MODULE Replacement ----------------------------
(***************************************************************************)
(* Page replacement and the estimate of the working set, for one process:  *)
(* the use bit, dirty bit, load time and reference history of its pages,   *)
(* which the policies FIFO, LRU and second chance read, and the size that  *)
(* Thread::refreshWss computes from the history every few quanta.          *)
(*                                                                         *)
(* Other processes act through what they may do to this one's entries:     *)
(* page a page of it out, or page a shared one in.  Whether a store is a   *)
(* copy-on-write hit, and whether a free frame is found, is left open;     *)
(* VirtualMemory says when.  A victim is named by its page and not by its  *)
(* frame, since a process has at most one page in a frame.  Ticks are      *)
(* counted in 32 bits in the code, and a run is assumed to be shorter.     *)
(***************************************************************************)
EXTENDS Integers, FiniteSets, FiniteSetsExt

CONSTANTS
    NumPages,            \* pages are 0 .. NumPages - 1
    TextPage, StackPage, \* the pages Setup_Load pages in
    HistoryBits,         \* width of history (8 in the code)
    Deltas,              \* values of wsDeltaSize (1, 2, 4 and 8 in the code)
    Contractions,        \* values of wssContractionEnabled
    MinWss, MaxWss,      \* limits of the working-set size (4 and 32)
    RefreshPeriod        \* WSS_REFRESH_PERIOD (10)

ASSUME ReplacementAssumption ==
    /\ NumPages \in Nat /\ {TextPage, StackPage} \subseteq 0 .. NumPages - 1
    /\ HistoryBits \in Nat \ {0} /\ Deltas \subseteq 1 .. HistoryBits
    /\ Contractions \subseteq BOOLEAN
    /\ MinWss \in Nat \ {0} /\ MaxWss \in Nat /\ MinWss <= MaxWss
    /\ RefreshPeriod \in Nat

VARIABLES
    pageReplPolicy, wsDeltaSize, wssContractionEnabled,   \* the options
    pageTable,           \* the entries: see Entry
    wSetSize,
    wssRefreshCounter,
    totalTicks,
    lastRef    \* history: intervals between refreshes since a page was last
               \* referenced, HistoryBits if that many or more

options == <<pageReplPolicy, wsDeltaSize, wssContractionEnabled>>
vars == <<options, pageTable, wSetSize, wssRefreshCounter, totalTicks, lastRef>>

Page == 0 .. NumPages - 1
NoPage == -1

Policies == {"DUMB", "FIFO", "LRU", "SECONDCHANCE"}

TopBit == 2 ^ (HistoryBits - 1)

Entry ==
    [valid : BOOLEAN, use : BOOLEAN, dirty : BOOLEAN,
     load_time : Nat, history : 0 .. 2 ^ HistoryBits - 1]

BlankEntry ==
    [valid |-> FALSE, use |-> FALSE, dirty |-> FALSE, load_time |-> 0, history |-> 0]

-----------------------------------------------------------------------------
(* The policies: loops over the page table in the order of its entries *)

\* What a loop over the pages makes of start, a step at a time.
Loop(Step(_, _), start) ==
    LET after[n \in 0 .. NumPages] == IF n = 0 THEN start ELSE Step(after[n - 1], n - 1)
    IN  after[NumPages]

\* A resident page other than the one that must stay.
Candidate(table, notMe, v) == table[v].valid /\ v # notMe

FIFO_Choose_Victim(table, notMe) ==
    LET Step(victim, v) ==
            IF Candidate(table, notMe, v)
               /\ (victim = NoPage \/ table[v].load_time < table[victim].load_time)
            THEN v ELSE victim
    IN  Loop(Step, NoPage)

\* Mutant of LRU_Choose_Victim: the load time decides, and the history only
\* between pages loaded together.
LRU_Choose_ByLoad(table, notMe) ==
    LET Better(v, w) ==
            \/ table[v].load_time < table[w].load_time
            \/ table[v].load_time = table[w].load_time
                 /\ table[v].history < table[w].history
        Step(victim, v) ==
            IF Candidate(table, notMe, v) /\ (victim = NoPage \/ Better(v, victim))
            THEN v ELSE victim
    IN  Loop(Step, NoPage)

LRU_Choose_Victim(table, notMe) ==
    LET Better(v, w) ==
            \/ table[v].history < table[w].history
            \/ table[v].history = table[w].history
                 /\ table[v].load_time < table[w].load_time
        Step(victim, v) ==
            IF Candidate(table, notMe, v) /\ (victim = NoPage \/ Better(v, victim))
            THEN v ELSE victim
    IN  Loop(Step, NoPage)

\* Mutant of SC_Choices: the use bit is tested without the dirty bit, so that
\* unused pages share a slot.
SC_ChoicesByUse(table, notMe) ==
    LET Older(choice, n, v) ==
            choice[n] = NoPage \/ table[v].load_time < table[choice[n]].load_time
        Step(choice, v) ==
            LET n == IF table[v].use THEN 2 ELSE 0
            IN  IF Candidate(table, notMe, v) /\ Older(choice, n, v)
                THEN [choice EXCEPT ![n] = v] ELSE choice
    IN  Loop(Step, [n \in 0 .. 3 |-> NoPage])

\* choice[0] .. choice[3] of SC_Choose_Victim.  A page that is not used but
\* older than no earlier one of its kind goes on to the last two tests.
SC_Choices(table, notMe) ==
    LET Older(choice, n, v) ==
            choice[n] = NoPage \/ table[v].load_time < table[choice[n]].load_time
        Slot(choice, v) ==
            CASE ~table[v].use /\ ~table[v].dirty /\ Older(choice, 0, v) -> 0
              [] ~table[v].use /\ table[v].dirty /\ Older(choice, 1, v) -> 1
              [] OTHER -> IF ~table[v].dirty /\ Older(choice, 2, v) THEN 2 ELSE 3
        Step(choice, v) ==
            LET n == Slot(choice, v)
            IN  IF Candidate(table, notMe, v) /\ Older(choice, n, v)
                THEN [choice EXCEPT ![n] = v] ELSE choice
    IN  Loop(Step, [n \in 0 .. 3 |-> NoPage])

SC_Choose_Victim(table, notMe) ==
    LET choice == SC_Choices(table, notMe)
        found  == {n \in 0 .. 3 : choice[n] # NoPage}
    IN  IF found = {} THEN NoPage ELSE choice[Min(found)]

\* The scan takes the use bit of every candidate away.
SC_Cleared(table, notMe) ==
    [v \in Page |-> IF Candidate(table, notMe, v)
                    THEN [table[v] EXCEPT !.use = FALSE] ELSE table[v]]

-----------------------------------------------------------------------------
(* MemoryManager, as far as this process sees it *)

\* Mutant of TooManyFrames: one page more is allowed.
TooManyFramesLax(table, size) == Cardinality({v \in Page : table[v].valid}) > size + 1

TooManyFrames(table, size) == Cardinality({v \in Page : table[v].valid}) > size

pageout(table, v) ==
    IF v = NoPage THEN table ELSE [table EXCEPT ![v].valid = FALSE]

\* The page table after Choose_Victim and pageout by one of the local policies.
EvictOwn(table, notMe) ==
    CASE pageReplPolicy = "FIFO" -> pageout(table, FIFO_Choose_Victim(table, notMe))
      [] pageReplPolicy = "LRU"  -> pageout(table, LRU_Choose_Victim(table, notMe))
      [] pageReplPolicy = "SECONDCHANCE" ->
            pageout(SC_Cleared(table, notMe), SC_Choose_Victim(table, notMe))

\* The tables in which the process may be left with a frame: it gave a page up,
\* or else found a free frame or took a frame of anybody's.
TakeFrame(table, size, notMe) ==
    IF TooManyFrames(table, size) /\ pageReplPolicy # "DUMB"
    THEN {EvictOwn(table, notMe)}
    ELSE {table} \cup {pageout(table, v) : v \in {u \in Page : Candidate(table, notMe, u)}}

\* pagein of page v, at time now, into the frame found.
Load(table, v, now) ==
    [table EXCEPT ![v].valid = TRUE, ![v].use = FALSE, ![v].dirty = FALSE,
                  ![v].load_time = now]

\* A reference to v in Translate, on a table where v is valid.
Touch(table, v, writing) ==
    [table EXCEPT ![v].use = TRUE, ![v].dirty = @ \/ writing,
                  ![v].history = IF @ >= TopBit THEN @ ELSE @ + TopBit]

\* What duplicatePage does to the entry of the page copied.
Copied(table, v) ==
    [table EXCEPT ![v].use = FALSE, ![v].load_time = 0, ![v].history = 0]

-----------------------------------------------------------------------------
(* refreshWss *)

\* history & deltaMask is not zero: one of the delta leftmost bits is set.
InWindow(e, delta) == e.history >= 2 ^ (HistoryBits - delta)

refCount(table) == Cardinality({v \in Page : InWindow(table[v], wsDeltaSize)})

NewSize(table) ==
    LET n == refCount(table)
    IN  IF n < MinWss THEN MinWss ELSE IF n > MaxWss THEN MaxWss ELSE n

\* The tables the contraction loop may leave.  Under DUMB any of the process's
\* pages may go, until it has as many as the size allows.
Contract(table, size) ==
    IF ~wssContractionEnabled \/ ~TooManyFrames(table, size) THEN {table}
    ELSE IF pageReplPolicy = "DUMB"
    THEN LET Resident == {v \in Page : table[v].valid}
         IN  {[v \in Page |-> [table[v] EXCEPT !.valid = v \in kept]] :
                kept \in kSubset(size, Resident)}
    ELSE LET Step(t, i) == IF TooManyFrames(t, size) THEN EvictOwn(t, NoPage) ELSE t
         IN  {Loop(Step, table)}

\* Mutant of Slide: the window does not move.
SlideNot(table) == table

Slide(table) == [v \in Page |-> [table[v] EXCEPT !.history = @ \div 2]]

-----------------------------------------------------------------------------
(* Actions *)

\* The first program, loaded by Setup_Load after the ticks of the start-up.
Init ==
    /\ pageReplPolicy \in Policies
    /\ wsDeltaSize \in Deltas
    /\ wssContractionEnabled \in Contractions
    /\ pageTable = [v \in Page |->
          IF v \in {TextPage, StackPage}
          THEN [BlankEntry EXCEPT !.valid = TRUE, !.load_time = 1] ELSE BlankEntry]
    /\ wSetSize = MinWss
    /\ wssRefreshCounter = 0
    /\ totalTicks = 1
    /\ lastRef = [v \in Page |-> HistoryBits]

\* Time passes with the instructions of a program, but is read only when a
\* page is loaded: it passes here just before.  The kernel, which references
\* the pages of a system call's buffer, may load several at one time.
Later == {totalTicks, totalTicks + 1}

PageFault(v) ==
    /\ ~pageTable[v].valid
    /\ totalTicks' \in Later
    /\ \E t \in TakeFrame(pageTable, wSetSize, NoPage) :
          pageTable' = Load(t, v, totalTicks')
    /\ UNCHANGED <<options, wSetSize, wssRefreshCounter, lastRef>>

Reference(v, writing) ==
    /\ pageTable[v].valid
    /\ pageTable' = Touch(pageTable, v, writing)
    /\ lastRef' = [lastRef EXCEPT ![v] = 0]
    /\ UNCHANGED <<options, totalTicks, wSetSize, wssRefreshCounter>>

\* A store to a page that is copy-on-write.
CopyOnWrite(v) ==
    /\ pageTable[v].valid
    /\ \E t \in TakeFrame(pageTable, wSetSize, v) :
          pageTable' = Touch(Copied(t, v), v, TRUE)
    /\ lastRef' = [lastRef EXCEPT ![v] = 0]
    /\ UNCHANGED <<options, totalTicks, wSetSize, wssRefreshCounter>>

\* Another process takes page v away, or pages in a page shared with this one.
OtherEvicts(v) ==
    /\ pageTable[v].valid
    /\ pageTable' = pageout(pageTable, v)
    /\ UNCHANGED <<options, totalTicks, wSetSize, wssRefreshCounter, lastRef>>

OtherLoads(v) ==
    /\ ~pageTable[v].valid
    /\ totalTicks' \in Later
    /\ pageTable' = Load(pageTable, v, totalTicks')
    /\ UNCHANGED <<options, wSetSize, wssRefreshCounter, lastRef>>

\* Fork, seen by the child: CopyPageTable into a new address space.
BecomeChild ==
    /\ pageTable' = [v \in Page |->
          [pageTable[v] EXCEPT !.use = FALSE, !.history = 0]]
    /\ wSetSize' = MinWss
    /\ wssRefreshCounter' = 0
    /\ lastRef' = [v \in Page |-> HistoryBits]
    /\ UNCHANGED <<options, totalTicks>>

\* SchedTimerInterruptHandler while the process runs, before the period is over.
Quantum ==
    /\ wssRefreshCounter # RefreshPeriod
    /\ wssRefreshCounter' = wssRefreshCounter + 1
    /\ UNCHANGED <<options, totalTicks, pageTable, wSetSize, lastRef>>

\* The same when it is over: refreshWss.
refreshWss ==
    /\ wssRefreshCounter = RefreshPeriod
    /\ wssRefreshCounter' = 0
    /\ wSetSize' = NewSize(pageTable)
    /\ \E t \in Contract(pageTable, NewSize(pageTable)) : pageTable' = Slide(t)
    /\ lastRef' = [v \in Page |-> IF lastRef[v] < HistoryBits
                                  THEN lastRef[v] + 1 ELSE HistoryBits]
    /\ UNCHANGED <<options, totalTicks>>

Next ==
    \/ \E v \in Page : PageFault(v)
    \/ \E v \in Page, writing \in BOOLEAN : Reference(v, writing)
    \/ \E v \in Page : CopyOnWrite(v)
    \/ \E v \in Page : OtherEvicts(v)
    \/ \E v \in Page : OtherLoads(v)
    \/ BecomeChild
    \/ Quantum
    \/ refreshWss

Spec == Init /\ [][Next]_vars

-----------------------------------------------------------------------------
(* Properties *)

\* Every field keeps the width the code gives it, the history its byte.
TypeOK ==
    /\ pageReplPolicy \in Policies
    /\ wsDeltaSize \in Deltas
    /\ wssContractionEnabled \in Contractions
    /\ pageTable \in [Page -> Entry]
    /\ wSetSize \in MinWss .. MaxWss
    /\ wssRefreshCounter \in 0 .. RefreshPeriod
    /\ totalTicks \in Nat
    /\ lastRef \in [Page -> 0 .. HistoryBits]

\* The page of S loaded first; of several, the one with the lowest number.
Oldest(S) ==
    LET t == Min({pageTable[v].load_time : v \in S})
    IN  Min({v \in S : pageTable[v].load_time = t})

\* Kind of a page for second chance, best victims first: not used and clean,
\* not used and dirty, used and clean, used and dirty.
Kind(v) == (IF pageTable[v].use THEN 2 ELSE 0) + (IF pageTable[v].dirty THEN 1 ELSE 0)

\* What the three loops compute, said without loops: FIFO the oldest candidate,
\* LRU the oldest with the smallest history, second chance the oldest of the
\* best kind there is; the branch of SC_Choose_Victim into which unused pages
\* fall that are not the oldest of their kind does not change its result.
VictimsMatchReference ==
    \A notMe \in Page \cup {NoPage} :
        LET C == {v \in Page : Candidate(pageTable, notMe, v)}
            leastHistory == Min({pageTable[v].history : v \in C})
            bestKind     == Min({Kind(v) : v \in C})
        IN  C # {} =>
              /\ FIFO_Choose_Victim(pageTable, notMe) = Oldest(C)
              /\ LRU_Choose_Victim(pageTable, notMe)
                   = Oldest({v \in C : pageTable[v].history = leastHistory})
              /\ SC_Choose_Victim(pageTable, notMe)
                   = Oldest({v \in C : Kind(v) = bestKind})

\* The history byte tells when a page was last referenced, through faults,
\* evictions, copies and forks, which reset some fields and not others: a page
\* counts for a window of n intervals exactly if it was referenced in one of
\* the last n, so refreshWss counts the working set.
HistoryTellsRecency ==
    \A v \in Page, n \in 1 .. HistoryBits :
        InWindow(pageTable[v], n) <=> lastRef[v] < n

\* LRU gives up no page that was referenced in a later interval than another
\* page it could have given up.
LruEvictsLeastRecent ==
    \A notMe \in Page \cup {NoPage}, v \in Page :
        Candidate(pageTable, notMe, v)
            => lastRef[v] <= lastRef[LRU_Choose_Victim(pageTable, notMe)]

\* Under a local policy a fault of the process leaves it with no more resident
\* pages than before, or with at most one more than its working-set size, which
\* TooManyFrames does not count yet: also when others load pages it shares and
\* refreshWss has just reduced the size, a victim is found and it is its own.
FaultRespectsWorkingSet ==
    [][LET Resident(table) == Cardinality({v \in Page : table[v].valid})
       IN  \A v \in Page : PageFault(v) /\ pageReplPolicy # "DUMB" =>
               \/ Resident(pageTable') <= Resident(pageTable)
               \/ Resident(pageTable') <= wSetSize + 1]_vars

=============================================================================
