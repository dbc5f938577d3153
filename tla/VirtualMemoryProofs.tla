------------------------ MODULE VirtualMemoryProofs ------------------------
EXTENDS VirtualMemory, FiniteSetTheorems, TLAPS

(***************************************************************************)
(* The inductive invariant of VirtualMemory, and its proof.  One lemma per *)
(* handler shows that the handler keeps the tables of the page tables, the *)
(* frame table and the swap file consistent (Linked), and what it does to  *)
(* the memory each process sees (View); the theorems combine them.         *)
(***************************************************************************)

\* The relations between the tables that every handler preserves, L being the
\* address spaces in existence.
Linked(s, L) ==
    /\ OwnersMapped(s)
    /\ OwnersAgree(s)
    /\ OwnersCow(s)
    /\ SwapMapped(s)
    /\ SwapFlags(s)
    /\ SwapShared(s)
    /\ CleanIsBacked(s)
    /\ OneSource(s)
    /\ Sourced(s, L)
    /\ Unused(s, L)

\* As FlagsOwned, but with frame f set aside: marked and not owned yet.
SetAside(s, f) ==
    /\ f \in s.page_flags
    /\ s.owners[f] = {}
    /\ \A g \in Frame \ {f} : g \in s.page_flags <=> s.owners[g] # {}

\* No entry other than those that map frame f differs between s and t.
OthersKept(s, t, f) ==
    \A q \in Process, u \in Page :
        ~(s.pageTable[q][u].valid /\ s.pageTable[q][u].physicalPage = f)
            => t.pageTable[q][u] = s.pageTable[q][u]

SameView(s, t) ==
    \A q \in Process, u \in Page : View(t, q, u) = View(s, q, u)

\* What a page holds outside memory depends on three things only.
LEMMA BackingSame ==
    ASSUME NEW s, NEW t, NEW a, NEW b, NEW v,
           a.zero = b.zero, a.File = b.File,
           ~a.zero /\ a.File = SwapFile => s.swapData[a.offset] = t.swapData[b.offset]
    PROVE  Backing(s, a, v) = Backing(t, b, v)
  <1>1. CASE a.zero
    BY <1>1 DEF Backing
  <1>2. CASE ~a.zero
    BY <1>2 DEF Backing
  <1>3. QED
    BY <1>1, <1>2

\* pageout leaves the tables consistent, the victim's frame unowned, and every
\* process seeing the memory it saw before.
LEMMA PageoutLinked ==
    ASSUME NEW s \in Machine, NEW L \in SUBSET Process, Linked(s, L), FlagsOwned(s),
           NEW f \in Frame, NEW first \in s.owners[f], NEW k \in SwapFrame,
           NeedsSwapFrame(s.pageTable[first][s.ownersPage[f]])
               => k \notin s.frame_flags
    PROVE  LET t == PageoutVia(s, f, first, k)
           IN  /\ t \in Machine /\ Linked(t, L) /\ SetAside(t, f)
               /\ OthersKept(s, t, f) /\ SameView(s, t)
  <1> DEFINE v     == s.ownersPage[f]
             Q     == s.owners[f]
             local == s.pageTable[first][v]
             fresh == NeedsSwapFrame(local)
             slot  == IF fresh THEN k ELSE local.offset
             swapped == local.dirty \/ local.File = SwapFile
             Leave(te) ==
                [te EXCEPT !.valid = FALSE,
                       !.File = IF fresh THEN SwapFile ELSE @,
                       !.offset = IF fresh THEN k ELSE @,
                       !.zero = IF fresh THEN FALSE ELSE @,
                       !.cow = IF swapped THEN @ ELSE FALSE]
             t == PageoutVia(s, f, first, k)
  <1>1. first \in Process /\ v \in Page /\ Q \subseteq Process
    BY DEF Machine
  <1>2. local \in TranslationEntry /\ slot \in SwapFrame
    <2>1. local \in TranslationEntry
      BY <1>1 DEF Machine
    <2> HIDE DEF local, fresh
    <2>2. local.offset \in SwapFrame
      BY <2>1 DEF TranslationEntry
    <2> QED BY <2>1, <2>2
  <1>3. \A te \in TranslationEntry : Leave(te) \in TranslationEntry
    <2> HIDE DEF local, fresh, swapped
    <2>1. SwapFile \in File
      BY DEF File
    <2> QED BY <2>1 DEF TranslationEntry
  <1>4. Rewrite(s, Q, v, Leave) \in [Process -> [Page -> TranslationEntry]]
    <2> HIDE DEF Leave, Q, v
    <2> QED BY <1>3 DEF Rewrite, Machine
  <1>5. t \in Machine
    <2> DEFINE PT == Rewrite(s, Q, v, Leave)
               FF == IF fresh THEN s.frame_flags \cup {k} ELSE s.frame_flags
               SD == IF local.dirty
                     THEN [s.swapData EXCEPT ![slot] = s.mainMemory[f]]
                     ELSE s.swapData
               SO == IF swapped THEN [s.swapOwners EXCEPT ![slot] = Q]
                     ELSE s.swapOwners
               SP == IF swapped THEN [s.swapPage EXCEPT ![slot] = v]
                     ELSE s.swapPage
    <2>1. t = [s EXCEPT !.pageTable = PT, !.owners[f] = {}, !.frame_flags = FF,
                        !.swapData = SD, !.swapOwners = SO, !.swapPage = SP]
      BY Zenon DEF PageoutVia
    <2> HIDE DEF t, local, fresh, swapped, Leave
    <2>2. PT \in [Process -> [Page -> TranslationEntry]]
      BY <1>4
    <2> HIDE DEF PT
    <2>3. FF \in SUBSET SwapFrame
      BY DEF Machine
    <2> HIDE DEF slot, Q, v
    <2>m. /\ s.swapData \in [SwapFrame -> Value \cup {Garbage}]
          /\ s.mainMemory[f] \in Value \cup {Garbage}
          /\ s.swapOwners \in [SwapFrame -> SUBSET Process]
          /\ s.swapPage \in [SwapFrame -> Page]
      BY DEF Machine
    <2>4. SD \in [SwapFrame -> Value \cup {Garbage}]
      BY <1>2, <2>m
    <2>5. SO \in [SwapFrame -> SUBSET Process] /\ SP \in [SwapFrame -> Page]
      BY <1>1, <1>2, <2>m
    <2> HIDE DEF FF, SD, SO, SP
    <2> QED BY <2>1, <2>2, <2>3, <2>4, <2>5 DEF Machine
  <1>6. \A q \in Process, u \in Page : t.pageTable[q][u] =
          IF q \in Q /\ u = v THEN Leave(s.pageTable[q][u])
                              ELSE s.pageTable[q][u]
    BY DEF PageoutVia, Rewrite, Machine
  <1>7. /\ t.owners = [s.owners EXCEPT ![f] = {}]
        /\ t.ownersPage = s.ownersPage
        /\ t.page_flags = s.page_flags
        /\ t.mainMemory = s.mainMemory
        /\ t.frame_flags = IF fresh THEN s.frame_flags \cup {k} ELSE s.frame_flags
        /\ t.swapData = IF local.dirty
             THEN [s.swapData EXCEPT ![slot] = s.mainMemory[f]] ELSE s.swapData
        /\ t.swapOwners = IF swapped THEN [s.swapOwners EXCEPT ![slot] = Q]
                          ELSE s.swapOwners
        /\ t.swapPage = IF swapped THEN [s.swapPage EXCEPT ![slot] = v]
                          ELSE s.swapPage
    BY DEF PageoutVia, Machine
  <1>8. \A q \in Process, u \in Page :
          (q \in Q /\ u = v) <=> (s.pageTable[q][u].valid
                                 /\ s.pageTable[q][u].physicalPage = f)
    BY DEF Linked, OwnersMapped
  <1>9. \A q \in Process, u \in Page :
          ~(q \in Q /\ u = v) => t.pageTable[q][u] = s.pageTable[q][u]
    <2> HIDE DEF t, Q, v, Leave
    <2> QED BY <1>6
  <1>10. \A q \in Q :
          LET a == s.pageTable[q][v]
          IN  /\ a.dirty = local.dirty /\ a.zero = local.zero
              /\ a.File = local.File
              /\ a.File = SwapFile => a.offset = local.offset
    <2> HIDE DEF t, fresh, swapped
    <2> SUFFICES ASSUME NEW q \in Q
                 PROVE  LET a == s.pageTable[q][v]
                        IN  /\ a.dirty = local.dirty /\ a.zero = local.zero
                            /\ a.File = local.File
                            /\ a.File = SwapFile => a.offset = local.offset
      OBVIOUS
    <2>1. q \in Process
      BY <1>1
    <2>2. OwnersAgree(s)
      BY DEF Linked
    <2>3. /\ s.pageTable[q][v].valid /\ s.pageTable[q][v].physicalPage = f
          /\ s.pageTable[first][v].valid /\ s.pageTable[first][v].physicalPage = f
      BY <1>1, <1>8
    <2>4. QED
      BY <1>1, <2>1, <2>2, <2>3 DEF OwnersAgree
  \* What each owner's entry becomes.
  <1>11. \A q \in Q :
          LET a == s.pageTable[q][v]
              b == t.pageTable[q][v]
          IN  /\ b.valid = FALSE
              /\ b.dirty = local.dirty
              /\ b.zero = (~fresh /\ local.zero)
              /\ b.File = IF fresh THEN SwapFile ELSE local.File
              /\ b.File = SwapFile => b.offset = slot
              /\ b.cow = (swapped /\ a.cow)
    <2> SUFFICES ASSUME NEW q \in Q
                 PROVE LET a == s.pageTable[q][v]
                           b == t.pageTable[q][v]
                       IN  /\ b.valid = FALSE
                           /\ b.dirty = local.dirty
                           /\ b.zero = (~fresh /\ local.zero)
                           /\ b.File = IF fresh THEN SwapFile ELSE local.File
                           /\ b.File = SwapFile => b.offset = slot
                           /\ b.cow = (swapped /\ a.cow)
      OBVIOUS
    <2> DEFINE a == s.pageTable[q][v]
    <2>1. q \in Process /\ a \in TranslationEntry
      BY <1>1 DEF Machine
    <2>2. t.pageTable[q][v] = Leave(a)
      <3> HIDE DEF t, Leave, Q, v
      <3> QED BY <1>1, <1>6, <2>1
    <2>3. /\ a.dirty = local.dirty /\ a.zero = local.zero
          /\ a.File = local.File
          /\ a.File = SwapFile => a.offset = local.offset
      BY <1>10
    <2> HIDE DEF a, swapped, t, Q, v, local
    <2>4. /\ Leave(a).valid = FALSE
          /\ Leave(a).dirty = local.dirty
          /\ Leave(a).zero = (~fresh /\ local.zero)
          /\ Leave(a).File = IF fresh THEN SwapFile ELSE local.File
          /\ Leave(a).File = SwapFile => Leave(a).offset = slot
          /\ Leave(a).cow = (swapped /\ a.cow)
      BY <1>2, <2>1, <2>3 DEF TranslationEntry
    <2> HIDE DEF Leave, fresh, slot
    <2>5. QED
      BY <2>2, <2>4 DEF a
  <1>12. fresh <=> local.dirty /\ local.File # SwapFile
    BY DEF NeedsSwapFrame
  <1> HIDE DEF t, Leave
  <1>13. t.owners[f] = {} /\ \A g \in Frame \ {f} : t.owners[g] = s.owners[g]
    <2> HIDE DEF fresh, local, slot, Q, v, swapped
    <2> QED BY <1>7 DEF Machine
  <1>14. t.ownersPage = s.ownersPage /\ t.mainMemory = s.mainMemory
    <2> HIDE DEF fresh, local, slot, Q, v, swapped
    <2> QED BY <1>7
  <1>s1. slot \in SwapFrame /\ (fresh => slot = k) /\ (~fresh => slot = local.offset)
    BY <1>2
  <1>s2. swapped <=> local.dirty \/ local.File = SwapFile
    OBVIOUS
  <1>s3. swapped => /\ t.swapOwners[slot] = Q /\ t.swapPage[slot] = v
                    /\ \A h \in SwapFrame \ {slot} :
                         /\ t.swapOwners[h] = s.swapOwners[h]
                         /\ t.swapPage[h] = s.swapPage[h]
    <2> HIDE DEF fresh, local, slot, Q, v, swapped
    <2>1. s.swapOwners \in [SwapFrame -> SUBSET Process]
          /\ s.swapPage \in [SwapFrame -> Page]
      BY DEF Machine
    <2>2. swapped => /\ t.swapOwners = [s.swapOwners EXCEPT ![slot] = Q]
                     /\ t.swapPage = [s.swapPage EXCEPT ![slot] = v]
      BY <1>7
    <2> QED BY <1>s1, <2>1, <2>2
  <1>s4. ~swapped => t.swapOwners = s.swapOwners /\ t.swapPage = s.swapPage
    <2> HIDE DEF fresh, local, slot, Q, v, swapped
    <2> QED BY <1>7
  <1>s5. /\ local.dirty => t.swapData[slot] = s.mainMemory[f]
         /\ \A h \in SwapFrame \ {slot} : t.swapData[h] = s.swapData[h]
         /\ ~local.dirty => t.swapData = s.swapData
    <2> HIDE DEF fresh, local, slot, Q, v, swapped
    <2>1. s.swapData \in [SwapFrame -> Value \cup {Garbage}]
      BY DEF Machine
    <2>2. t.swapData = IF local.dirty
             THEN [s.swapData EXCEPT ![slot] = s.mainMemory[f]] ELSE s.swapData
      BY <1>7
    <2> QED BY <1>s1, <2>1, <2>2
  <1>s6. t.frame_flags = IF fresh THEN s.frame_flags \cup {k} ELSE s.frame_flags
    <2> HIDE DEF fresh, local, slot, Q, v, swapped
    <2> QED BY <1>7
  <1>s7. Q # {}
    OBVIOUS
  <1>s8. first \in Q /\ local = s.pageTable[first][v]
    OBVIOUS
  <1>s9. fresh => k \notin s.frame_flags
    OBVIOUS
  <1> HIDE DEF t, fresh, local, slot, swapped, Leave, Q, v
  <1>15. OwnersMapped(t)
    <2> SUFFICES ASSUME NEW g \in Frame, NEW q \in Process, NEW u \in Page
                 PROVE  (q \in t.owners[g] /\ t.ownersPage[g] = u)
                        <=> (t.pageTable[q][u].valid /\ t.pageTable[q][u].physicalPage = g)
      BY DEF OwnersMapped
    <2>1. (q \in s.owners[g] /\ s.ownersPage[g] = u)
           <=> (s.pageTable[q][u].valid /\ s.pageTable[q][u].physicalPage = g)
      BY DEF Linked, OwnersMapped
    <2>2. CASE q \in Q /\ u = v
      BY <2>1, <2>2, <1>8, <1>11, <1>13, <1>14
    <2>3. CASE ~(q \in Q /\ u = v)
      BY <2>1, <2>3, <1>8, <1>9, <1>13, <1>14
    <2>4. QED
      BY <2>2, <2>3
  <1>16. OwnersAgree(t)
    <2> SUFFICES ASSUME NEW p \in Process, NEW q \in Process, NEW u \in Page,
                        t.pageTable[p][u].valid, t.pageTable[q][u].valid,
                        t.pageTable[p][u].physicalPage = t.pageTable[q][u].physicalPage
                 PROVE  LET a == t.pageTable[p][u]
                            b == t.pageTable[q][u]
                        IN /\ a.dirty = b.dirty /\ a.zero = b.zero /\ a.File = b.File
                           /\ a.File = SwapFile => a.offset = b.offset
      BY DEF OwnersAgree
    <2>1. /\ t.pageTable[p][u] = s.pageTable[p][u]
          /\ t.pageTable[q][u] = s.pageTable[q][u]
      BY <1>9, <1>11
    <2>2. OwnersAgree(s)
      BY DEF Linked
    <2>3. QED
      BY <2>1, <2>2 DEF OwnersAgree
  <1>17. OwnersCow(t)
    <2> SUFFICES ASSUME NEW p \in Process, NEW q \in Process, NEW u \in Page,
                        p # q,
                        t.pageTable[p][u].valid, t.pageTable[q][u].valid,
                        t.pageTable[p][u].physicalPage = t.pageTable[q][u].physicalPage
                 PROVE  t.pageTable[p][u].cow
      BY DEF OwnersCow
    <2>1. /\ t.pageTable[p][u] = s.pageTable[p][u]
          /\ t.pageTable[q][u] = s.pageTable[q][u]
      BY <1>9, <1>11
    <2>2. OwnersCow(s)
      BY DEF Linked
    <2>3. QED
      BY <2>1, <2>2 DEF OwnersCow
  <1>18. ASSUME swapped, NEW q \in Process, NEW u \in Page
         PROVE  (s.pageTable[q][u].File = SwapFile /\ s.pageTable[q][u].offset = slot)
                <=> (local.File = SwapFile /\ q \in Q /\ u = v)
    <2>1. SwapMapped(s) /\ SwapFlags(s) /\ SwapShared(s)
      BY DEF Linked
    <2>2. (q \in s.swapOwners[slot] /\ s.swapPage[slot] = u)
          <=> (s.pageTable[q][u].File = SwapFile /\ s.pageTable[q][u].offset = slot)
      BY <2>1, <1>s1 DEF SwapMapped
    <2>3. CASE fresh
      <3>1. s.swapOwners[slot] = {}
        BY <2>1, <2>3, <1>s1, <1>s9 DEF SwapFlags
      <3> QED BY <3>1, <2>2, <2>3, <1>12
    <2>4. CASE local.File = SwapFile
      <3>1. slot = local.offset
        BY <2>4, <1>12, <1>s1
      <3>2. q \in Q /\ u = v => s.pageTable[q][u].File = SwapFile
                                  /\ s.pageTable[q][u].offset = slot
        BY <2>4, <3>1, <1>10
      <3>3. ASSUME s.pageTable[q][u].File = SwapFile, s.pageTable[q][u].offset = slot
            PROVE  q \in Q /\ u = v
        <4>1. first \in s.swapOwners[slot] /\ s.swapPage[slot] = v
          BY <2>1, <2>4, <3>1, <1>1, <1>s1, <1>s8 DEF SwapMapped
        <4>2. u = v
          BY <2>2, <3>3, <4>1
        <4>3. s.pageTable[first][v].valid /\ s.pageTable[first][v].physicalPage = f
          BY <1>1, <1>8, <1>s8
        <4>4. CASE q = first
          BY <4>2, <4>4, <1>s8
        <4>5. CASE q # first
          <5>1. s.pageTable[q][v].valid /\ s.pageTable[q][v].physicalPage = f
            BY <2>1, <2>4, <3>1, <3>3, <4>2, <4>3, <4>5, <1>1, <1>s8 DEF SwapShared
          <5> QED BY <5>1, <4>2, <1>8
        <4> QED BY <4>4, <4>5
      <3> QED BY <2>4, <3>2, <3>3
    <2> QED BY <2>3, <2>4, <1>12, <1>18, <1>s2
  <1>19. \A q \in Process, u \in Page : swapped =>
           ((t.pageTable[q][u].File = SwapFile /\ t.pageTable[q][u].offset = slot)
            <=> (q \in Q /\ u = v))
    <2> SUFFICES ASSUME NEW q \in Process, NEW u \in Page, swapped
                 PROVE  (t.pageTable[q][u].File = SwapFile /\ t.pageTable[q][u].offset = slot)
                        <=> (q \in Q /\ u = v)
      OBVIOUS
    <2>1. CASE q \in Q /\ u = v
      BY <2>1, <1>11, <1>12, <1>s2
    <2>2. CASE ~(q \in Q /\ u = v)
      BY <2>2, <1>9, <1>18
    <2> QED BY <2>1, <2>2
  \* Entries that point at any other slot are those of s.
  <1>20. \A q \in Process, u \in Page, h \in SwapFrame :
            (swapped => h # slot) =>
              ((t.pageTable[q][u].File = SwapFile /\ t.pageTable[q][u].offset = h)
               <=> (s.pageTable[q][u].File = SwapFile /\ s.pageTable[q][u].offset = h))
    <2> SUFFICES ASSUME NEW q \in Process, NEW u \in Page, NEW h \in SwapFrame,
                        swapped => h # slot
                 PROVE  (t.pageTable[q][u].File = SwapFile /\ t.pageTable[q][u].offset = h)
                        <=> (s.pageTable[q][u].File = SwapFile /\ s.pageTable[q][u].offset = h)
      OBVIOUS
    <2>1. CASE q \in Q /\ u = v
      <3>1. t.pageTable[q][u].File = SwapFile => swapped /\ t.pageTable[q][u].offset = slot
        BY <2>1, <1>11, <1>12, <1>s2
      <3>2. s.pageTable[q][u].File = SwapFile => swapped /\ s.pageTable[q][u].offset = slot
        BY <2>1, <1>10, <1>12, <1>s1, <1>s2
      <3> QED BY <3>1, <3>2
    <2>2. CASE ~(q \in Q /\ u = v)
      BY <2>2, <1>9
    <2> QED BY <2>1, <2>2
  <1>21. SwapMapped(t)
    <2> SUFFICES ASSUME NEW h \in SwapFrame, NEW q \in Process, NEW u \in Page
                 PROVE  (q \in t.swapOwners[h] /\ t.swapPage[h] = u)
                        <=> (t.pageTable[q][u].File = SwapFile
                             /\ t.pageTable[q][u].offset = h)
      BY DEF SwapMapped
    <2>1. CASE swapped /\ h = slot
      BY <2>1, <1>19, <1>s3
    <2>2. CASE swapped => h # slot
      <3>1. t.swapOwners[h] = s.swapOwners[h] /\ t.swapPage[h] = s.swapPage[h]
        BY <2>2, <1>s3, <1>s4
      <3> QED BY <2>2, <3>1, <1>20 DEF Linked, SwapMapped
    <2> QED BY <2>1, <2>2
  <1>22. SwapFlags(t)
    <2> SUFFICES ASSUME NEW h \in SwapFrame
                 PROVE  h \in t.frame_flags <=> t.swapOwners[h] # {}
      BY DEF SwapFlags
    <2>0. SwapFlags(s) /\ SwapMapped(s)
      BY DEF Linked
    <2>1. CASE swapped /\ h = slot
      <3>1. CASE fresh
        BY <3>1, <2>1, <1>s1, <1>s3, <1>s6, <1>s7
      <3>2. CASE ~fresh
        <4>1. first \in s.swapOwners[h]
          BY <2>0, <2>1, <3>2, <1>1, <1>s1, <1>s2, <1>s8, <1>12 DEF SwapMapped
        <4> QED BY <4>1, <2>0, <2>1, <3>2, <1>s3, <1>s6, <1>s7 DEF SwapFlags
      <3> QED BY <3>1, <3>2
    <2>2. CASE swapped => h # slot
      <3>1. t.swapOwners[h] = s.swapOwners[h]
        BY <2>2, <1>s3, <1>s4
      <3>2. h \in t.frame_flags <=> h \in s.frame_flags
        BY <2>2, <1>s1, <1>s2, <1>s6, <1>12
      <3> QED BY <3>1, <3>2, <2>0 DEF SwapFlags
    <2> QED BY <2>1, <2>2
  <1>23. SwapShared(t)
    <2> SUFFICES ASSUME NEW p \in Process, NEW q \in Process, NEW u \in Page, p # q,
                        t.pageTable[p][u].File = SwapFile,
                        t.pageTable[q][u].File = SwapFile,
                        t.pageTable[p][u].offset = t.pageTable[q][u].offset
                 PROVE  LET a == t.pageTable[p][u]
                            b == t.pageTable[q][u]
                        IN  /\ a.cow
                            /\ a.valid = b.valid
                            /\ a.valid => a.physicalPage = b.physicalPage
      BY DEF SwapShared
    <2>1. OwnersCow(s) /\ SwapShared(s)
      BY DEF Linked
    <2>2. CASE p \in Q /\ u = v
      <3>1. swapped /\ t.pageTable[p][u].offset = slot
        BY <2>2, <1>11, <1>12, <1>s2
      <3>2. q \in Q
        BY <3>1, <1>19
      <3>3. s.pageTable[p][v].cow
        BY <2>1, <2>2, <3>2, <1>1, <1>8 DEF OwnersCow
      <3> QED BY <2>2, <3>1, <3>2, <3>3, <1>11
    <2>3. CASE ~(p \in Q /\ u = v)
      <3>1. CASE q \in Q /\ u = v
        <4>1. swapped /\ t.pageTable[q][u].offset = slot
          BY <3>1, <1>11, <1>12, <1>s2
        <4> QED BY <4>1, <2>3, <1>19
      <3>2. CASE ~(q \in Q /\ u = v)
        <4>1. /\ t.pageTable[p][u] = s.pageTable[p][u]
              /\ t.pageTable[q][u] = s.pageTable[q][u]
          BY <2>3, <3>2, <1>9
        <4>2. SwapShared(s)
          BY <2>1
        <4> QED BY <4>1, <4>2 DEF SwapShared
      <3> QED BY <3>1, <3>2
    <2> QED BY <2>2, <2>3
  <1>24. \A q \in Process, u \in Page :
           t.pageTable[q][u].zero => t.pageTable[q][u].File = NoFile
    <2> SUFFICES ASSUME NEW q \in Process, NEW u \in Page, t.pageTable[q][u].zero
                 PROVE  t.pageTable[q][u].File = NoFile
      OBVIOUS
    <2>1. OneSource(s)
      BY DEF Linked
    <2>2. CASE q \in Q /\ u = v
      <3>1. ~fresh /\ local.zero /\ t.pageTable[q][u].File = local.File
        BY <2>2, <1>11
      <3> QED BY <3>1, <2>1, <1>1, <1>s8 DEF OneSource
    <2>3. CASE ~(q \in Q /\ u = v)
      BY <2>1, <2>3, <1>9 DEF OneSource
    <2> QED BY <2>2, <2>3
  <1>25. ASSUME NEW q \in Process, NEW u \in Page, ~(q \in Q /\ u = v)
         PROVE  Backing(t, t.pageTable[q][u], u) = Backing(s, s.pageTable[q][u], u)
    <2> DEFINE a == s.pageTable[q][u]
    <2>1. t.pageTable[q][u] = a
      BY <1>9, <1>25
    <2>2. a.offset \in SwapFrame
      BY DEF Machine, TranslationEntry
    <2>3. a.File = SwapFile => t.swapData[a.offset] = s.swapData[a.offset]
      <3>1. CASE swapped
        BY <2>1, <2>2, <3>1, <1>19, <1>25, <1>s5
      <3>2. CASE ~swapped
        BY <3>2, <1>s2, <1>s5
      <3> QED BY <3>1, <3>2
    <2> HIDE DEF a
    <2>4. Backing(t, a, u) = Backing(s, a, u)
      BY <2>3, BackingSame
    <2> QED BY <2>1, <2>4 DEF a
  <1>26. ASSUME NEW q \in Q
         PROVE  Backing(t, t.pageTable[q][v], v) = s.mainMemory[f]
    <2> DEFINE a == s.pageTable[q][v]
               b == t.pageTable[q][v]
    <2>0. CleanIsBacked(s) /\ q \in Process /\ a.valid /\ a.physicalPage = f
      BY <1>1, <1>8 DEF Linked
    <2>1. CASE local.dirty
      <3>1. b.File = SwapFile /\ b.offset = slot
        BY <2>1, <1>11, <1>12
      <3>2. ~b.zero
        BY <3>1, <2>0, <1>1, <1>24, FileAssumption
      <3>3. t.swapData[slot] = s.mainMemory[f]
        BY <2>1, <1>s5
      <3> HIDE DEF b
      <3>4. Backing(t, b, v) = t.swapData[b.offset]
        BY <3>1, <3>2, FileAssumption DEF Backing
      <3> QED BY <3>1, <3>3, <3>4 DEF b
    <2>2. CASE ~local.dirty
      <3>1. ~a.dirty
        BY <2>2, <1>10
      <3>2. s.mainMemory[f] = Backing(s, a, v)
        BY <2>0, <3>1, <1>1 DEF CleanIsBacked
      <3>3. ~fresh /\ t.swapData = s.swapData
        BY <2>2, <1>12, <1>s5
      <3>4. b.zero = a.zero
        <4>1. local.zero \in BOOLEAN
          BY <1>2 DEF TranslationEntry
        <4>2. a.zero = local.zero /\ b.zero = (~fresh /\ local.zero)
          BY <1>10, <1>11
        <4> QED BY <3>3, <4>1, <4>2
      <3>5. /\ b.File = a.File
            /\ a.File = SwapFile => a.offset = b.offset
        BY <3>3, <1>10, <1>11, <1>s1
      <3> HIDE DEF a, b
      <3>6. Backing(t, b, v) = Backing(s, a, v)
        BY <3>3, <3>4, <3>5, BackingSame
      <3> QED BY <3>2, <3>6 DEF b
    <2> QED BY <2>1, <2>2
  <1>27. CleanIsBacked(t)
    <2> SUFFICES ASSUME NEW q \in Process, NEW u \in Page,
                        t.pageTable[q][u].valid, ~t.pageTable[q][u].dirty
                 PROVE  t.mainMemory[t.pageTable[q][u].physicalPage]
                          = Backing(t, t.pageTable[q][u], u)
      BY DEF CleanIsBacked
    <2>1. ~(q \in Q /\ u = v)
      BY <1>11
    <2>2. t.pageTable[q][u] = s.pageTable[q][u]
      BY <2>1, <1>9
    <2>3. Backing(t, t.pageTable[q][u], u) = Backing(s, s.pageTable[q][u], u)
      BY <2>1, <1>25
    <2> QED BY <2>2, <2>3, <1>14 DEF Linked, CleanIsBacked
  <1>28. SameView(s, t)
    <2> SUFFICES ASSUME NEW q \in Process, NEW u \in Page
                 PROVE  View(t, q, u) = View(s, q, u)
      BY DEF SameView
    <2>1. CASE q \in Q /\ u = v
      <3>1. View(t, q, u) = s.mainMemory[f]
        BY <2>1, <1>11, <1>26 DEF View
      <3>2. View(s, q, u) = s.mainMemory[f]
        BY <2>1, <1>8 DEF View
      <3> QED BY <3>1, <3>2
    <2>2. CASE ~(q \in Q /\ u = v)
      BY <2>2, <1>9, <1>14, <1>25 DEF View
    <2> QED BY <2>1, <2>2
  <1>29. SetAside(t, f)
    BY <1>13, <1>7, <1>s7 DEF SetAside, FlagsOwned, Q
  <1>30. OthersKept(s, t, f)
    BY <1>8, <1>9 DEF OthersKept
  <1>31. Sourced(t, L)
    <2> SUFFICES ASSUME NEW q \in L, NEW u \in Page,
                        ~t.pageTable[q][u].zero, t.pageTable[q][u].File = NoFile
                 PROVE  t.pageTable[q][u].valid /\ t.pageTable[q][u].dirty
      BY DEF Sourced
    <2>0. Sourced(s, L) /\ q \in Process
      BY DEF Linked
    <2>1. CASE q \in Q /\ u = v
      <3>1. ~fresh /\ ~local.zero /\ local.File = NoFile
        BY <2>1, <1>11, FileAssumption
      <3>2. ~s.pageTable[q][u].zero /\ s.pageTable[q][u].File = NoFile
        BY <2>1, <3>1, <1>10
      <3>3. local.dirty
        BY <2>0, <2>1, <3>2, <1>10 DEF Sourced
      <3> QED BY <3>1, <3>3, <1>12, FileAssumption
    <2>2. CASE ~(q \in Q /\ u = v)
      BY <2>0, <2>2, <1>9 DEF Sourced
    <2> QED BY <2>1, <2>2
  <1>32. Unused(t, L)
    <2> SUFFICES ASSUME NEW q \in Process \ L, NEW u \in Page
                 PROVE  t.pageTable[q][u] = BlankEntry
      BY DEF Unused
    <2>1. s.pageTable[q][u] = BlankEntry
      BY DEF Linked, Unused
    <2>2. ~s.pageTable[q][u].valid
      BY <2>1 DEF BlankEntry
    <2> QED BY <2>1, <2>2, <1>8, <1>9
  <1>33. QED
    BY <1>31, <1>32, <1>5, <1>15, <1>16, <1>17, <1>21, <1>22, <1>23, <1>24, <1>27, <1>28,
       <1>29, <1>30 DEF Linked, OneSource, t

\* However a frame is obtained, the tables stay consistent and no process sees
\* a difference; only entries that mapped the frame have changed.
LEMMA TakeFrameLinked ==
    ASSUME NEW s \in Machine, NEW L \in SUBSET Process, Linked(s, L), FlagsOwned(s),
           NEW p \in Process, NEW notMe \in SUBSET s.page_flags,
           NEW a \in TakeFrame(s, p, notMe)
    PROVE  /\ a.frame \in Frame \ notMe
           /\ a.state \in Machine /\ Linked(a.state, L)
           /\ SetAside(a.state, a.frame)
           /\ OthersKept(s, a.state, a.frame)
           /\ SameView(s, a.state)
  <1>1. CASE ~TooManyFrames(s, p) /\ s.page_flags # Frame
    <2>1. PICK f \in Frame \ s.page_flags :
            a = [state |-> [s EXCEPT !.page_flags = @ \cup {f}], frame |-> f]
      BY <1>1 DEF TakeFrame
    <2> DEFINE t == a.state
    <2>2. a.frame = f /\ t = [s EXCEPT !.page_flags = @ \cup {f}]
      BY <2>1
    <2>3. t \in Machine
      <3>1. [s EXCEPT !.page_flags = s.page_flags \cup {f}] \in Machine
        BY DEF Machine
      <3> QED BY <2>2, <3>1
    <2>4. /\ t.pageTable = s.pageTable /\ t.owners = s.owners
          /\ t.ownersPage = s.ownersPage /\ t.mainMemory = s.mainMemory
          /\ t.frame_flags = s.frame_flags /\ t.swapOwners = s.swapOwners
          /\ t.swapPage = s.swapPage /\ t.swapData = s.swapData
          /\ t.page_flags = s.page_flags \cup {f}
      BY <2>2 DEF Machine
    <2> HIDE DEF t
    <2>5. \A te, u : Backing(t, te, u) = Backing(s, te, u)
      BY <2>4 DEF Backing
    <2>6. SameView(s, t)
      BY <2>4, <2>5 DEF SameView, View
    <2>7. Linked(t, L)
      <3>1. OwnersMapped(t) /\ OwnersAgree(t) /\ OwnersCow(t)
        BY <2>4 DEF Linked, OwnersMapped, OwnersAgree, OwnersCow
      <3>2. SwapMapped(t) /\ SwapFlags(t) /\ SwapShared(t)
        BY <2>4 DEF Linked, SwapMapped, SwapFlags, SwapShared
      <3>3. CleanIsBacked(t)
        BY <2>4, <2>5 DEF Linked, CleanIsBacked
      <3>4. OneSource(t) /\ Sourced(t, L) /\ Unused(t, L)
        BY <2>4 DEF Linked, OneSource, Sourced, Unused
      <3> QED BY <3>1, <3>2, <3>3, <3>4 DEF Linked
    <2>8. SetAside(t, f)
      BY <2>4 DEF SetAside, FlagsOwned
    <2>9. OthersKept(s, t, f)
      BY <2>4 DEF OthersKept
    <2> QED BY <2>2, <2>3, <2>6, <2>7, <2>8, <2>9 DEF t
  <1>2. CASE ~(~TooManyFrames(s, p) /\ s.page_flags # Frame)
    <2>1. PICK f \in Choose_Victim(s, p, notMe) :
            a \in {[state |-> t, frame |-> f] : t \in Pageout(s, f)}
      BY <1>2 DEF TakeFrame
    <2>2. a.frame = f /\ a.state \in Pageout(s, f)
      BY <2>1
    <2>3. f \in Frame \ notMe
      BY <2>1 DEF Choose_Victim, Resident, Machine, TranslationEntry
    <2>4. PICK first \in s.owners[f], k \in SwapFrame :
            /\ NeedsSwapFrame(s.pageTable[first][s.ownersPage[f]])
                   => k \notin s.frame_flags
            /\ a.state = PageoutVia(s, f, first, k)
      BY <2>2, FrameAssumption DEF Pageout
    <2> QED BY <2>2, <2>3, <2>4, PageoutLinked
  <1>3. QED
    BY <1>1, <1>2

\* A page read back from its file or slot is a page value.
LEMMA BackingType ==
    ASSUME NEW s \in Machine, NEW te \in TranslationEntry, NEW v \in Page
    PROVE  Backing(s, te, v) \in Value \cup {Garbage}
  <1>1. te.File \in File /\ te.offset \in SwapFrame /\ te.zero \in BOOLEAN
    BY DEF TranslationEntry
  <1>2. s.swapData[te.offset] \in Value \cup {Garbage}
    BY <1>1 DEF Machine
  <1>3. QED
    BY <1>1, <1>2, FileAssumption DEF Backing, File

\* The second half of pagein: page v arrives in the frame set aside for it, for
\* every process that shares it on swap, and no process sees a difference.
LEMMA LoadLinked ==
    ASSUME NEW s \in Machine, NEW L \in SUBSET Process, Linked(s, L),
           NEW f \in Frame, SetAside(s, f),
           NEW p \in L, NEW v \in Page, ~s.pageTable[p][v].valid
    PROVE  LET t == Load(s, p, v, f)
           IN  /\ t \in Machine /\ Linked(t, L) /\ FlagsOwned(t)
               /\ SameView(s, t)
               /\ \A q \in Process, u \in Page \ {v} :
                     t.pageTable[q][u] = s.pageTable[q][u]
  <1> DEFINE local == s.pageTable[p][v]
             fromSwap == local.File = SwapFile
             Q == IF fromSwap THEN s.swapOwners[local.offset] ELSE {p}
             Arrive(te) ==
                [te EXCEPT !.valid = TRUE, !.dirty = FALSE, !.physicalPage = f,
                           !.cow = IF fromSwap THEN @ ELSE FALSE]
             t == Load(s, p, v, f)
  <1>1. p \in Process /\ Q \subseteq Process
    BY DEF Machine, TranslationEntry
  <1>2. local \in TranslationEntry
    BY <1>1 DEF Machine
  <1>3. local.offset \in SwapFrame
    BY <1>2 DEF TranslationEntry
  <1>4. fromSwap => p \in Q /\ s.swapPage[local.offset] = v
    BY <1>1, <1>3 DEF Linked, SwapMapped
  <1>5. p \in Q
    BY <1>4
  <1>6. ASSUME NEW q \in Q
        PROVE  /\ q \in L
               /\ s.pageTable[q][v].valid = FALSE
               /\ s.pageTable[q][v].File = local.File
               /\ s.pageTable[q][v].zero = local.zero
               /\ fromSwap => s.pageTable[q][v].offset = local.offset
               /\ fromSwap /\ q # p => s.pageTable[q][v].cow
    <2>1. CASE ~fromSwap
      BY <2>1, <1>2 DEF TranslationEntry
    <2>2. CASE fromSwap
      <3>0. SwapMapped(s) /\ SwapShared(s) /\ OneSource(s) /\ Unused(s, L)
        BY DEF Linked
      <3>1. q \in Process /\ q \in s.swapOwners[local.offset]
        BY <1>1, <2>2
      <3>2. s.pageTable[q][v].File = SwapFile /\ s.pageTable[q][v].offset = local.offset
        BY <3>0, <3>1, <1>3, <1>4, <2>2 DEF SwapMapped
      <3>3. s.pageTable[q][v] \in TranslationEntry
        BY <3>1 DEF Machine
      <3>4. s.pageTable[q][v].valid = FALSE
        <4>1. s.pageTable[q][v].valid \in BOOLEAN
          BY <3>3 DEF TranslationEntry
        <4>2. CASE q = p
          BY <4>1, <4>2
        <4>3. CASE q # p
          BY <4>1, <4>3, <3>0, <3>1, <3>2, <1>1, <2>2 DEF SwapShared
        <4> QED BY <4>2, <4>3
      <3>5. q # p => s.pageTable[q][v].cow
        BY <3>0, <3>1, <3>2, <1>1, <2>2 DEF SwapShared
      <3>6. s.pageTable[q][v].zero = FALSE /\ local.zero = FALSE
        BY <3>0, <3>1, <3>2, <3>3, <1>1, <1>2, <2>2, FileAssumption
           DEF OneSource, TranslationEntry
      <3>7. q \in L
        BY <3>0, <3>1, <3>2, FileAssumption DEF Unused, BlankEntry
      <3> QED BY <2>2, <3>2, <3>4, <3>5, <3>6, <3>7
    <2> QED BY <2>1, <2>2
  <1>7. \A te \in TranslationEntry : Arrive(te) \in TranslationEntry
    BY DEF TranslationEntry
  <1>8. Rewrite(s, Q, v, Arrive) \in [Process -> [Page -> TranslationEntry]]
    <2> HIDE DEF Arrive, Q
    <2> QED BY <1>7 DEF Rewrite, Machine
  <1>9. t \in Machine
    <2>1. Backing(s, local, v) \in Value \cup {Garbage}
      BY <1>2, BackingType
    <2> DEFINE PT == Rewrite(s, Q, v, Arrive)
               w == IF fromSwap THEN s.swapPage[local.offset] ELSE v
               x == Backing(s, local, v)
    <2>2. t = [s EXCEPT !.pageTable = PT, !.owners[f] = Q, !.ownersPage[f] = w,
                        !.mainMemory[f] = x]
      BY DEF Load
    <2> HIDE DEF local, fromSwap
    <2>3. w \in Page
      BY <1>3 DEF Machine
    <2> HIDE DEF t, PT, Q, w, x
    <2>4. PT \in [Process -> [Page -> TranslationEntry]]
      BY <1>8 DEF PT
    <2>5. x \in Value \cup {Garbage}
      BY <2>1 DEF x
    <2> QED BY <1>1, <2>2, <2>3, <2>4, <2>5 DEF Machine
  <1>10. \A q \in Process, u \in Page :
           /\ ~(q \in Q /\ u = v) => t.pageTable[q][u] = s.pageTable[q][u]
           /\ q \in Q /\ u = v => t.pageTable[q][u] = Arrive(s.pageTable[q][u])
    BY DEF Load, Rewrite, Machine
  <1>11. ASSUME NEW q \in Q
         PROVE  LET a == s.pageTable[q][v]
                    b == t.pageTable[q][v]
                IN  /\ b.valid = TRUE /\ b.dirty = FALSE /\ b.physicalPage = f
                    /\ b.zero = local.zero /\ b.File = local.File
                    /\ b.File = a.File /\ b.offset = a.offset
                    /\ fromSwap => b.cow = a.cow /\ b.offset = local.offset
    <2> DEFINE a == s.pageTable[q][v]
    <2>1. q \in Process /\ a \in TranslationEntry
      BY <1>1 DEF Machine
    <2>2. t.pageTable[q][v] = Arrive(a)
      <3> HIDE DEF t, Arrive, Q
      <3> QED BY <1>10, <2>1
    <2>3. a.File = local.File /\ a.zero = local.zero /\ (fromSwap => a.offset = local.offset)
      BY <1>6
    <2> HIDE DEF a, t, Q, fromSwap, local
    <2>4. /\ Arrive(a).valid = TRUE /\ Arrive(a).dirty = FALSE
          /\ Arrive(a).physicalPage = f
          /\ Arrive(a).zero = a.zero /\ Arrive(a).File = a.File
          /\ Arrive(a).offset = a.offset
          /\ fromSwap => Arrive(a).cow = a.cow
      BY <2>1 DEF TranslationEntry
    <2> HIDE DEF Arrive
    <2> QED BY <2>2, <2>3, <2>4 DEF a
  <1>12. /\ t.page_flags = s.page_flags
         /\ t.frame_flags = s.frame_flags /\ t.swapOwners = s.swapOwners
         /\ t.swapPage = s.swapPage /\ t.swapData = s.swapData
    BY DEF Load, Machine
  <1>13. /\ t.owners[f] = Q /\ t.ownersPage[f] = v
         /\ t.mainMemory[f] = Backing(s, local, v)
         /\ \A g \in Frame \ {f} :
               /\ t.owners[g] = s.owners[g] /\ t.ownersPage[g] = s.ownersPage[g]
               /\ t.mainMemory[g] = s.mainMemory[g]
    BY <1>4 DEF Load, Machine
  <1>14. \A q \in Process, u \in Page : s.pageTable[q][u].valid =>
            s.pageTable[q][u].physicalPage \in Frame \ {f}
    BY DEF Linked, OwnersMapped, SetAside, Machine, TranslationEntry
  <1>15. fromSwap <=> local.File = SwapFile
    OBVIOUS
  <1>16. ~fromSwap => Q = {p}
    OBVIOUS
  <1>17. fromSwap => Q = s.swapOwners[local.offset]
    OBVIOUS
  <1>18. local = s.pageTable[p][v]
    OBVIOUS
  <1> HIDE DEF t, Q, Arrive, fromSwap, local
  <1>19. OwnersMapped(t)
    <2> SUFFICES ASSUME NEW g \in Frame, NEW q \in Process, NEW u \in Page
                 PROVE  (q \in t.owners[g] /\ t.ownersPage[g] = u)
                        <=> (t.pageTable[q][u].valid /\ t.pageTable[q][u].physicalPage = g)
      BY DEF OwnersMapped
    <2>1. (q \in s.owners[g] /\ s.ownersPage[g] = u)
           <=> (s.pageTable[q][u].valid /\ s.pageTable[q][u].physicalPage = g)
      BY DEF Linked, OwnersMapped
    <2>2. CASE q \in Q /\ u = v
      <3>1. ~s.pageTable[q][u].valid
        BY <2>2, <1>6
      <3>2. t.pageTable[q][u].valid /\ t.pageTable[q][u].physicalPage = f
        BY <2>2, <1>11
      <3> QED BY <2>1, <2>2, <3>1, <3>2, <1>13
    <2>3. CASE ~(q \in Q /\ u = v)
      BY <2>1, <2>3, <1>10, <1>13, <1>14
    <2> QED BY <2>2, <2>3
  \* Only processes in Q map frame f, all at page v.
  <1>20. ASSUME NEW q \in Process, NEW r \in Process, NEW u \in Page,
                t.pageTable[q][u].valid, t.pageTable[r][u].valid,
                t.pageTable[q][u].physicalPage = t.pageTable[r][u].physicalPage
         PROVE  (q \in Q /\ u = v) <=> (r \in Q /\ u = v)
    <2>1. \A w \in Process : t.pageTable[w][u].valid =>
             ((w \in Q /\ u = v) <=> t.pageTable[w][u].physicalPage = f)
      <3> SUFFICES ASSUME NEW w \in Process, t.pageTable[w][u].valid
                   PROVE  (w \in Q /\ u = v) <=> t.pageTable[w][u].physicalPage = f
        OBVIOUS
      <3>1. CASE w \in Q /\ u = v
        BY <3>1, <1>11
      <3>2. CASE ~(w \in Q /\ u = v)
        BY <3>2, <1>10, <1>14
      <3> QED BY <3>1, <3>2
    <2> QED BY <2>1, <1>20
  <1>21. OwnersAgree(t)
    <2> SUFFICES ASSUME NEW q \in Process, NEW r \in Process, NEW u \in Page,
                        t.pageTable[q][u].valid, t.pageTable[r][u].valid,
                        t.pageTable[q][u].physicalPage = t.pageTable[r][u].physicalPage
                 PROVE  LET a == t.pageTable[q][u]
                            b == t.pageTable[r][u]
                        IN /\ a.dirty = b.dirty /\ a.zero = b.zero /\ a.File = b.File
                           /\ a.File = SwapFile => a.offset = b.offset
      BY DEF OwnersAgree
    <2>1. CASE q \in Q /\ u = v
      <3>1. r \in Q
        BY <2>1, <1>20
      <3>2. ASSUME NEW w \in Q
            PROVE  LET b == t.pageTable[w][v]
                   IN  /\ b.dirty = FALSE /\ b.zero = local.zero
                       /\ b.File = local.File
                       /\ fromSwap => b.offset = local.offset
        BY <1>11
      <3> QED BY <2>1, <3>1, <3>2, <1>15
    <2>2. CASE ~(q \in Q /\ u = v)
      <3>1. ~(r \in Q /\ u = v)
        BY <2>2, <1>20
      <3>2. /\ t.pageTable[q][u] = s.pageTable[q][u]
            /\ t.pageTable[r][u] = s.pageTable[r][u]
        BY <2>2, <3>1, <1>10
      <3>3. OwnersAgree(s)
        BY DEF Linked
      <3> QED BY <3>2, <3>3 DEF OwnersAgree
    <2> QED BY <2>1, <2>2
  <1>22. OwnersCow(t)
    <2> SUFFICES ASSUME NEW q \in Process, NEW r \in Process, NEW u \in Page, q # r,
                        t.pageTable[q][u].valid, t.pageTable[r][u].valid,
                        t.pageTable[q][u].physicalPage = t.pageTable[r][u].physicalPage
                 PROVE  t.pageTable[q][u].cow
      BY DEF OwnersCow
    <2>1. CASE q \in Q /\ u = v
      <3>1. r \in Q
        BY <2>1, <1>20
      <3>2. fromSwap
        BY <2>1, <3>1, <1>16
      <3>3. s.pageTable[q][v].cow
        <4>1. SwapShared(s)
          BY DEF Linked
        <4>2. /\ s.pageTable[q][v].File = SwapFile /\ s.pageTable[r][v].File = SwapFile
              /\ s.pageTable[q][v].offset = s.pageTable[r][v].offset
          BY <2>1, <3>1, <3>2, <1>6, <1>15
        <4> QED BY <4>1, <4>2 DEF SwapShared
      <3> QED BY <2>1, <3>2, <3>3, <1>11
    <2>2. CASE ~(q \in Q /\ u = v)
      <3>1. ~(r \in Q /\ u = v)
        BY <2>2, <1>20
      <3> QED BY <2>2, <3>1, <1>10 DEF Linked, OwnersCow
    <2> QED BY <2>1, <2>2
  <1>23. \A q \in Process, u \in Page :
           LET a == s.pageTable[q][u]
               b == t.pageTable[q][u]
           IN  b.File = a.File /\ b.offset = a.offset /\ b.zero = a.zero
    <2> SUFFICES ASSUME NEW q \in Process, NEW u \in Page
                 PROVE  LET a == s.pageTable[q][u]
                            b == t.pageTable[q][u]
                        IN  b.File = a.File /\ b.offset = a.offset /\ b.zero = a.zero
      OBVIOUS
    <2>1. CASE q \in Q /\ u = v
      <3>1. s.pageTable[q][v].zero = local.zero
        BY <2>1, <1>6
      <3>2. /\ t.pageTable[q][v].File = s.pageTable[q][v].File
            /\ t.pageTable[q][v].offset = s.pageTable[q][v].offset
            /\ t.pageTable[q][v].zero = local.zero
        BY <2>1, <1>11
      <3> QED BY <2>1, <3>1, <3>2
    <2>2. CASE ~(q \in Q /\ u = v)
      BY <2>2, <1>10
    <2> QED BY <2>1, <2>2
  <1>24. SwapMapped(t) /\ SwapFlags(t) /\ OneSource(t)
    BY <1>12, <1>23 DEF Linked, SwapMapped, SwapFlags, OneSource
  <1>25. SwapShared(t)
    <2> SUFFICES ASSUME NEW q \in Process, NEW r \in Process, NEW u \in Page, q # r,
                        t.pageTable[q][u].File = SwapFile,
                        t.pageTable[r][u].File = SwapFile,
                        t.pageTable[q][u].offset = t.pageTable[r][u].offset
                 PROVE  LET a == t.pageTable[q][u]
                            b == t.pageTable[r][u]
                        IN  /\ a.cow
                            /\ a.valid = b.valid
                            /\ a.valid => a.physicalPage = b.physicalPage
      BY DEF SwapShared
    <2>1. /\ s.pageTable[q][u].File = SwapFile /\ s.pageTable[r][u].File = SwapFile
          /\ s.pageTable[q][u].offset = s.pageTable[r][u].offset
      BY <1>23
    <2>2. (q \in Q /\ u = v) <=> (r \in Q /\ u = v)
      <3>1. \A w \in Process : s.pageTable[w][u].File = SwapFile =>
              (w \in Q /\ u = v <=> fromSwap /\ u = v
                                    /\ s.pageTable[w][u].offset = local.offset)
        BY <1>3, <1>4, <1>6, <1>15, <1>16, <1>17, <1>18 DEF Linked, SwapMapped
      <3> QED BY <2>1, <3>1
    <2>3. s.pageTable[q][u].cow
      BY <2>1 DEF Linked, SwapShared
    <2>4. CASE q \in Q /\ u = v
      <3>1. fromSwap
        BY <2>4, <2>1, <1>6, <1>15
      <3>2. ASSUME NEW w \in Q
            PROVE  /\ t.pageTable[w][v].valid = TRUE
                   /\ t.pageTable[w][v].physicalPage = f
                   /\ t.pageTable[w][v].cow = s.pageTable[w][v].cow
        BY <3>1, <1>11
      <3> QED BY <2>2, <2>3, <2>4, <3>2
    <2>5. CASE ~(q \in Q /\ u = v)
      <3>1. /\ t.pageTable[q][u] = s.pageTable[q][u]
            /\ t.pageTable[r][u] = s.pageTable[r][u]
        BY <2>2, <2>5, <1>10
      <3>2. SwapShared(s)
        BY DEF Linked
      <3> QED BY <3>1, <3>2, <2>1 DEF SwapShared
    <2> QED BY <2>4, <2>5
  <1>26. ASSUME NEW q \in Process, NEW u \in Page
         PROVE  Backing(t, t.pageTable[q][u], u) = Backing(s, s.pageTable[q][u], u)
    <2> DEFINE a == s.pageTable[q][u]
               b == t.pageTable[q][u]
    <2>1. b.File = a.File /\ b.offset = a.offset /\ b.zero = a.zero
      BY <1>23
    <2> HIDE DEF a, b
    <2>2. Backing(t, b, u) = Backing(s, a, u)
      BY <2>1, <1>12, BackingSame
    <2> QED BY <2>2 DEF a, b
  <1>27. ASSUME NEW q \in Q
         PROVE  Backing(s, s.pageTable[q][v], v) = Backing(s, local, v)
    <2> DEFINE a == s.pageTable[q][v]
    <2>1. /\ a.File = local.File /\ a.zero = local.zero
          /\ a.File = SwapFile => a.offset = local.offset
      BY <1>6, <1>15
    <2> HIDE DEF a
    <2>2. Backing(s, a, v) = Backing(s, local, v)
      BY <2>1, BackingSame
    <2> QED BY <2>2 DEF a
  <1>28. CleanIsBacked(t)
    <2> SUFFICES ASSUME NEW q \in Process, NEW u \in Page,
                        t.pageTable[q][u].valid, ~t.pageTable[q][u].dirty
                 PROVE  t.mainMemory[t.pageTable[q][u].physicalPage]
                          = Backing(t, t.pageTable[q][u], u)
      BY DEF CleanIsBacked
    <2>1. CASE q \in Q /\ u = v
      <3>1. t.pageTable[q][u].physicalPage = f
        BY <2>1, <1>11
      <3>2. Backing(t, t.pageTable[q][u], u) = Backing(s, local, v)
        BY <2>1, <1>26, <1>27
      <3> QED BY <3>1, <3>2, <1>13
    <2>2. CASE ~(q \in Q /\ u = v)
      <3>1. t.mainMemory[t.pageTable[q][u].physicalPage]
              = s.mainMemory[s.pageTable[q][u].physicalPage]
        BY <2>2, <1>10, <1>13, <1>14
      <3> QED BY <3>1, <2>2, <1>10, <1>26 DEF Linked, CleanIsBacked
    <2> QED BY <2>1, <2>2
  <1>29. SameView(s, t)
    <2> SUFFICES ASSUME NEW q \in Process, NEW u \in Page
                 PROVE  View(t, q, u) = View(s, q, u)
      BY DEF SameView
    <2>1. CASE q \in Q /\ u = v
      <3>1. t.pageTable[q][u].valid /\ t.pageTable[q][u].physicalPage = f
        BY <2>1, <1>11
      <3>2. ~s.pageTable[q][u].valid
        BY <2>1, <1>6
      <3>3. Backing(s, s.pageTable[q][u], u) = Backing(s, local, v)
        BY <2>1, <1>27
      <3> QED BY <3>1, <3>2, <3>3, <1>13 DEF View
    <2>2. CASE ~(q \in Q /\ u = v)
      BY <2>2, <1>10, <1>13, <1>14, <1>26 DEF View
    <2> QED BY <2>1, <2>2
  <1>30. Sourced(t, L)
    <2> SUFFICES ASSUME NEW q \in L, NEW u \in Page,
                        ~t.pageTable[q][u].zero, t.pageTable[q][u].File = NoFile
                 PROVE  t.pageTable[q][u].valid /\ t.pageTable[q][u].dirty
      BY DEF Sourced
    <2>1. s.pageTable[q][u].valid /\ s.pageTable[q][u].dirty
      BY <1>23 DEF Linked, Sourced
    <2>2. ~(q \in Q /\ u = v)
      BY <2>1, <1>6
    <2> QED BY <2>1, <2>2, <1>10
  <1>31. Unused(t, L)
    <2>1. \A q \in Process \ L, u \in Page : t.pageTable[q][u] = s.pageTable[q][u]
      BY <1>6, <1>10
    <2> QED BY <2>1 DEF Linked, Unused
  <1>32. FlagsOwned(t)
    BY <1>5, <1>12, <1>13 DEF SetAside, FlagsOwned
  <1>33. QED
    BY <1>9, <1>10, <1>19, <1>21, <1>22, <1>24, <1>25, <1>28, <1>29, <1>30,
       <1>31, <1>32 DEF Linked, t

\* A page fault, whole: pagein keeps the tables consistent and is invisible.
LEMMA PageinLinked ==
    ASSUME NEW s \in Machine, NEW L \in SUBSET Process, Linked(s, L), FlagsOwned(s),
           NEW p \in L, NEW v \in Page, ~s.pageTable[p][v].valid,
           NEW t \in Pagein(s, p, v)
    PROVE  /\ t \in Machine /\ Linked(t, L) /\ FlagsOwned(t) /\ SameView(s, t)
           /\ \A u \in Page \ {v} :
                 ~s.pageTable[p][u].valid => ~t.pageTable[p][u].valid
  <1>1. PICK a \in TakeFrame(s, p, {}) : t = Load(a.state, p, v, a.frame)
    BY DEF Pagein
  <1>2. /\ a.frame \in Frame /\ a.state \in Machine /\ Linked(a.state, L)
        /\ SetAside(a.state, a.frame)
        /\ OthersKept(s, a.state, a.frame) /\ SameView(s, a.state)
    BY TakeFrameLinked
  <1>3. \A u \in Page : ~s.pageTable[p][u].valid => ~a.state.pageTable[p][u].valid
    BY <1>2 DEF OthersKept
  <1>4. /\ t \in Machine /\ Linked(t, L) /\ FlagsOwned(t)
        /\ SameView(a.state, t)
        /\ \A q \in Process, u \in Page \ {v} :
              t.pageTable[q][u] = a.state.pageTable[q][u]
    BY <1>1, <1>2, <1>3, LoadLinked
  <1>5. QED
    BY <1>2, <1>3, <1>4 DEF SameView

\* release_page and release_frame drop the record of a sole owner unseen; when
\* the process is an owner, that is the same as taking it out.
LEMMA WithoutOwner ==
    ASSUME NEW S, NEW p \in S
    PROVE  Without(S, p) = S \ {p}
  BY DEF Without

\* Clearing cow for the sole owner of a frame changes nothing else.
LEMMA ClearCowEffect ==
    ASSUME NEW s \in Machine, NEW f \in Frame
    PROVE  LET t == ClearCow(s, f)
           IN  /\ t \in Machine
               /\ t.owners = s.owners /\ t.ownersPage = s.ownersPage
               /\ t.page_flags = s.page_flags /\ t.mainMemory = s.mainMemory
               /\ t.frame_flags = s.frame_flags /\ t.swapOwners = s.swapOwners
               /\ t.swapPage = s.swapPage /\ t.swapData = s.swapData
               /\ \A q \in Process, u \in Page :
                    LET a == s.pageTable[q][u]
                        b == t.pageTable[q][u]
                    IN  /\ b.valid = a.valid /\ b.physicalPage = a.physicalPage
                        /\ b.dirty = a.dirty /\ b.zero = a.zero
                        /\ b.File = a.File /\ b.offset = a.offset
                        /\ b = a \/ (s.owners[f] = {q} /\ s.ownersPage[f] = u)
  <1> DEFINE Own(te) == [te EXCEPT !.cow = FALSE]
             t == ClearCow(s, f)
  <1>1. CASE \E q \in s.owners[f] : s.owners[f] = {q}
    <2>1. t = [s EXCEPT !.pageTable = Rewrite(s, s.owners[f], s.ownersPage[f], Own)]
      BY <1>1 DEF ClearCow
    <2>2. \A te \in TranslationEntry :
            /\ Own(te) \in TranslationEntry
            /\ Own(te).valid = te.valid /\ Own(te).physicalPage = te.physicalPage
            /\ Own(te).dirty = te.dirty /\ Own(te).zero = te.zero
            /\ Own(te).File = te.File /\ Own(te).offset = te.offset
      BY DEF TranslationEntry
    <2> HIDE DEF Own
    <2>3. Rewrite(s, s.owners[f], s.ownersPage[f], Own)
            \in [Process -> [Page -> TranslationEntry]]
      BY <2>2 DEF Rewrite, Machine
    <2>4. t \in Machine
      BY <2>1, <2>3 DEF Machine
    <2>5. /\ t.owners = s.owners /\ t.ownersPage = s.ownersPage
          /\ t.page_flags = s.page_flags /\ t.mainMemory = s.mainMemory
          /\ t.frame_flags = s.frame_flags /\ t.swapOwners = s.swapOwners
          /\ t.swapPage = s.swapPage /\ t.swapData = s.swapData
          /\ t.pageTable = Rewrite(s, s.owners[f], s.ownersPage[f], Own)
      BY <2>1 DEF Machine
    <2> HIDE DEF t
    <2>6. ASSUME NEW q \in Process, NEW u \in Page
          PROVE  LET a == s.pageTable[q][u]
                     b == t.pageTable[q][u]
                 IN  /\ b.valid = a.valid /\ b.physicalPage = a.physicalPage
                     /\ b.dirty = a.dirty /\ b.zero = a.zero
                     /\ b.File = a.File /\ b.offset = a.offset
                     /\ b = a \/ (s.owners[f] = {q} /\ s.ownersPage[f] = u)
      <3>1. s.pageTable[q][u] \in TranslationEntry
        BY DEF Machine
      <3>2. t.pageTable[q][u] = IF q \in s.owners[f] /\ u = s.ownersPage[f]
                                THEN Own(s.pageTable[q][u]) ELSE s.pageTable[q][u]
        BY <2>5 DEF Rewrite
      <3> QED BY <1>1, <2>2, <3>1, <3>2
    <2> QED BY <2>4, <2>5, <2>6 DEF t
  <1>2. CASE ~(\E q \in s.owners[f] : s.owners[f] = {q})
    BY <1>2 DEF ClearCow
  <1>3. QED
    BY <1>1, <1>2

\* A store to a copy-on-write page: once duplicatePage has copied it to the
\* frame set aside and the store is done, the tables are consistent, the page
\* of p holds x and nothing else has changed for any process.
LEMMA DuplicateLinked ==
    ASSUME NEW s \in Machine, NEW L \in SUBSET Process, Linked(s, L),
           NEW g \in Frame, SetAside(s, g),
           NEW p \in L, NEW v \in Page, s.pageTable[p][v].valid,
           s.pageTable[p][v].physicalPage # g, NEW x \in Value
    PROVE  LET t == Store(DuplicateInto(s, p, v, g), p, v, x)
           IN  /\ t \in Machine /\ Linked(t, L) /\ FlagsOwned(t)
               /\ View(t, p, v) = x
               /\ \A q \in Process, u \in Page :
                     ~(q = p /\ u = v) => View(t, q, u) = View(s, q, u)
  <1> DEFINE local == s.pageTable[p][v]
             old   == local.physicalPage
             onSwap == local.File = SwapFile
             left  == Without(s.owners[old], p)
             swapLeft == Without(s.swapOwners[local.offset], p)
             Move(te) == [te EXCEPT !.cow = FALSE, !.valid = TRUE,
                                    !.physicalPage = g,
                                    !.File = IF onSwap THEN NoFile ELSE @]
             s1 == [s EXCEPT
                 !.owners = [@ EXCEPT ![g] = s.owners[g] \cup {p}, ![old] = left],
                 !.ownersPage[g] = v,
                 !.mainMemory[g] = s.mainMemory[old],
                 !.page_flags = IF left = {} THEN @ \ {old} ELSE @,
                 !.swapOwners = IF onSwap
                                THEN [@ EXCEPT ![local.offset] = swapLeft]
                                ELSE @,
                 !.frame_flags = IF onSwap /\ swapLeft = {}
                                 THEN @ \ {local.offset} ELSE @]
             s2 == ClearCow(s1, old)
             d  == DuplicateInto(s, p, v, g)
             t  == Store(d, p, v, x)
  <1>1. p \in Process /\ local \in TranslationEntry
    BY DEF Machine
  <1>2. old \in Frame \ {g} /\ local.offset \in SwapFrame
    BY <1>1 DEF TranslationEntry
  <1>3. p \in s.owners[old] /\ s.ownersPage[old] = v
    BY <1>1, <1>2 DEF Linked, OwnersMapped
  <1>4. left = s.owners[old] \ {p}
    BY <1>3, WithoutOwner
  <1>5. onSwap => p \in s.swapOwners[local.offset] /\ s.swapPage[local.offset] = v
    BY <1>1, <1>2 DEF Linked, SwapMapped
  <1>6. onSwap => swapLeft = s.swapOwners[local.offset] \ {p}
    BY <1>5, WithoutOwner
  <1>7. left \in SUBSET Process /\ (onSwap => swapLeft \in SUBSET Process)
    BY <1>2, <1>4, <1>6 DEF Machine
  <1>8. s1 \in Machine
    <2> HIDE DEF local, old, onSwap, left, swapLeft
    <2>1. [s.owners EXCEPT ![g] = s.owners[g] \cup {p}, ![old] = left] \in [Frame -> SUBSET Process]
      BY <1>1, <1>2, <1>7 DEF Machine
    <2>2. /\ [s.ownersPage EXCEPT ![g] = v] \in [Frame -> Page]
          /\ [s.mainMemory EXCEPT ![g] = s.mainMemory[old]]
                 \in [Frame -> Value \cup {Garbage}]
      BY <1>2 DEF Machine
    <2>3. (IF onSwap THEN [s.swapOwners EXCEPT ![local.offset] = swapLeft]
                     ELSE s.swapOwners) \in [SwapFrame -> SUBSET Process]
      BY <1>2, <1>7 DEF Machine
    <2>4. /\ (IF left = {} THEN s.page_flags \ {old} ELSE s.page_flags) \in SUBSET Frame
          /\ (IF onSwap /\ swapLeft = {} THEN s.frame_flags \ {local.offset}
                                         ELSE s.frame_flags) \in SUBSET SwapFrame
      BY DEF Machine
    <2> QED BY <2>1, <2>2, <2>3, <2>4 DEF Machine
  <1>9. /\ s1.pageTable = s.pageTable /\ s1.swapPage = s.swapPage
        /\ s1.swapData = s.swapData
    BY DEF Machine
  <1>10. /\ s1.owners[g] = {p} /\ s1.owners[old] = left
         /\ \A h \in Frame \ {g, old} : s1.owners[h] = s.owners[h]
    <2> HIDE DEF local, old, onSwap, left, swapLeft
    <2>1. s1.owners = [s.owners EXCEPT ![g] = s.owners[g] \cup {p}, ![old] = left]
      BY DEF Machine
    <2> HIDE DEF s1
    <2> QED BY <2>1, <1>2 DEF Machine, SetAside
  <1>11. /\ s1.ownersPage[g] = v
         /\ \A h \in Frame \ {g} : s1.ownersPage[h] = s.ownersPage[h]
         /\ \A h \in Frame \ {g} : s1.mainMemory[h] = s.mainMemory[h]
    <2>1. s1.ownersPage = [s.ownersPage EXCEPT ![g] = v]
      BY DEF Machine
    <2>2. s1.mainMemory = [s.mainMemory EXCEPT ![g] = s.mainMemory[old]]
      BY DEF Machine
    <2> HIDE DEF local, old, left, s1
    <2> QED BY <2>1, <2>2 DEF Machine
  <1>12. s1.page_flags = IF left = {} THEN s.page_flags \ {old} ELSE s.page_flags
    BY DEF Machine
  <1>13. /\ onSwap => /\ s1.swapOwners[local.offset] = swapLeft
                       /\ \A k \in SwapFrame \ {local.offset} :
                             s1.swapOwners[k] = s.swapOwners[k]
         /\ ~onSwap => s1.swapOwners = s.swapOwners
    <2>1. s1.swapOwners = IF onSwap
                          THEN [s.swapOwners EXCEPT ![local.offset] = swapLeft]
                          ELSE s.swapOwners
      BY DEF Machine
    <2> HIDE DEF local, onSwap, swapLeft, s1
    <2> QED BY <2>1, <1>2 DEF Machine
  <1>14. s1.frame_flags = IF onSwap /\ swapLeft = {}
                          THEN s.frame_flags \ {local.offset} ELSE s.frame_flags
    BY DEF Machine
  <1> HIDE DEF s1, left, swapLeft
  <1>15. /\ s2 \in Machine
         /\ s2.owners = s1.owners /\ s2.ownersPage = s1.ownersPage
         /\ s2.page_flags = s1.page_flags /\ s2.mainMemory = s1.mainMemory
         /\ s2.frame_flags = s1.frame_flags /\ s2.swapOwners = s1.swapOwners
         /\ s2.swapPage = s1.swapPage /\ s2.swapData = s1.swapData
    BY <1>2, <1>8, ClearCowEffect
  <1>16. \A q \in Process, u \in Page :
           LET a == s.pageTable[q][u]
               b == s2.pageTable[q][u]
           IN  /\ b.valid = a.valid /\ b.physicalPage = a.physicalPage
               /\ b.dirty = a.dirty /\ b.zero = a.zero
               /\ b.File = a.File /\ b.offset = a.offset
               /\ b = a \/ (left = {q} /\ u = v)
    <2>1. \A q \in Process, u \in Page :
            LET a == s1.pageTable[q][u]
                b == s2.pageTable[q][u]
            IN  /\ b.valid = a.valid /\ b.physicalPage = a.physicalPage
                /\ b.dirty = a.dirty /\ b.zero = a.zero
                /\ b.File = a.File /\ b.offset = a.offset
                /\ b = a \/ (s1.owners[old] = {q} /\ s1.ownersPage[old] = u)
      <3> HIDE DEF local, old, onSwap, d, t
      <3>1. old \in Frame
        BY <1>2
      <3> QED BY <3>1, <1>8, ClearCowEffect
    <2> HIDE DEF s2, old
    <2>2. s1.owners[old] = left /\ s1.ownersPage[old] = v
      BY <1>2, <1>3, <1>10, <1>11
    <2> QED BY <2>1, <2>2, <1>9
  <1>17. d = [s2 EXCEPT !.pageTable = Rewrite(s2, {p}, v, Move)]
    BY DEF DuplicateInto, add_frame_owner, s1, left, swapLeft
  <1> DEFINE Dirty(te) == [te EXCEPT !.dirty = TRUE]
  <1>18. t = [d EXCEPT !.pageTable = Rewrite(d, {p}, v, Dirty),
                       !.mainMemory[d.pageTable[p][v].physicalPage] = x]
    BY DEF Store
  <1> HIDE DEF s2, d, t
  <1>19. \A te \in TranslationEntry :
            /\ Move(te) \in TranslationEntry
            /\ Move(te).valid = TRUE /\ Move(te).cow = FALSE
            /\ Move(te).physicalPage = g
            /\ Move(te).File = (IF onSwap THEN NoFile ELSE te.File)
            /\ Move(te).zero = te.zero /\ Move(te).offset = te.offset
    BY DEF TranslationEntry, File
  <1>20. \A te \in TranslationEntry :
            /\ Dirty(te) \in TranslationEntry
            /\ Dirty(te).valid = te.valid /\ Dirty(te).cow = te.cow
            /\ Dirty(te).physicalPage = te.physicalPage
            /\ Dirty(te).File = te.File /\ Dirty(te).dirty = TRUE
            /\ Dirty(te).zero = te.zero /\ Dirty(te).offset = te.offset
    BY DEF TranslationEntry
  <1> HIDE DEF Move, Dirty
  <1>21. d \in Machine
    <2>1. Rewrite(s2, {p}, v, Move) \in [Process -> [Page -> TranslationEntry]]
      BY <1>15, <1>19 DEF Rewrite, Machine
    <2> QED BY <1>15, <1>17, <2>1 DEF Machine
  <1>22. /\ d.owners = s1.owners /\ d.ownersPage = s1.ownersPage
         /\ d.page_flags = s1.page_flags /\ d.mainMemory = s1.mainMemory
         /\ d.frame_flags = s1.frame_flags /\ d.swapOwners = s1.swapOwners
         /\ d.swapPage = s1.swapPage /\ d.swapData = s1.swapData
         /\ d.pageTable = Rewrite(s2, {p}, v, Move)
    BY <1>15, <1>17 DEF Machine
  <1>23. \A q \in Process, u \in Page :
            d.pageTable[q][u] = IF q = p /\ u = v THEN Move(s2.pageTable[q][u])
                                                 ELSE s2.pageTable[q][u]
    BY <1>22 DEF Rewrite
  <1>24. s2.pageTable[p][v] \in TranslationEntry /\ d.pageTable[p][v] \in TranslationEntry
    BY <1>1, <1>15, <1>21 DEF Machine
  <1>25. d.pageTable[p][v].physicalPage = g
    BY <1>1, <1>19, <1>23, <1>24
  <1>26. t \in Machine
    <2>1. Rewrite(d, {p}, v, Dirty) \in [Process -> [Page -> TranslationEntry]]
      BY <1>21, <1>20 DEF Rewrite, Machine
    <2> QED BY <1>18, <1>21, <1>25, <2>1 DEF Machine
  <1>27. /\ t.owners = s1.owners /\ t.ownersPage = s1.ownersPage
         /\ t.page_flags = s1.page_flags
         /\ t.frame_flags = s1.frame_flags /\ t.swapOwners = s1.swapOwners
         /\ t.swapPage = s.swapPage /\ t.swapData = s.swapData
         /\ t.pageTable = Rewrite(d, {p}, v, Dirty)
         /\ t.mainMemory = [s1.mainMemory EXCEPT ![g] = x]
    BY <1>9, <1>18, <1>21, <1>22, <1>25 DEF Machine
  <1>28. t.mainMemory[g] = x /\ \A h \in Frame \ {g} : t.mainMemory[h] = s.mainMemory[h]
    BY <1>8, <1>11, <1>27 DEF Machine
  <1>29. /\ t.pageTable[p][v].valid = TRUE /\ t.pageTable[p][v].cow = FALSE
         /\ t.pageTable[p][v].dirty = TRUE /\ t.pageTable[p][v].physicalPage = g
         /\ t.pageTable[p][v].zero = local.zero
         /\ t.pageTable[p][v].File = (IF onSwap THEN NoFile ELSE local.File)
         /\ t.pageTable[p][v].offset = local.offset
    <2>1. t.pageTable[p][v] = Dirty(d.pageTable[p][v])
      BY <1>1, <1>27 DEF Rewrite
    <2>2. d.pageTable[p][v] = Move(s2.pageTable[p][v])
      BY <1>1, <1>23
    <2>3. /\ s2.pageTable[p][v].zero = local.zero
          /\ s2.pageTable[p][v].File = local.File
          /\ s2.pageTable[p][v].offset = local.offset
      BY <1>1, <1>16
    <2> HIDE DEF local, onSwap
    <2> QED BY <2>1, <2>2, <2>3, <1>19, <1>20, <1>24
  <1>30. \A q \in Process, u \in Page : ~(q = p /\ u = v) =>
           LET a == s.pageTable[q][u]
               b == t.pageTable[q][u]
           IN  /\ b.valid = a.valid /\ b.physicalPage = a.physicalPage
               /\ b.dirty = a.dirty /\ b.zero = a.zero
               /\ b.File = a.File /\ b.offset = a.offset
               /\ b = a \/ (left = {q} /\ u = v)
    <2>1. \A q \in Process, u \in Page : ~(q = p /\ u = v) =>
            t.pageTable[q][u] = s2.pageTable[q][u]
      BY <1>23, <1>27 DEF Rewrite
    <2> QED BY <2>1, <1>16
  <1>31. /\ local.physicalPage = old /\ local = s.pageTable[p][v]
         /\ onSwap <=> local.File = SwapFile
    OBVIOUS
  <1>32. /\ t.owners[g] = {p} /\ t.owners[old] = left
         /\ \A h \in Frame \ {g, old} : t.owners[h] = s.owners[h]
         /\ t.ownersPage[g] = v
         /\ \A h \in Frame \ {g} : t.ownersPage[h] = s.ownersPage[h]
    BY <1>10, <1>11, <1>27
  <1>33. \A q \in Process, u \in Page : s.pageTable[q][u].valid =>
            s.pageTable[q][u].physicalPage \in Frame \ {g}
    BY DEF Linked, OwnersMapped, SetAside, Machine, TranslationEntry
  <1>34. \A q \in Process, u \in Page :
            (q \in left /\ u = v) <=> (/\ ~(q = p /\ u = v) /\ s.pageTable[q][u].valid
                                      /\ s.pageTable[q][u].physicalPage = old)
    BY <1>2, <1>3, <1>4 DEF Linked, OwnersMapped
  <1> HIDE DEF local, old, onSwap
  <1>35. OwnersMapped(t)
    <2> SUFFICES ASSUME NEW h \in Frame, NEW q \in Process, NEW u \in Page
                 PROVE  (q \in t.owners[h] /\ t.ownersPage[h] = u)
                        <=> (t.pageTable[q][u].valid /\ t.pageTable[q][u].physicalPage = h)
      BY DEF OwnersMapped
    <2>1. (q \in s.owners[h] /\ s.ownersPage[h] = u)
           <=> (s.pageTable[q][u].valid /\ s.pageTable[q][u].physicalPage = h)
      BY DEF Linked, OwnersMapped
    <2>2. CASE q = p /\ u = v
      <3>1. t.pageTable[q][u].valid /\ t.pageTable[q][u].physicalPage = g
        BY <2>2, <1>29
      <3>2. h # g => ~(p \in t.owners[h] /\ t.ownersPage[h] = v)
        BY <2>1, <2>2, <1>4, <1>31, <1>32
      <3> QED BY <2>2, <3>1, <3>2, <1>32
    <2>3. CASE ~(q = p /\ u = v)
      <3>1. /\ t.pageTable[q][u].valid = s.pageTable[q][u].valid
            /\ t.pageTable[q][u].physicalPage = s.pageTable[q][u].physicalPage
        BY <2>3, <1>30
      <3>2. CASE h = g
        BY <2>3, <3>1, <3>2, <1>32, <1>33
      <3>3. CASE h = old
        BY <1>2, <1>3, <2>3, <3>1, <3>3, <1>32, <1>34
      <3>4. CASE h \notin {g, old}
        BY <2>1, <3>1, <3>4, <1>32
      <3> QED BY <3>2, <3>3, <3>4
    <2> QED BY <2>2, <2>3
  \* Apart from p at page v, sharers of a frame or a slot are those of s.
  <1>36. ASSUME NEW q \in Process, NEW r \in Process, NEW u \in Page, q # r,
                t.pageTable[q][u].valid, t.pageTable[r][u].valid,
                t.pageTable[q][u].physicalPage = t.pageTable[r][u].physicalPage
         PROVE  ~(q = p /\ u = v) /\ ~(r = p /\ u = v)
    <2>1. \A w \in Process : t.pageTable[w][u].valid =>
             ((w = p /\ u = v) <=> t.pageTable[w][u].physicalPage = g)
      <3> SUFFICES ASSUME NEW w \in Process, t.pageTable[w][u].valid
                   PROVE  (w = p /\ u = v) <=> t.pageTable[w][u].physicalPage = g
        OBVIOUS
      <3>1. CASE w = p /\ u = v
        BY <3>1, <1>29
      <3>2. CASE ~(w = p /\ u = v)
        BY <3>2, <1>30, <1>33
      <3> QED BY <3>1, <3>2
    <2> QED BY <2>1, <1>36
  \* The entry whose cow is cleared shares its frame with nobody.
  <1>37. ASSUME NEW q \in Process, NEW r \in Process, NEW u \in Page, q # r,
                ~(q = p /\ u = v), ~(r = p /\ u = v),
                s.pageTable[q][u].valid, s.pageTable[r][u].valid,
                s.pageTable[q][u].physicalPage = s.pageTable[r][u].physicalPage
         PROVE  t.pageTable[q][u] = s.pageTable[q][u]
    <2> SUFFICES ASSUME left = {q}, u = v
                 PROVE  FALSE
      BY <1>30, <1>37
    <2>1. s.pageTable[q][u].physicalPage = old
      BY <1>34
    <2>2. r \in left
      BY <2>1, <1>34, <1>37
    <2> QED BY <2>2, <1>37
  <1>38. OwnersAgree(t)
    <2> SUFFICES ASSUME NEW q \in Process, NEW r \in Process, NEW u \in Page, q # r,
                        t.pageTable[q][u].valid, t.pageTable[r][u].valid,
                        t.pageTable[q][u].physicalPage = t.pageTable[r][u].physicalPage
                 PROVE  LET a == t.pageTable[q][u]
                            b == t.pageTable[r][u]
                        IN /\ a.dirty = b.dirty /\ a.zero = b.zero /\ a.File = b.File
                           /\ a.File = SwapFile => a.offset = b.offset
      BY DEF OwnersAgree
    <2>1. ~(q = p /\ u = v) /\ ~(r = p /\ u = v)
      BY <1>36
    <2>2. OwnersAgree(s)
      BY DEF Linked
    <2>3. s.pageTable[q][u].valid /\ s.pageTable[r][u].valid
          /\ s.pageTable[q][u].physicalPage = s.pageTable[r][u].physicalPage
      BY <2>1, <1>30
    <2>4. /\ s.pageTable[q][u].dirty = s.pageTable[r][u].dirty
          /\ s.pageTable[q][u].zero = s.pageTable[r][u].zero
          /\ s.pageTable[q][u].File = s.pageTable[r][u].File
          /\ s.pageTable[q][u].File = SwapFile =>
                s.pageTable[q][u].offset = s.pageTable[r][u].offset
      BY <2>2, <2>3 DEF OwnersAgree
    <2> QED BY <2>1, <2>4, <1>30
  <1>39. OwnersCow(t)
    <2> SUFFICES ASSUME NEW q \in Process, NEW r \in Process, NEW u \in Page, q # r,
                        t.pageTable[q][u].valid, t.pageTable[r][u].valid,
                        t.pageTable[q][u].physicalPage = t.pageTable[r][u].physicalPage
                 PROVE  t.pageTable[q][u].cow
      BY DEF OwnersCow
    <2>1. ~(q = p /\ u = v) /\ ~(r = p /\ u = v)
      BY <1>36
    <2>3. s.pageTable[q][u].valid /\ s.pageTable[r][u].valid
          /\ s.pageTable[q][u].physicalPage = s.pageTable[r][u].physicalPage
      BY <2>1, <1>30
    <2>4. t.pageTable[q][u] = s.pageTable[q][u]
      BY <2>1, <2>3, <1>37
    <2> QED BY <2>3, <2>4 DEF Linked, OwnersCow
  <1>40. t.pageTable[p][v].File # SwapFile
    BY <1>29, <1>31, FileAssumption
  <1>41. SwapMapped(t)
    <2> SUFFICES ASSUME NEW k \in SwapFrame, NEW q \in Process, NEW u \in Page
                 PROVE  (q \in t.swapOwners[k] /\ t.swapPage[k] = u)
                        <=> (t.pageTable[q][u].File = SwapFile
                             /\ t.pageTable[q][u].offset = k)
      BY DEF SwapMapped
    <2>1. (q \in s.swapOwners[k] /\ s.swapPage[k] = u)
           <=> (s.pageTable[q][u].File = SwapFile /\ s.pageTable[q][u].offset = k)
      BY DEF Linked, SwapMapped
    <2>2. t.swapOwners = s1.swapOwners /\ t.swapPage = s.swapPage
      BY <1>27
    <2>3. CASE q = p /\ u = v
      <3>1. ~(t.pageTable[q][u].File = SwapFile)
        BY <2>3, <1>40
      <3>2. CASE onSwap /\ k = local.offset
        BY <2>2, <2>3, <3>1, <3>2, <1>6, <1>13
      <3>3. CASE ~(onSwap /\ k = local.offset)
        <4>1. s1.swapOwners[k] = s.swapOwners[k]
          BY <3>3, <1>13
        <4>2. ~(q \in s.swapOwners[k] /\ s.swapPage[k] = u)
          BY <2>1, <2>3, <3>3, <1>31
        <4> QED BY <2>2, <3>1, <4>1, <4>2
      <3> QED BY <3>2, <3>3
    <2>4. CASE ~(q = p /\ u = v)
      <3>1. /\ t.pageTable[q][u].File = s.pageTable[q][u].File
            /\ t.pageTable[q][u].offset = s.pageTable[q][u].offset
        BY <2>4, <1>30
      <3>2. CASE onSwap /\ k = local.offset
        BY <2>1, <2>2, <2>4, <3>1, <3>2, <1>5, <1>6, <1>13
      <3>3. CASE ~(onSwap /\ k = local.offset)
        <4>1. s1.swapOwners[k] = s.swapOwners[k]
          BY <3>3, <1>13
        <4> QED BY <2>1, <2>2, <3>1, <4>1
      <3> QED BY <3>2, <3>3
    <2> QED BY <2>3, <2>4
  <1>42. SwapFlags(t)
    <2> SUFFICES ASSUME NEW k \in SwapFrame
                 PROVE  k \in t.frame_flags <=> t.swapOwners[k] # {}
      BY DEF SwapFlags
    <2>1. k \in s.frame_flags <=> s.swapOwners[k] # {}
      BY DEF Linked, SwapFlags
    <2>2. CASE onSwap /\ k = local.offset
      BY <2>1, <2>2, <1>5, <1>13, <1>14, <1>27
    <2>3. CASE ~(onSwap /\ k = local.offset)
      BY <2>1, <2>3, <1>13, <1>14, <1>27
    <2> QED BY <2>2, <2>3
  <1>43. SwapShared(t)
    <2> SUFFICES ASSUME NEW q \in Process, NEW r \in Process, NEW u \in Page, q # r,
                        t.pageTable[q][u].File = SwapFile,
                        t.pageTable[r][u].File = SwapFile,
                        t.pageTable[q][u].offset = t.pageTable[r][u].offset
                 PROVE  LET a == t.pageTable[q][u]
                            b == t.pageTable[r][u]
                        IN  /\ a.cow
                            /\ a.valid = b.valid
                            /\ a.valid => a.physicalPage = b.physicalPage
      BY DEF SwapShared
    <2>1. ~(q = p /\ u = v) /\ ~(r = p /\ u = v)
      BY <1>40
    <2>2. /\ s.pageTable[q][u].File = SwapFile /\ s.pageTable[r][u].File = SwapFile
          /\ s.pageTable[q][u].offset = s.pageTable[r][u].offset
      BY <2>1, <1>30
    <2>3. /\ s.pageTable[q][u].cow
          /\ s.pageTable[q][u].valid = s.pageTable[r][u].valid
          /\ s.pageTable[q][u].valid =>
                s.pageTable[q][u].physicalPage = s.pageTable[r][u].physicalPage
      BY <2>2 DEF Linked, SwapShared
    <2>4. CASE s.pageTable[q][u].valid
      <3>1. t.pageTable[q][u] = s.pageTable[q][u]
        BY <2>1, <2>3, <2>4, <1>37
      <3> QED BY <2>1, <2>3, <3>1, <1>30
    <2>5. CASE ~s.pageTable[q][u].valid
      <3>1. t.pageTable[q][u] = s.pageTable[q][u]
        BY <2>1, <2>5, <1>30, <1>34
      <3> QED BY <2>1, <2>3, <2>5, <3>1, <1>30
    <2> QED BY <2>4, <2>5
  <1>44. ASSUME NEW q \in Process, NEW u \in Page, ~(q = p /\ u = v)
         PROVE  /\ Backing(t, t.pageTable[q][u], u) = Backing(s, s.pageTable[q][u], u)
                /\ t.pageTable[q][u].valid =>
                      t.mainMemory[t.pageTable[q][u].physicalPage]
                        = s.mainMemory[s.pageTable[q][u].physicalPage]
                /\ View(t, q, u) = View(s, q, u)
    <2> DEFINE a == s.pageTable[q][u]
               b == t.pageTable[q][u]
    <2>1. /\ b.File = a.File /\ b.offset = a.offset /\ b.zero = a.zero
          /\ b.valid = a.valid /\ b.physicalPage = a.physicalPage
      BY <1>30, <1>44
    <2>2. b.valid => t.mainMemory[b.physicalPage] = s.mainMemory[a.physicalPage]
      BY <2>1, <1>28, <1>33
    <2>3. t.swapData = s.swapData
      BY <1>27
    <2> HIDE DEF a, b
    <2>4. Backing(t, b, u) = Backing(s, a, u)
      BY <2>1, <2>3, BackingSame
    <2> QED BY <2>1, <2>2, <2>4 DEF a, b, View
  <1>45. CleanIsBacked(t)
    <2> SUFFICES ASSUME NEW q \in Process, NEW u \in Page,
                        t.pageTable[q][u].valid, ~t.pageTable[q][u].dirty
                 PROVE  t.mainMemory[t.pageTable[q][u].physicalPage]
                          = Backing(t, t.pageTable[q][u], u)
      BY DEF CleanIsBacked
    <2>1. ~(q = p /\ u = v)
      BY <1>29
    <2>2. s.pageTable[q][u].valid /\ ~s.pageTable[q][u].dirty
      BY <2>1, <1>30
    <2>3. s.mainMemory[s.pageTable[q][u].physicalPage] = Backing(s, s.pageTable[q][u], u)
      BY <2>2 DEF Linked, CleanIsBacked
    <2> QED BY <2>1, <2>3, <1>44
  <1>46. OneSource(t)
    <2>1. t.pageTable[p][v].zero => t.pageTable[p][v].File = NoFile
      BY <1>1, <1>29, <1>31 DEF Linked, OneSource
    <2> QED BY <2>1, <1>30 DEF Linked, OneSource
  <1>47. Sourced(t, L)
    <2> SUFFICES ASSUME NEW q \in L, NEW u \in Page,
                        ~t.pageTable[q][u].zero, t.pageTable[q][u].File = NoFile
                 PROVE  t.pageTable[q][u].valid /\ t.pageTable[q][u].dirty
      BY DEF Sourced
    <2>1. CASE q = p /\ u = v
      BY <2>1, <1>29
    <2>2. CASE ~(q = p /\ u = v)
      <3>1. s.pageTable[q][u].valid /\ s.pageTable[q][u].dirty
        BY <2>2, <1>30 DEF Linked, Sourced
      <3> QED BY <2>2, <3>1, <1>30
    <2> QED BY <2>1, <2>2
  <1>48. Unused(t, L)
    <2> SUFFICES ASSUME NEW q \in Process \ L, NEW u \in Page
                 PROVE  t.pageTable[q][u] = BlankEntry
      BY DEF Unused
    <2>1. s.pageTable[q][u] = BlankEntry
      BY DEF Linked, Unused
    <2>2. ~s.pageTable[q][u].valid
      BY <2>1 DEF BlankEntry
    <2> QED BY <2>1, <2>2, <1>30, <1>34
  <1>49. FlagsOwned(t)
    <2> SUFFICES ASSUME NEW h \in Frame
                 PROVE  h \in t.page_flags <=> t.owners[h] # {}
      BY DEF FlagsOwned
    <2>1. t.page_flags = IF left = {} THEN s.page_flags \ {old} ELSE s.page_flags
      BY <1>12, <1>27
    <2> QED BY <2>1, <1>2, <1>3, <1>32 DEF SetAside
  <1>50. View(t, p, v) = x
    BY <1>28, <1>29 DEF View
  <1>51. QED
    BY <1>26, <1>35, <1>38, <1>39, <1>41, <1>42, <1>43, <1>44, <1>45, <1>46,
       <1>47, <1>48, <1>49, <1>50 DEF Linked, t, d

\* A store to a page that is not copy-on-write: p is the frame's sole owner.
LEMMA StoreLinked ==
    ASSUME NEW s \in Machine, NEW L \in SUBSET Process, Linked(s, L), FlagsOwned(s),
           NEW p \in L, NEW v \in Page, s.pageTable[p][v].valid,
           ~s.pageTable[p][v].cow, NEW x \in Value
    PROVE  LET t == Store(s, p, v, x)
           IN  /\ t \in Machine /\ Linked(t, L) /\ FlagsOwned(t)
               /\ View(t, p, v) = x
               /\ \A q \in Process, u \in Page :
                     ~(q = p /\ u = v) => View(t, q, u) = View(s, q, u)
  <1> DEFINE Dirty(te) == [te EXCEPT !.dirty = TRUE]
             f == s.pageTable[p][v].physicalPage
             t == Store(s, p, v, x)
  <1>1. p \in Process /\ s.pageTable[p][v] \in TranslationEntry /\ f \in Frame
    BY DEF Machine, TranslationEntry
  <1>2. t = [s EXCEPT !.pageTable = Rewrite(s, {p}, v, Dirty), !.mainMemory[f] = x]
    BY DEF Store
  <1>3. \A te \in TranslationEntry :
            /\ Dirty(te) \in TranslationEntry
            /\ Dirty(te).valid = te.valid /\ Dirty(te).cow = te.cow
            /\ Dirty(te).physicalPage = te.physicalPage
            /\ Dirty(te).File = te.File /\ Dirty(te).dirty = TRUE
            /\ Dirty(te).zero = te.zero /\ Dirty(te).offset = te.offset
    BY DEF TranslationEntry
  <1> HIDE DEF Dirty, t
  <1>4. Rewrite(s, {p}, v, Dirty) \in [Process -> [Page -> TranslationEntry]]
    BY <1>3 DEF Rewrite, Machine
  <1>5. t \in Machine
    BY <1>1, <1>2, <1>4 DEF Machine
  <1>6. /\ t.owners = s.owners /\ t.ownersPage = s.ownersPage
        /\ t.page_flags = s.page_flags
        /\ t.frame_flags = s.frame_flags /\ t.swapOwners = s.swapOwners
        /\ t.swapPage = s.swapPage /\ t.swapData = s.swapData
        /\ t.pageTable = Rewrite(s, {p}, v, Dirty)
        /\ t.mainMemory = [s.mainMemory EXCEPT ![f] = x]
    BY <1>2 DEF Machine
  <1>7. t.mainMemory[f] = x /\ \A h \in Frame \ {f} : t.mainMemory[h] = s.mainMemory[h]
    BY <1>1, <1>6 DEF Machine
  <1>8. /\ \A q \in Process, u \in Page :
             LET a == s.pageTable[q][u]
                 b == t.pageTable[q][u]
             IN  /\ b.valid = a.valid /\ b.physicalPage = a.physicalPage
                 /\ b.zero = a.zero /\ b.cow = a.cow
                 /\ b.File = a.File /\ b.offset = a.offset
                 /\ b = a \/ (q = p /\ u = v)
        /\ t.pageTable[p][v].dirty = TRUE
    <2>1. \A q \in Process, u \in Page :
            /\ s.pageTable[q][u] \in TranslationEntry
            /\ t.pageTable[q][u] = IF q = p /\ u = v THEN Dirty(s.pageTable[q][u])
                                                     ELSE s.pageTable[q][u]
      BY <1>6 DEF Rewrite, Machine
    <2> QED BY <1>1, <1>3, <2>1
  \* No other entry maps the frame.
  <1>9. ASSUME NEW q \in Process, NEW u \in Page, s.pageTable[q][u].valid,
               ~(q = p /\ u = v)
        PROVE  s.pageTable[q][u].physicalPage \in Frame \ {f}
    <2>0. s.pageTable[q][u].physicalPage \in Frame
      BY DEF Machine, TranslationEntry
    <2> SUFFICES ASSUME s.pageTable[q][u].physicalPage = f
                 PROVE  FALSE
      BY <2>0
    <2>1. OwnersMapped(s) /\ OwnersCow(s)
      BY DEF Linked
    <2>2. s.ownersPage[f] = u /\ s.ownersPage[f] = v
      BY <1>1, <1>9, <2>1 DEF OwnersMapped
    <2>3. q # p
      BY <1>9, <2>2
    <2> QED BY <1>1, <1>9, <2>1, <2>2, <2>3 DEF OwnersCow
  <1> HIDE DEF f
  <1>10. OwnersMapped(t) /\ OwnersCow(t)
    <2>1. OwnersMapped(t)
      <3>1. OwnersMapped(s)
        BY DEF Linked
      <3> SUFFICES ASSUME NEW g \in Frame, NEW q \in Process, NEW u \in Page
                   PROVE  (q \in t.owners[g] /\ t.ownersPage[g] = u)
                          <=> (t.pageTable[q][u].valid /\ t.pageTable[q][u].physicalPage = g)
        BY DEF OwnersMapped
      <3>2. /\ t.pageTable[q][u].valid = s.pageTable[q][u].valid
            /\ t.pageTable[q][u].physicalPage = s.pageTable[q][u].physicalPage
        BY <1>8
      <3> QED BY <3>1, <3>2, <1>6 DEF OwnersMapped
    <2>2. OwnersCow(t)
      <3>1. OwnersCow(s)
        BY DEF Linked
      <3> QED BY <3>1, <1>8 DEF OwnersCow
    <2> QED BY <2>1, <2>2
  <1>11. SwapMapped(t) /\ SwapFlags(t) /\ SwapShared(t)
    <2>1. SwapMapped(t) /\ SwapFlags(t)
      <3>1. SwapMapped(s) /\ SwapFlags(s)
        BY DEF Linked
      <3>2. SwapFlags(t)
        BY <3>1, <1>6 DEF SwapFlags
      <3> SUFFICES ASSUME NEW k \in SwapFrame, NEW q \in Process, NEW u \in Page
                   PROVE  (q \in t.swapOwners[k] /\ t.swapPage[k] = u)
                          <=> (t.pageTable[q][u].File = SwapFile
                               /\ t.pageTable[q][u].offset = k)
        BY <3>2 DEF SwapMapped
      <3>3. /\ t.pageTable[q][u].File = s.pageTable[q][u].File
            /\ t.pageTable[q][u].offset = s.pageTable[q][u].offset
        BY <1>8
      <3> QED BY <3>1, <3>3, <1>6 DEF SwapMapped
    <2>2. SwapShared(t)
      <3>1. SwapShared(s)
        BY DEF Linked
      <3> QED BY <3>1, <1>8 DEF SwapShared
    <2> QED BY <2>1, <2>2
  <1>12. OwnersAgree(t)
    <2> SUFFICES ASSUME NEW q \in Process, NEW r \in Process, NEW u \in Page, q # r,
                        t.pageTable[q][u].valid, t.pageTable[r][u].valid,
                        t.pageTable[q][u].physicalPage = t.pageTable[r][u].physicalPage
                 PROVE  LET a == t.pageTable[q][u]
                            b == t.pageTable[r][u]
                        IN /\ a.dirty = b.dirty /\ a.zero = b.zero /\ a.File = b.File
                           /\ a.File = SwapFile => a.offset = b.offset
      BY DEF OwnersAgree
    <2>1. /\ s.pageTable[q][u].valid /\ s.pageTable[r][u].valid
          /\ s.pageTable[q][u].physicalPage = s.pageTable[r][u].physicalPage
      BY <1>8
    <2>2. ~(q = p /\ u = v) /\ ~(r = p /\ u = v)
      BY <2>1, <1>9 DEF f
    <2>3. t.pageTable[q][u] = s.pageTable[q][u] /\ t.pageTable[r][u] = s.pageTable[r][u]
      BY <2>2, <1>8
    <2>4. OwnersAgree(s)
      BY DEF Linked
    <2> QED BY <2>1, <2>3, <2>4 DEF OwnersAgree
  <1>13. ASSUME NEW q \in Process, NEW u \in Page, ~(q = p /\ u = v)
         PROVE  /\ Backing(t, t.pageTable[q][u], u) = Backing(s, s.pageTable[q][u], u)
                /\ t.pageTable[q][u].valid =>
                      t.mainMemory[t.pageTable[q][u].physicalPage]
                        = s.mainMemory[s.pageTable[q][u].physicalPage]
                /\ View(t, q, u) = View(s, q, u)
    <2>1. t.pageTable[q][u] = s.pageTable[q][u]
      BY <1>8, <1>13
    <2>2. t.pageTable[q][u].valid => t.mainMemory[t.pageTable[q][u].physicalPage]
                        = s.mainMemory[s.pageTable[q][u].physicalPage]
      BY <2>1, <1>7, <1>9, <1>13
    <2>3. Backing(t, s.pageTable[q][u], u) = Backing(s, s.pageTable[q][u], u)
      BY <1>6 DEF Backing
    <2> QED BY <2>1, <2>2, <2>3 DEF View
  <1>14. CleanIsBacked(t)
    <2> SUFFICES ASSUME NEW q \in Process, NEW u \in Page,
                        t.pageTable[q][u].valid, ~t.pageTable[q][u].dirty
                 PROVE  t.mainMemory[t.pageTable[q][u].physicalPage]
                          = Backing(t, t.pageTable[q][u], u)
      BY DEF CleanIsBacked
    <2>1. ~(q = p /\ u = v)
      BY <1>8
    <2>2. t.pageTable[q][u] = s.pageTable[q][u]
      BY <2>1, <1>8
    <2>3. s.mainMemory[s.pageTable[q][u].physicalPage] = Backing(s, s.pageTable[q][u], u)
      BY <2>2 DEF Linked, CleanIsBacked
    <2> QED BY <2>1, <2>3, <1>13
  <1>15. OneSource(t)
    BY <1>8 DEF Linked, OneSource
  <1>16. Sourced(t, L)
    <2> SUFFICES ASSUME NEW q \in L, NEW u \in Page,
                        ~t.pageTable[q][u].zero, t.pageTable[q][u].File = NoFile
                 PROVE  t.pageTable[q][u].valid /\ t.pageTable[q][u].dirty
      BY DEF Sourced
    <2>1. s.pageTable[q][u].valid /\ s.pageTable[q][u].dirty
      BY <1>8 DEF Linked, Sourced
    <2> QED BY <2>1, <1>8
  <1>17. Unused(t, L)
    BY <1>8 DEF Linked, Unused
  <1>18. FlagsOwned(t)
    BY <1>6 DEF FlagsOwned
  <1>19. View(t, p, v) = x
    BY <1>1, <1>7, <1>8 DEF View, f
  <1>20. QED
    BY <1>5, <1>10, <1>11, <1>12, <1>13, <1>14, <1>15, <1>16, <1>17, <1>18,
       <1>19 DEF Linked, t

\* A process that does not exist owns nothing.
LEMMA UnusedOwnsNothing ==
    ASSUME NEW s \in Machine, NEW L \in SUBSET Process, Linked(s, L), NEW c \in Process \ L
    PROVE  /\ \A f \in Frame : c \notin s.owners[f]
           /\ \A k \in SwapFrame : c \notin s.swapOwners[k]
  <1>1. \A u \in Page : ~s.pageTable[c][u].valid /\ s.pageTable[c][u].File = NoFile
    BY DEF Linked, Unused, BlankEntry
  <1>2. ASSUME NEW f \in Frame, c \in s.owners[f]
        PROVE  FALSE
    <2>1. s.ownersPage[f] \in Page
      BY DEF Machine
    <2> QED BY <1>1, <1>2, <2>1 DEF Linked, OwnersMapped
  <1>3. ASSUME NEW k \in SwapFrame, c \in s.swapOwners[k]
        PROVE  FALSE
    <2>1. s.swapPage[k] \in Page
      BY DEF Machine
    <2> QED BY <1>1, <1>3, <2>1, FileAssumption DEF Linked, SwapMapped
  <1>4. QED
    BY <1>2, <1>3

\* What a process that does not exist would see.
LEMMA BlankBacking ==
    ASSUME NEW s, NEW v
    PROVE  Backing(s, BlankEntry, v) = Garbage
  <1>1. BlankEntry.zero = FALSE /\ BlankEntry.File = NoFile
    BY DEF BlankEntry
  <1>2. QED
    BY <1>1, FileAssumption DEF Backing

\* Fork: in the new state the child c is to every table what its parent p is,
\* and sees the memory its parent sees.
LEMMA CopyFromLinked ==
    ASSUME NEW s \in Machine, NEW L \in SUBSET Process, Linked(s, L), FlagsOwned(s),
           NEW p \in L, NEW c \in Process \ L
    PROVE  LET t == CopyFrom(s, p, c)
           IN  /\ t \in Machine /\ Linked(t, L \cup {c}) /\ FlagsOwned(t)
               /\ \A q \in Process, u \in Page :
                     View(t, q, u) = View(s, IF q = c THEN p ELSE q, u)
  <1> DEFINE table == [v \in Page |-> Shared(s.pageTable[p][v])]
             t == CopyFrom(s, p, c)
             src(q) == IF q = c THEN p ELSE q
  <1>1. p \in Process /\ c \in Process /\ p # c
    OBVIOUS
  <1>2. \A te \in TranslationEntry :
           /\ Shared(te) \in TranslationEntry
           /\ Shared(te).valid = te.valid /\ Shared(te).physicalPage = te.physicalPage
           /\ Shared(te).dirty = te.dirty /\ Shared(te).zero = te.zero
           /\ Shared(te).File = te.File /\ Shared(te).offset = te.offset
           /\ te.cow \/ te.valid \/ te.File = SwapFile => Shared(te).cow
    BY DEF TranslationEntry, Shared
  <1>3. \A v \in Page : s.pageTable[p][v] \in TranslationEntry
    BY <1>1 DEF Machine
  <1>4. table \in [Page -> TranslationEntry]
    BY <1>2, <1>3
  <1>5. \A v \in Page : table[v] = Shared(s.pageTable[p][v])
    OBVIOUS
  <1> DEFINE F == [f \in Frame |->
               IF \E v \in Page : table[v].valid /\ table[v].physicalPage = f
               THEN s.owners[f] \cup {c} ELSE s.owners[f]]
             K == [k \in SwapFrame |->
               IF \E v \in Page : table[v].File = SwapFile /\ table[v].offset = k
               THEN s.swapOwners[k] \cup {c} ELSE s.swapOwners[k]]
  <1>6. t = [s EXCEPT !.pageTable = [@ EXCEPT ![p] = table, ![c] = table],
                      !.owners = F, !.swapOwners = K, !.wSetSize[c] = DefaultWss]
    BY DEF CopyFrom, add_frame_owner
  <1> HIDE DEF table, t
  <1>7. F \in [Frame -> SUBSET Process] /\ K \in [SwapFrame -> SUBSET Process]
    BY <1>1 DEF Machine
  <1>8. \A f \in Frame, q \in Process : q \in F[f] <=> src(q) \in s.owners[f]
    <2> SUFFICES ASSUME NEW f \in Frame
                 PROVE  \A q \in Process : q \in F[f] <=> src(q) \in s.owners[f]
      OBVIOUS
    <2>1. (\E v \in Page : table[v].valid /\ table[v].physicalPage = f)
            <=> p \in s.owners[f]
      <3>1. s.ownersPage[f] \in Page
        BY DEF Machine
      <3> QED BY <3>1, <1>1, <1>2, <1>3, <1>5 DEF Linked, OwnersMapped
    <2>2. c \notin s.owners[f]
      BY UnusedOwnsNothing
    <2> QED BY <2>1, <2>2
  <1>9. \A k \in SwapFrame, q \in Process : q \in K[k] <=> src(q) \in s.swapOwners[k]
    <2> SUFFICES ASSUME NEW k \in SwapFrame
                 PROVE  \A q \in Process : q \in K[k] <=> src(q) \in s.swapOwners[k]
      OBVIOUS
    <2>1. (\E v \in Page : table[v].File = SwapFile /\ table[v].offset = k)
            <=> p \in s.swapOwners[k]
      <3>1. s.swapPage[k] \in Page
        BY DEF Machine
      <3> QED BY <3>1, <1>1, <1>2, <1>3, <1>5 DEF Linked, SwapMapped
    <2>2. c \notin s.swapOwners[k]
      BY UnusedOwnsNothing
    <2> QED BY <2>1, <2>2
  <1> HIDE DEF F, K
  <1>10. t \in Machine
    <2>1. [s.pageTable EXCEPT ![p] = table, ![c] = table]
            \in [Process -> [Page -> TranslationEntry]]
      BY <1>4 DEF Machine
    <2>2. [s.wSetSize EXCEPT ![c] = DefaultWss] \in [Process -> Nat]
      BY PolicyAssumption DEF Machine
    <2> QED BY <1>6, <1>7, <2>1, <2>2 DEF Machine
  <1>11. /\ t.pageTable = [s.pageTable EXCEPT ![p] = table, ![c] = table]
         /\ t.owners = F /\ t.ownersPage = s.ownersPage /\ t.page_flags = s.page_flags
         /\ t.mainMemory = s.mainMemory /\ t.frame_flags = s.frame_flags
         /\ t.swapOwners = K /\ t.swapPage = s.swapPage /\ t.swapData = s.swapData
    BY <1>6 DEF Machine
  <1>12. \A q \in Process, u \in Page :
           LET a == s.pageTable[src(q)][u]
               b == t.pageTable[q][u]
           IN  /\ b.valid = a.valid /\ b.physicalPage = a.physicalPage
               /\ b.dirty = a.dirty /\ b.zero = a.zero
               /\ b.File = a.File /\ b.offset = a.offset
               /\ a.cow => b.cow
               /\ q \in {p, c} /\ (a.valid \/ a.File = SwapFile) => b.cow
               /\ q \notin {p, c} => b = s.pageTable[q][u]
    <2>1. /\ t.pageTable[p] = table /\ t.pageTable[c] = table
          /\ \A q \in Process \ {p, c} : t.pageTable[q] = s.pageTable[q]
      BY <1>1, <1>11 DEF Machine
    <2> QED BY <2>1, <1>1, <1>2, <1>3, <1>5
  <1>13. \A q \in Process : src(q) \in Process /\ (src(q) = q \/ (q = c /\ src(q) = p))
    BY <1>1
  <1>14. \A q, r \in Process : q # r /\ src(q) = src(r) => q \in {p, c}
    OBVIOUS
  <1>15. \A q \in L \cup {c} : src(q) \in L
    OBVIOUS
  <1> HIDE DEF src
  <1>16. OwnersMapped(t)
    <2> SUFFICES ASSUME NEW g \in Frame, NEW q \in Process, NEW u \in Page
                 PROVE  (q \in t.owners[g] /\ t.ownersPage[g] = u)
                        <=> (t.pageTable[q][u].valid /\ t.pageTable[q][u].physicalPage = g)
      BY DEF OwnersMapped
    <2>1. (src(q) \in s.owners[g] /\ s.ownersPage[g] = u)
           <=> (s.pageTable[src(q)][u].valid /\ s.pageTable[src(q)][u].physicalPage = g)
      BY <1>13 DEF Linked, OwnersMapped
    <2>2. /\ t.pageTable[q][u].valid = s.pageTable[src(q)][u].valid
          /\ t.pageTable[q][u].physicalPage = s.pageTable[src(q)][u].physicalPage
      BY <1>12
    <2> QED BY <2>1, <2>2, <1>8, <1>11
  <1>17. OwnersAgree(t)
    <2> SUFFICES ASSUME NEW q \in Process, NEW r \in Process, NEW u \in Page,
                        t.pageTable[q][u].valid, t.pageTable[r][u].valid,
                        t.pageTable[q][u].physicalPage = t.pageTable[r][u].physicalPage
                 PROVE  LET a == t.pageTable[q][u]
                            b == t.pageTable[r][u]
                        IN /\ a.dirty = b.dirty /\ a.zero = b.zero /\ a.File = b.File
                           /\ a.File = SwapFile => a.offset = b.offset
      BY DEF OwnersAgree
    <2>1. LET a == s.pageTable[src(q)][u]
              b == s.pageTable[src(r)][u]
          IN  a.valid /\ b.valid /\ a.physicalPage = b.physicalPage
      BY <1>12
    <2>2. LET a == s.pageTable[src(q)][u]
              b == s.pageTable[src(r)][u]
          IN  /\ a.dirty = b.dirty /\ a.zero = b.zero /\ a.File = b.File
              /\ a.File = SwapFile => a.offset = b.offset
      BY <2>1, <1>13 DEF Linked, OwnersAgree
    <2> QED BY <2>2, <1>12
  <1>18. OwnersCow(t)
    <2> SUFFICES ASSUME NEW q \in Process, NEW r \in Process, NEW u \in Page, q # r,
                        t.pageTable[q][u].valid, t.pageTable[r][u].valid,
                        t.pageTable[q][u].physicalPage = t.pageTable[r][u].physicalPage
                 PROVE  t.pageTable[q][u].cow
      BY DEF OwnersCow
    <2>1. LET a == s.pageTable[src(q)][u]
              b == s.pageTable[src(r)][u]
          IN  a.valid /\ b.valid /\ a.physicalPage = b.physicalPage
      BY <1>12
    <2>2. CASE src(q) = src(r)
      BY <2>1, <2>2, <1>12, <1>14
    <2>3. CASE src(q) # src(r)
      <3>1. s.pageTable[src(q)][u].cow
        BY <2>1, <2>3, <1>13 DEF Linked, OwnersCow
      <3> QED BY <3>1, <1>12
    <2> QED BY <2>2, <2>3
  <1>19. SwapMapped(t)
    <2> SUFFICES ASSUME NEW k \in SwapFrame, NEW q \in Process, NEW u \in Page
                 PROVE  (q \in t.swapOwners[k] /\ t.swapPage[k] = u)
                        <=> (t.pageTable[q][u].File = SwapFile
                             /\ t.pageTable[q][u].offset = k)
      BY DEF SwapMapped
    <2>1. (src(q) \in s.swapOwners[k] /\ s.swapPage[k] = u)
           <=> (s.pageTable[src(q)][u].File = SwapFile
                /\ s.pageTable[src(q)][u].offset = k)
      BY <1>13 DEF Linked, SwapMapped
    <2>2. /\ t.pageTable[q][u].File = s.pageTable[src(q)][u].File
          /\ t.pageTable[q][u].offset = s.pageTable[src(q)][u].offset
      BY <1>12
    <2> QED BY <2>1, <2>2, <1>9, <1>11
  <1>20. SwapFlags(t)
    <2>1. \A k \in SwapFrame : K[k] = {} <=> s.swapOwners[k] = {}
      <3> SUFFICES ASSUME NEW k \in SwapFrame
                   PROVE  K[k] = {} <=> s.swapOwners[k] = {}
        OBVIOUS
      <3>1. K[k] \subseteq Process /\ s.swapOwners[k] \subseteq Process
        BY <1>7 DEF Machine
      <3>2. c \notin s.swapOwners[k]
        BY UnusedOwnsNothing
      <3> QED BY <3>1, <3>2, <1>9, <1>13
    <2> QED BY <2>1, <1>11 DEF Linked, SwapFlags
  <1>21. SwapShared(t)
    <2> SUFFICES ASSUME NEW q \in Process, NEW r \in Process, NEW u \in Page, q # r,
                        t.pageTable[q][u].File = SwapFile,
                        t.pageTable[r][u].File = SwapFile,
                        t.pageTable[q][u].offset = t.pageTable[r][u].offset
                 PROVE  LET a == t.pageTable[q][u]
                            b == t.pageTable[r][u]
                        IN  /\ a.cow
                            /\ a.valid = b.valid
                            /\ a.valid => a.physicalPage = b.physicalPage
      BY DEF SwapShared
    <2>1. LET a == s.pageTable[src(q)][u]
              b == s.pageTable[src(r)][u]
          IN  a.File = SwapFile /\ b.File = SwapFile /\ a.offset = b.offset
      BY <1>12
    <2>2. CASE src(q) = src(r)
      <3>1. t.pageTable[q][u].cow
        BY <2>1, <2>2, <1>12, <1>14
      <3> QED BY <2>2, <3>1, <1>12
    <2>3. CASE src(q) # src(r)
      <3>1. LET a == s.pageTable[src(q)][u]
                b == s.pageTable[src(r)][u]
            IN  /\ a.cow
                /\ a.valid = b.valid
                /\ a.valid => a.physicalPage = b.physicalPage
        BY <2>1, <2>3, <1>13 DEF Linked, SwapShared
      <3> QED BY <3>1, <1>12
    <2> QED BY <2>2, <2>3
  <1>22. ASSUME NEW q \in Process, NEW u \in Page
         PROVE  /\ Backing(t, t.pageTable[q][u], u) = Backing(s, s.pageTable[src(q)][u], u)
                /\ View(t, q, u) = View(s, src(q), u)
    <2> DEFINE a == s.pageTable[src(q)][u]
               b == t.pageTable[q][u]
    <2>1. /\ b.File = a.File /\ b.offset = a.offset /\ b.zero = a.zero
          /\ b.valid = a.valid /\ b.physicalPage = a.physicalPage
      BY <1>12
    <2>2. t.swapData = s.swapData /\ t.mainMemory = s.mainMemory
      BY <1>11
    <2> HIDE DEF a, b
    <2>3. Backing(t, b, u) = Backing(s, a, u)
      BY <2>1, <2>2, BackingSame
    <2> QED BY <2>1, <2>2, <2>3 DEF a, b, View
  <1>23. CleanIsBacked(t)
    <2> SUFFICES ASSUME NEW q \in Process, NEW u \in Page,
                        t.pageTable[q][u].valid, ~t.pageTable[q][u].dirty
                 PROVE  t.mainMemory[t.pageTable[q][u].physicalPage]
                          = Backing(t, t.pageTable[q][u], u)
      BY DEF CleanIsBacked
    <2>1. LET a == s.pageTable[src(q)][u] IN
            a.valid /\ ~a.dirty /\ a.physicalPage = t.pageTable[q][u].physicalPage
      BY <1>12
    <2>2. s.mainMemory[s.pageTable[src(q)][u].physicalPage]
            = Backing(s, s.pageTable[src(q)][u], u)
      BY <2>1, <1>13 DEF Linked, CleanIsBacked
    <2> QED BY <2>1, <2>2, <1>11, <1>22
  <1>24. OneSource(t)
    <2> SUFFICES ASSUME NEW q \in Process, NEW u \in Page, t.pageTable[q][u].zero
                 PROVE  t.pageTable[q][u].File = NoFile
      BY DEF OneSource
    <2>1. s.pageTable[src(q)][u].zero /\ src(q) \in Process
      BY <1>12, <1>13
    <2>2. s.pageTable[src(q)][u].File = NoFile
      BY <2>1 DEF Linked, OneSource
    <2> QED BY <2>2, <1>12
  <1>25. Sourced(t, L \cup {c})
    <2> SUFFICES ASSUME NEW q \in L \cup {c}, NEW u \in Page,
                        ~t.pageTable[q][u].zero, t.pageTable[q][u].File = NoFile
                 PROVE  t.pageTable[q][u].valid /\ t.pageTable[q][u].dirty
      BY DEF Sourced
    <2>1. ~s.pageTable[src(q)][u].zero /\ s.pageTable[src(q)][u].File = NoFile
      BY <1>1, <1>12
    <2>2. s.pageTable[src(q)][u].valid /\ s.pageTable[src(q)][u].dirty
      BY <2>1, <1>15 DEF Linked, Sourced
    <2> QED BY <2>2, <1>1, <1>12
  <1>26. Unused(t, L \cup {c})
    <2>1. \A q \in Process \ (L \cup {c}), u \in Page :
             t.pageTable[q][u] = s.pageTable[q][u]
      BY <1>12
    <2> QED BY <2>1 DEF Linked, Unused
  <1>27. FlagsOwned(t)
    <2>1. \A f \in Frame : F[f] = {} <=> s.owners[f] = {}
      <3> SUFFICES ASSUME NEW f \in Frame
                   PROVE  F[f] = {} <=> s.owners[f] = {}
        OBVIOUS
      <3>1. F[f] \subseteq Process /\ s.owners[f] \subseteq Process
        BY <1>7 DEF Machine
      <3>2. c \notin s.owners[f]
        BY UnusedOwnsNothing
      <3> QED BY <3>1, <3>2, <1>8, <1>13
    <2> QED BY <2>1, <1>11 DEF FlagsOwned
  <1>28. QED
    BY <1>10, <1>16, <1>17, <1>18, <1>19, <1>20, <1>21, <1>22, <1>23, <1>24,
       <1>25, <1>26, <1>27 DEF Linked, t, src

\* The destruction of an address space: p leaves every table, nobody else's
\* memory changes, and the frames and slots left without an owner are free.
LEMMA ReleaseLinked ==
    ASSUME NEW s \in Machine, NEW L \in SUBSET Process, Linked(s, L), FlagsOwned(s),
           NEW p \in L
    PROVE  LET t == Release(s, p)
           IN  /\ t \in Machine /\ Linked(t, L \ {p}) /\ FlagsOwned(t)
               /\ \A u \in Page : View(t, p, u) = Garbage
               /\ \A q \in Process \ {p}, u \in Page : View(t, q, u) = View(s, q, u)
  <1> DEFINE old    == s.pageTable[p]
             held   == {old[v].physicalPage : v \in {u \in Page : old[u].valid}}
             onSwap == {old[v].offset : v \in {u \in Page : old[u].File = SwapFile}}
             F == [f \in Frame |->
                     IF f \in held THEN Without(s.owners[f], p) ELSE s.owners[f]]
             K == [k \in SwapFrame |-> IF k \in onSwap
                     THEN Without(s.swapOwners[k], p) ELSE s.swapOwners[k]]
             PF == s.page_flags \ {f \in held : Without(s.owners[f], p) = {}}
             FF == s.frame_flags \ {k \in onSwap : Without(s.swapOwners[k], p) = {}}
             r == ReleaseTable(s, p, old)
             f0 == old[FirstPage].physicalPage
             s2 == ClearCow(r, f0)
             blank == [v \in Page |-> BlankEntry]
             t == Release(s, p)
  <1>1. p \in Process /\ f0 \in Frame
    BY PageAssumption DEF Machine, TranslationEntry
  <1>2. \A f \in Frame : f \in held <=> p \in s.owners[f]
    <2> SUFFICES ASSUME NEW f \in Frame
                 PROVE  f \in held <=> p \in s.owners[f]
      OBVIOUS
    <2>1. s.ownersPage[f] \in Page
      BY DEF Machine
    <2> QED BY <1>1, <2>1 DEF Linked, OwnersMapped
  <1>3. \A k \in SwapFrame : k \in onSwap <=> p \in s.swapOwners[k]
    <2> SUFFICES ASSUME NEW k \in SwapFrame
                 PROVE  k \in onSwap <=> p \in s.swapOwners[k]
      OBVIOUS
    <2>1. s.swapPage[k] \in Page
      BY DEF Machine
    <2> QED BY <1>1, <2>1 DEF Linked, SwapMapped
  <1> HIDE DEF held, onSwap
  <1>4. \A f \in Frame : F[f] = s.owners[f] \ {p}
    BY <1>2, WithoutOwner
  <1>5. \A k \in SwapFrame : K[k] = s.swapOwners[k] \ {p}
    BY <1>3, WithoutOwner
  <1>6. \A f \in Frame : f \in PF <=> f \in s.page_flags /\ ~(f \in held /\ F[f] = {})
    OBVIOUS
  <1>7. \A k \in SwapFrame : k \in FF <=> k \in s.frame_flags /\ ~(k \in onSwap /\ K[k] = {})
    OBVIOUS
  <1>8. r = [s EXCEPT !.owners = F, !.page_flags = PF, !.swapOwners = K,
                      !.frame_flags = FF]
    BY DEF ReleaseTable, held, onSwap
  <1>9. /\ F \in [Frame -> SUBSET Process] /\ K \in [SwapFrame -> SUBSET Process]
        /\ PF \in SUBSET Frame /\ FF \in SUBSET SwapFrame
    <2>1. F \in [Frame -> SUBSET Process]
      BY <1>4 DEF Machine
    <2>2. K \in [SwapFrame -> SUBSET Process]
      BY <1>5 DEF Machine
    <2>3. PF \in SUBSET Frame /\ FF \in SUBSET SwapFrame
      BY DEF Machine
    <2> QED BY <2>1, <2>2, <2>3
  <1> HIDE DEF F, K, PF, FF, r
  <1>10. r \in Machine
    BY <1>8, <1>9 DEF Machine
  <1>11. /\ r.pageTable = s.pageTable /\ r.owners = F /\ r.ownersPage = s.ownersPage
         /\ r.page_flags = PF /\ r.mainMemory = s.mainMemory
         /\ r.frame_flags = FF /\ r.swapOwners = K
         /\ r.swapPage = s.swapPage /\ r.swapData = s.swapData
    BY <1>8 DEF Machine
  <1>12. /\ s2 \in Machine
         /\ s2.owners = r.owners /\ s2.ownersPage = r.ownersPage
         /\ s2.page_flags = r.page_flags /\ s2.mainMemory = r.mainMemory
         /\ s2.frame_flags = r.frame_flags /\ s2.swapOwners = r.swapOwners
         /\ s2.swapPage = r.swapPage /\ s2.swapData = r.swapData
    <2> HIDE DEF f0, old, t, held, onSwap
    <2> QED BY <1>1, <1>10, ClearCowEffect
  <1>13. \A q \in Process, u \in Page :
            LET a == r.pageTable[q][u]
                b == s2.pageTable[q][u]
            IN  /\ b.valid = a.valid /\ b.physicalPage = a.physicalPage
                /\ b.dirty = a.dirty /\ b.zero = a.zero
                /\ b.File = a.File /\ b.offset = a.offset
                /\ b = a \/ (r.owners[f0] = {q} /\ r.ownersPage[f0] = u)
    <2> HIDE DEF f0, old, t, held, onSwap
    <2> QED BY <1>1, <1>10, ClearCowEffect
  <1>14. t = [s2 EXCEPT !.pageTable[p] = blank]
    BY DEF Release, r
  <1> HIDE DEF s2, t
  <1>15. blank \in [Page -> TranslationEntry]
    BY FrameAssumption DEF BlankEntry, TranslationEntry, File
  <1>16. t \in Machine
    BY <1>12, <1>14, <1>15 DEF Machine
  <1>17. /\ t.owners = F /\ t.ownersPage = s.ownersPage /\ t.page_flags = PF
         /\ t.mainMemory = s.mainMemory /\ t.frame_flags = FF /\ t.swapOwners = K
         /\ t.swapPage = s.swapPage /\ t.swapData = s.swapData
         /\ t.pageTable = [s2.pageTable EXCEPT ![p] = blank]
    BY <1>11, <1>12, <1>14 DEF Machine
  <1>18. \A u \in Page : t.pageTable[p][u] = BlankEntry
    BY <1>1, <1>12, <1>17 DEF Machine
  <1>19. \A q \in Process \ {p}, u \in Page :
            LET a == s.pageTable[q][u]
                b == t.pageTable[q][u]
            IN  /\ b.valid = a.valid /\ b.physicalPage = a.physicalPage
                /\ b.dirty = a.dirty /\ b.zero = a.zero
                /\ b.File = a.File /\ b.offset = a.offset
                /\ b = a \/ (F[f0] = {q} /\ s.ownersPage[f0] = u)
    <2>1. \A q \in Process \ {p}, u \in Page : t.pageTable[q][u] = s2.pageTable[q][u]
      BY <1>12, <1>17 DEF Machine
    <2> HIDE DEF f0
    <2> QED BY <2>1, <1>11, <1>13
  <1> HIDE DEF f0, old, blank
  <1>20. ~BlankEntry.valid /\ ~BlankEntry.zero /\ BlankEntry.File = NoFile
    BY DEF BlankEntry
  <1>21. OwnersMapped(t)
    <2> SUFFICES ASSUME NEW g \in Frame, NEW q \in Process, NEW u \in Page
                 PROVE  (q \in t.owners[g] /\ t.ownersPage[g] = u)
                        <=> (t.pageTable[q][u].valid /\ t.pageTable[q][u].physicalPage = g)
      BY DEF OwnersMapped
    <2>1. (q \in s.owners[g] /\ s.ownersPage[g] = u)
           <=> (s.pageTable[q][u].valid /\ s.pageTable[q][u].physicalPage = g)
      BY DEF Linked, OwnersMapped
    <2>2. t.owners[g] = s.owners[g] \ {p} /\ t.ownersPage = s.ownersPage
      BY <1>4, <1>17
    <2>3. CASE q = p
      BY <2>2, <2>3, <1>18, <1>20
    <2>4. CASE q # p
      BY <2>1, <2>2, <2>4, <1>19
    <2> QED BY <2>3, <2>4
  \* The entry whose cow is cleared shares its frame with nobody left.
  <1>22. ASSUME NEW q \in Process \ {p}, NEW w \in Process \ {p}, NEW u \in Page,
                q # w, s.pageTable[q][u].valid => s.pageTable[w][u].valid
                           /\ s.pageTable[q][u].physicalPage
                                = s.pageTable[w][u].physicalPage
         PROVE  t.pageTable[q][u] = s.pageTable[q][u]
    <2> SUFFICES ASSUME F[f0] = {q}, s.ownersPage[f0] = u
                 PROVE  FALSE
      BY <1>19
    <2>1. OwnersMapped(s) /\ F[f0] = s.owners[f0] \ {p}
      BY <1>1, <1>4 DEF Linked
    <2>2. s.pageTable[q][u].valid /\ s.pageTable[q][u].physicalPage = f0
      BY <2>1, <1>1 DEF OwnersMapped
    <2>3. w \in s.owners[f0]
      BY <2>1, <2>2, <1>1, <1>22 DEF OwnersMapped
    <2> QED BY <2>1, <2>3, <1>22
  <1>23. OwnersAgree(t)
    <2> SUFFICES ASSUME NEW q \in Process, NEW w \in Process, NEW u \in Page,
                        t.pageTable[q][u].valid, t.pageTable[w][u].valid,
                        t.pageTable[q][u].physicalPage = t.pageTable[w][u].physicalPage
                 PROVE  LET a == t.pageTable[q][u]
                            b == t.pageTable[w][u]
                        IN /\ a.dirty = b.dirty /\ a.zero = b.zero /\ a.File = b.File
                           /\ a.File = SwapFile => a.offset = b.offset
      BY DEF OwnersAgree
    <2>1. q # p /\ w # p
      BY <1>18, <1>20
    <2>2. LET a == s.pageTable[q][u]
              b == s.pageTable[w][u]
          IN  a.valid /\ b.valid /\ a.physicalPage = b.physicalPage
      BY <2>1, <1>19
    <2>3. LET a == s.pageTable[q][u]
              b == s.pageTable[w][u]
          IN  /\ a.dirty = b.dirty /\ a.zero = b.zero /\ a.File = b.File
              /\ a.File = SwapFile => a.offset = b.offset
      BY <2>2 DEF Linked, OwnersAgree
    <2> QED BY <2>1, <2>3, <1>19
  <1>24. OwnersCow(t)
    <2> SUFFICES ASSUME NEW q \in Process, NEW w \in Process, NEW u \in Page, q # w,
                        t.pageTable[q][u].valid, t.pageTable[w][u].valid,
                        t.pageTable[q][u].physicalPage = t.pageTable[w][u].physicalPage
                 PROVE  t.pageTable[q][u].cow
      BY DEF OwnersCow
    <2>1. q # p /\ w # p
      BY <1>18, <1>20
    <2>2. LET a == s.pageTable[q][u]
              b == s.pageTable[w][u]
          IN  a.valid /\ b.valid /\ a.physicalPage = b.physicalPage
      BY <2>1, <1>19
    <2>3. s.pageTable[q][u].cow
      BY <2>2 DEF Linked, OwnersCow
    <2>4. t.pageTable[q][u] = s.pageTable[q][u]
      BY <2>1, <2>2, <1>22
    <2> QED BY <2>3, <2>4
  <1>25. SwapMapped(t)
    <2> SUFFICES ASSUME NEW k \in SwapFrame, NEW q \in Process, NEW u \in Page
                 PROVE  (q \in t.swapOwners[k] /\ t.swapPage[k] = u)
                        <=> (t.pageTable[q][u].File = SwapFile
                             /\ t.pageTable[q][u].offset = k)
      BY DEF SwapMapped
    <2>1. (q \in s.swapOwners[k] /\ s.swapPage[k] = u)
           <=> (s.pageTable[q][u].File = SwapFile /\ s.pageTable[q][u].offset = k)
      BY DEF Linked, SwapMapped
    <2>2. t.swapOwners[k] = s.swapOwners[k] \ {p} /\ t.swapPage = s.swapPage
      BY <1>5, <1>17
    <2>3. CASE q = p
      BY <2>2, <2>3, <1>18, <1>20, FileAssumption
    <2>4. CASE q # p
      BY <2>1, <2>2, <2>4, <1>19
    <2> QED BY <2>3, <2>4
  <1>26. SwapFlags(t)
    <2> SUFFICES ASSUME NEW k \in SwapFrame
                 PROVE  k \in t.frame_flags <=> t.swapOwners[k] # {}
      BY DEF SwapFlags
    <2>1. k \in s.frame_flags <=> s.swapOwners[k] # {}
      BY DEF Linked, SwapFlags
    <2> QED BY <2>1, <1>3, <1>5, <1>7, <1>17
  <1>27. FlagsOwned(t)
    <2> SUFFICES ASSUME NEW f \in Frame
                 PROVE  f \in t.page_flags <=> t.owners[f] # {}
      BY DEF FlagsOwned
    <2>1. f \in s.page_flags <=> s.owners[f] # {}
      BY DEF FlagsOwned
    <2> QED BY <2>1, <1>2, <1>4, <1>6, <1>17
  <1>28. SwapShared(t)
    <2> SUFFICES ASSUME NEW q \in Process, NEW w \in Process, NEW u \in Page, q # w,
                        t.pageTable[q][u].File = SwapFile,
                        t.pageTable[w][u].File = SwapFile,
                        t.pageTable[q][u].offset = t.pageTable[w][u].offset
                 PROVE  LET a == t.pageTable[q][u]
                            b == t.pageTable[w][u]
                        IN  /\ a.cow
                            /\ a.valid = b.valid
                            /\ a.valid => a.physicalPage = b.physicalPage
      BY DEF SwapShared
    <2>1. q # p /\ w # p
      BY <1>18, <1>20, FileAssumption
    <2>2. LET a == s.pageTable[q][u]
              b == s.pageTable[w][u]
          IN  a.File = SwapFile /\ b.File = SwapFile /\ a.offset = b.offset
      BY <2>1, <1>19
    <2>3. LET a == s.pageTable[q][u]
              b == s.pageTable[w][u]
          IN  /\ a.cow
              /\ a.valid = b.valid
              /\ a.valid => a.physicalPage = b.physicalPage
      BY <2>2 DEF Linked, SwapShared
    <2>4. t.pageTable[q][u] = s.pageTable[q][u]
      BY <2>1, <2>3, <1>22
    <2> QED BY <2>1, <2>3, <2>4, <1>19
  <1>29. ASSUME NEW q \in Process \ {p}, NEW u \in Page
         PROVE  /\ Backing(t, t.pageTable[q][u], u) = Backing(s, s.pageTable[q][u], u)
                /\ View(t, q, u) = View(s, q, u)
    <2> DEFINE a == s.pageTable[q][u]
               b == t.pageTable[q][u]
    <2>1. /\ b.File = a.File /\ b.offset = a.offset /\ b.zero = a.zero
          /\ b.valid = a.valid /\ b.physicalPage = a.physicalPage
      BY <1>19
    <2>2. t.swapData = s.swapData /\ t.mainMemory = s.mainMemory
      BY <1>17
    <2> HIDE DEF a, b
    <2>3. Backing(t, b, u) = Backing(s, a, u)
      BY <2>1, <2>2, BackingSame
    <2> QED BY <2>1, <2>2, <2>3 DEF a, b, View
  <1>30. \A u \in Page : View(t, p, u) = Garbage
    BY <1>18, <1>20, BlankBacking DEF View
  <1>31. CleanIsBacked(t)
    <2> SUFFICES ASSUME NEW q \in Process, NEW u \in Page,
                        t.pageTable[q][u].valid, ~t.pageTable[q][u].dirty
                 PROVE  t.mainMemory[t.pageTable[q][u].physicalPage]
                          = Backing(t, t.pageTable[q][u], u)
      BY DEF CleanIsBacked
    <2>1. q # p
      BY <1>18, <1>20
    <2>2. LET a == s.pageTable[q][u] IN
            a.valid /\ ~a.dirty /\ a.physicalPage = t.pageTable[q][u].physicalPage
      BY <2>1, <1>19
    <2>3. s.mainMemory[s.pageTable[q][u].physicalPage] = Backing(s, s.pageTable[q][u], u)
      BY <2>2 DEF Linked, CleanIsBacked
    <2> QED BY <2>1, <2>2, <2>3, <1>17, <1>29
  <1>32. OneSource(t)
    <2> SUFFICES ASSUME NEW q \in Process, NEW u \in Page, t.pageTable[q][u].zero
                 PROVE  t.pageTable[q][u].File = NoFile
      BY DEF OneSource
    <2>1. q # p
      BY <1>18, <1>20
    <2>2. s.pageTable[q][u].zero
      BY <2>1, <1>19
    <2> QED BY <2>1, <2>2, <1>19 DEF Linked, OneSource
  <1>33. Sourced(t, L \ {p})
    <2> SUFFICES ASSUME NEW q \in L \ {p}, NEW u \in Page,
                        ~t.pageTable[q][u].zero, t.pageTable[q][u].File = NoFile
                 PROVE  t.pageTable[q][u].valid /\ t.pageTable[q][u].dirty
      BY DEF Sourced
    <2>1. s.pageTable[q][u].valid /\ s.pageTable[q][u].dirty
      BY <1>19 DEF Linked, Sourced
    <2> QED BY <2>1, <1>19
  <1>34. Unused(t, L \ {p})
    <2> SUFFICES ASSUME NEW q \in Process \ L, NEW u \in Page
                 PROVE  t.pageTable[q][u] = BlankEntry
      BY <1>18 DEF Unused
    <2>1. s.pageTable[q][u] = BlankEntry
      BY DEF Linked, Unused
    <2>2. F[f0] # {q}
      BY <1>1, <1>4, UnusedOwnsNothing
    <2> QED BY <2>1, <2>2, <1>19
  <1>35. QED
    BY <1>16, <1>21, <1>23, <1>24, <1>25, <1>26, <1>27, <1>28, <1>29, <1>30,
       <1>31, <1>32, <1>33, <1>34 DEF Linked, t

-----------------------------------------------------------------------------
(* The machine with the first program's table installed, before paging *)

\* With the table of executable e installed for p, before Setup_Load pages
\* anything in, the tables are consistent and p sees the image of e.
LEMMA LoadedLinked ==
    ASSUME NEW p \in Process, NEW e \in Executable
    PROVE  LET s == [PowerOn EXCEPT !.pageTable[p] = SetupTable(e)]
           IN  /\ s \in Machine /\ Linked(s, {p}) /\ FlagsOwned(s)
               /\ \A u \in Page : ~s.pageTable[p][u].valid
               /\ \A q \in Process, u \in Page :
                     View(s, q, u) = IF q = p THEN ImageOf(e)[u] ELSE Garbage
  <1> DEFINE s == [PowerOn EXCEPT !.pageTable[p] = SetupTable(e)]
  <1>1. BlankEntry \in TranslationEntry
    BY FrameAssumption DEF BlankEntry, TranslationEntry, File
  <1>2. ASSUME NEW u \in Page
        PROVE  /\ SetupTable(e)[u] \in TranslationEntry
               /\ SetupTable(e)[u].valid = FALSE
               /\ SetupTable(e)[u].zero <=> u \in ZeroPage
               /\ SetupTable(e)[u].File = IF u \in ZeroPage THEN NoFile ELSE e
    <2>1. CASE u \in ZeroPage
      <3>1. SetupTable(e)[u] = [BlankEntry EXCEPT !.zero = TRUE]
        BY <2>1 DEF SetupTable
      <3> QED BY <2>1, <3>1, <1>1 DEF BlankEntry, TranslationEntry
    <2>2. CASE u \notin ZeroPage
      <3>1. SetupTable(e)[u] = [BlankEntry EXCEPT !.File = e]
        BY <2>2 DEF SetupTable
      <3>2. e \in File
        BY DEF File
      <3>3. SetupTable(e)[u] \in TranslationEntry
        BY <3>1, <3>2, <1>1 DEF TranslationEntry
      <3>4. /\ SetupTable(e)[u].valid = FALSE /\ SetupTable(e)[u].zero = FALSE
            /\ SetupTable(e)[u].File = e
        BY <3>1 DEF BlankEntry
      <3> QED BY <2>2, <3>3, <3>4
    <2> QED BY <2>1, <2>2
  <1>3. SetupTable(e) \in [Page -> TranslationEntry]
    <2>1. SetupTable(e) = [u \in Page |-> SetupTable(e)[u]]
      BY DEF SetupTable
    <2> QED BY <2>1, <1>2
  <1>4. PowerOn \in Machine
    BY <1>1, PageAssumption, FileAssumption, PolicyAssumption DEF PowerOn, Machine
  <1>5. s \in Machine
    BY <1>3, <1>4 DEF Machine
  <1>6. /\ s.pageTable = [PowerOn.pageTable EXCEPT ![p] = SetupTable(e)]
        /\ s.owners = PowerOn.owners /\ s.page_flags = PowerOn.page_flags
        /\ s.swapOwners = PowerOn.swapOwners /\ s.frame_flags = PowerOn.frame_flags
    BY <1>4 DEF Machine
  <1>7. /\ PowerOn.owners = [f \in Frame |-> {}] /\ PowerOn.page_flags = {}
        /\ PowerOn.swapOwners = [k \in SwapFrame |-> {}] /\ PowerOn.frame_flags = {}
        /\ PowerOn.pageTable = [q \in Process |-> [v \in Page |-> BlankEntry]]
    BY DEF PowerOn
  <1> HIDE DEF s
  <1>8. \A u \in Page :
          /\ s.pageTable[p][u] = SetupTable(e)[u]
          /\ \A q \in Process \ {p} : s.pageTable[q][u] = BlankEntry
    BY <1>6, <1>7
  <1>9. ~BlankEntry.valid /\ ~BlankEntry.zero /\ BlankEntry.File = NoFile
    BY DEF BlankEntry
  <1>10. e # SwapFile /\ e # NoFile /\ SwapFile # NoFile
    BY FileAssumption
  <1>11. \A q \in Process, u \in Page :
           /\ ~s.pageTable[q][u].valid
           /\ s.pageTable[q][u].File # SwapFile
           /\ s.pageTable[q][u].zero => s.pageTable[q][u].File = NoFile
    <2>1. \A u \in Page :
            /\ ~SetupTable(e)[u].valid /\ SetupTable(e)[u].File # SwapFile
            /\ SetupTable(e)[u].zero => SetupTable(e)[u].File = NoFile
      BY <1>2, <1>10
    <2> QED BY <2>1, <1>8, <1>9, <1>10
  <1>12. OwnersMapped(s) /\ SwapMapped(s)
    BY <1>6, <1>7, <1>11 DEF OwnersMapped, SwapMapped
  <1>13. OwnersAgree(s) /\ OwnersCow(s) /\ SwapShared(s) /\ CleanIsBacked(s) /\ OneSource(s)
    BY <1>11 DEF OwnersAgree, OwnersCow, SwapShared, CleanIsBacked, OneSource
  <1>14. SwapFlags(s) /\ FlagsOwned(s)
    BY <1>6, <1>7 DEF SwapFlags, FlagsOwned
  <1>15. Sourced(s, {p})
    BY <1>2, <1>8, <1>10 DEF Sourced
  <1>16. Unused(s, {p})
    BY <1>8 DEF Unused
  <1>17. ASSUME NEW q \in Process, NEW u \in Page
         PROVE  View(s, q, u) = IF q = p THEN ImageOf(e)[u] ELSE Garbage
    <2>1. View(s, q, u) = Backing(s, s.pageTable[q][u], u)
      BY <1>11 DEF View
    <2>2. CASE q # p
      BY <2>1, <2>2, <1>8, BlankBacking
    <2>3. CASE q = p
      <3> DEFINE te == SetupTable(e)[u]
      <3>1. (te.zero <=> u \in ZeroPage) /\ te.File = IF u \in ZeroPage THEN NoFile ELSE e
        BY <1>2
      <3> HIDE DEF te
      <3>2. Backing(s, te, u) = ImageOf(e)[u]
        BY <3>1, <1>10 DEF Backing, ImageOf
      <3> QED BY <2>1, <2>3, <3>2, <1>8 DEF te
    <2> QED BY <2>2, <2>3
  <1>18. QED
    BY <1>5, <1>11, <1>12, <1>13, <1>14, <1>15, <1>16, <1>17 DEF Linked, s

-----------------------------------------------------------------------------
(* The inductive invariant *)

\* The inductive invariant: the checked properties and, besides, that a process
\* that does not exist has an empty table (Unused).  None of the parts is
\* inductive alone: that owners map a frame is kept by pagein only because the
\* swap records name the same processes, which pageout writes from the owners.
IInv == TypeOK /\ Linked(vm, live) /\ FlagsOwned(vm)

\* The memory every process sees, as a function.
Seen == [p \in Process |-> [v \in Page |-> View(vm, p, v)]]

\* StartProcess leaves the machine consistent, and the first process with the
\* memory of its executable.
LEMMA InitIInv ==
    ASSUME Init
    PROVE  IInv /\ Private!Init
  <1>1. PICK p \in Process, e \in Executable :
          live = {p} /\ vm \in Setup_Load(PowerOn, p, e)
    BY DEF Init
  <1> DEFINE s == [PowerOn EXCEPT !.pageTable[p] = SetupTable(e)]
  <1>2. PICK t \in Pagein(s, p, TextPage) : vm \in Pagein(t, p, StackPage)
    BY <1>1 DEF Setup_Load
  <1>3. /\ s \in Machine /\ Linked(s, {p}) /\ FlagsOwned(s)
        /\ \A u \in Page : ~s.pageTable[p][u].valid
        /\ \A q \in Process, u \in Page :
              View(s, q, u) = IF q = p THEN ImageOf(e)[u] ELSE Garbage
    BY LoadedLinked
  <1> HIDE DEF s
  <1>4. TextPage \in Page /\ StackPage \in Page \ {TextPage}
    BY PageAssumption
  <1>5. /\ t \in Machine /\ Linked(t, {p}) /\ FlagsOwned(t) /\ SameView(s, t)
        /\ ~t.pageTable[p][StackPage].valid
    BY <1>2, <1>3, <1>4, PageinLinked
  <1>6. vm \in Machine /\ Linked(vm, {p}) /\ FlagsOwned(vm) /\ SameView(t, vm)
    BY <1>2, <1>4, <1>5, PageinLinked
  <1>7. IInv
    BY <1>1, <1>6 DEF IInv, TypeOK
  <1>8. \A q \in Process, u \in Page :
          View(vm, q, u) = IF q = p THEN ImageOf(e)[u] ELSE Garbage
    BY <1>3, <1>5, <1>6 DEF SameView
  <1>9. Seen = [q \in Process |-> IF q = p THEN ImageOf(e) ELSE NoProgram]
    BY <1>8 DEF Seen, ImageOf, NoProgram
  <1>10. Private!Init
    BY <1>1, <1>9 DEF Private!Init, Seen
  <1>11. QED
    BY <1>7, <1>10

\* Every action keeps the invariant, and is an action of PrivateMemory or does
\* not show.
LEMMA NextIInv ==
    ASSUME IInv, [Next]_vars
    PROVE  IInv' /\ [Private!Next]_(Private!vars)
  <1> USE DEF IInv, TypeOK
  <1>0. vm \in Machine /\ live \in SUBSET Process /\ Linked(vm, live) /\ FlagsOwned(vm)
    OBVIOUS
  <1>1. ASSUME NEW p \in Process, NEW v \in Page, PageFault(p, v)
        PROVE  IInv' /\ UNCHANGED <<live, Seen>>
    <2>1. /\ p \in live /\ ~vm.pageTable[p][v].valid /\ vm' \in Pagein(vm, p, v)
          /\ live' = live
      BY <1>1 DEF PageFault
    <2>2. vm' \in Machine /\ Linked(vm', live) /\ FlagsOwned(vm') /\ SameView(vm, vm')
      BY <1>0, <2>1, PageinLinked
    <2> QED BY <2>1, <2>2 DEF Seen, SameView
  <1>2. ASSUME NEW p \in Process, NEW v \in Page, NEW x \in Value, Write(p, v, x)
        PROVE  IInv' /\ Private!Write(p, v, x)
    <2>1. p \in live /\ vm.pageTable[p][v].valid /\ live' = live
      BY <1>2 DEF Write
    <2>2. /\ vm' \in Machine /\ Linked(vm', live) /\ FlagsOwned(vm')
          /\ View(vm', p, v) = x
          /\ \A q \in Process, u \in Page :
                ~(q = p /\ u = v) => View(vm', q, u) = View(vm, q, u)
      <3>1. CASE ~vm.pageTable[p][v].cow
        <4>1. vm' = Store(vm, p, v, x)
          BY <1>2, <3>1 DEF Write
        <4> QED BY <1>0, <2>1, <3>1, <4>1, StoreLinked
      <3>2. CASE vm.pageTable[p][v].cow
        <4> DEFINE old == vm.pageTable[p][v].physicalPage
        <4>1. PICK s \in duplicatePage(vm, p, v) : vm' = Store(s, p, v, x)
          BY <1>2, <3>2 DEF Write
        <4>2. PICK a \in TakeFrame(vm, p, {old}) :
                s = DuplicateInto(a.state, p, v, a.frame)
          BY <4>1 DEF duplicatePage
        <4>3. {old} \in SUBSET vm.page_flags
          <5>1. old \in Frame
            BY <1>0 DEF Machine, TranslationEntry
          <5>2. p \in vm.owners[old]
            BY <1>0, <2>1, <5>1 DEF Linked, OwnersMapped
          <5> QED BY <1>0, <5>1, <5>2 DEF FlagsOwned
        <4> HIDE DEF old
        <4>4. /\ a.frame \in Frame \ {old} /\ a.state \in Machine
              /\ Linked(a.state, live) /\ SetAside(a.state, a.frame)
              /\ OthersKept(vm, a.state, a.frame) /\ SameView(vm, a.state)
          BY <1>0, <4>2, <4>3, TakeFrameLinked
        <4>5. a.state.pageTable[p][v] = vm.pageTable[p][v]
          BY <4>4 DEF OthersKept, old
        <4>6. /\ a.state.pageTable[p][v].valid
              /\ a.state.pageTable[p][v].physicalPage # a.frame
          BY <2>1, <4>4, <4>5 DEF old
        <4>7. /\ vm' \in Machine /\ Linked(vm', live) /\ FlagsOwned(vm')
              /\ View(vm', p, v) = x
              /\ \A q \in Process, u \in Page :
                    ~(q = p /\ u = v) => View(vm', q, u) = View(a.state, q, u)
          BY <1>0, <2>1, <4>1, <4>2, <4>4, <4>6, DuplicateLinked
        <4> QED BY <4>4, <4>7 DEF SameView
      <3> QED BY <3>1, <3>2
    <2>3. Seen' = [Seen EXCEPT ![p] = [Seen[p] EXCEPT ![v] = x]]
      BY <2>2 DEF Seen
    <2> QED BY <2>1, <2>2, <2>3 DEF Private!Write, Seen
  <1>3. ASSUME NEW p \in Process, NEW c \in Process, Fork(p, c)
        PROVE  IInv' /\ Private!Fork(p, c)
    <2>1. /\ p \in live /\ c \in Process \ live /\ vm' = CopyFrom(vm, p, c)
          /\ live' = live \cup {c}
      BY <1>3 DEF Fork
    <2>2. /\ vm' \in Machine /\ Linked(vm', live \cup {c}) /\ FlagsOwned(vm')
          /\ \A q \in Process, u \in Page :
                View(vm', q, u) = View(vm, IF q = c THEN p ELSE q, u)
      BY <1>0, <2>1, CopyFromLinked
    <2>3. Seen' = [Seen EXCEPT ![c] = Seen[p]]
      BY <2>2 DEF Seen
    <2> QED BY <2>1, <2>2, <2>3 DEF Private!Fork, Seen
  <1>4. ASSUME NEW p \in Process, Destroy(p)
        PROVE  IInv' /\ Private!Exit(p)
    <2>1. p \in live /\ vm' = Release(vm, p) /\ live' = live \ {p}
      BY <1>4 DEF Destroy
    <2>2. /\ vm' \in Machine /\ Linked(vm', live \ {p}) /\ FlagsOwned(vm')
          /\ \A u \in Page : View(vm', p, u) = Garbage
          /\ \A q \in Process \ {p}, u \in Page : View(vm', q, u) = View(vm, q, u)
      BY <1>0, <2>1, ReleaseLinked
    <2>3. Seen' = [Seen EXCEPT ![p] = NoProgram]
      BY <2>2 DEF Seen, NoProgram
    <2> QED BY <2>1, <2>2, <2>3 DEF Private!Exit, Seen
  <1>5. ASSUME NEW p \in Process, NEW n \in WssRange, RefreshWss(p, n)
        PROVE  IInv' /\ UNCHANGED <<live, Seen>>
    <2> DEFINE t == [vm EXCEPT !.wSetSize[p] = n]
    <2>1. vm' = t /\ live' = live
      BY <1>5 DEF RefreshWss
    <2>2. t \in Machine
      BY <1>0, PolicyAssumption DEF Machine
    <2>3. /\ t.pageTable = vm.pageTable /\ t.owners = vm.owners
          /\ t.ownersPage = vm.ownersPage /\ t.mainMemory = vm.mainMemory
          /\ t.frame_flags = vm.frame_flags /\ t.swapOwners = vm.swapOwners
          /\ t.swapPage = vm.swapPage /\ t.swapData = vm.swapData
          /\ t.page_flags = vm.page_flags
      BY <1>0 DEF Machine
    <2> HIDE DEF t
    <2>4. \A te, u : Backing(t, te, u) = Backing(vm, te, u)
      BY <2>3 DEF Backing
    <2>5. OwnersMapped(t) /\ OwnersAgree(t) /\ OwnersCow(t)
      BY <1>0, <2>3 DEF Linked, OwnersMapped, OwnersAgree, OwnersCow
    <2>6. SwapMapped(t) /\ SwapFlags(t) /\ SwapShared(t)
      BY <1>0, <2>3 DEF Linked, SwapMapped, SwapFlags, SwapShared
    <2>7. CleanIsBacked(t)
      BY <1>0, <2>3, <2>4 DEF Linked, CleanIsBacked
    <2>8. OneSource(t) /\ Sourced(t, live) /\ Unused(t, live)
      BY <1>0, <2>3 DEF Linked, OneSource, Sourced, Unused
    <2>9. FlagsOwned(t)
      BY <1>0, <2>3 DEF FlagsOwned
    <2>10. SameView(vm, t)
      BY <2>3, <2>4 DEF SameView, View
    <2>11. Linked(t, live)
      BY <2>5, <2>6, <2>7, <2>8 DEF Linked
    <2> QED BY <1>0, <2>1, <2>2, <2>9, <2>10, <2>11 DEF Seen, SameView
  <1>6. CASE UNCHANGED vars
    <2>1. vm' = vm /\ live' = live
      BY <1>6 DEF vars
    <2> QED BY <1>0, <2>1 DEF Private!vars, Linked, FlagsOwned
  <1>7. QED
    BY <1>1, <1>2, <1>3, <1>4, <1>5, <1>6
       DEF Next, Private!Next, Private!vars, Seen

-----------------------------------------------------------------------------
(* Theorems *)

\* The inductive invariant holds in every reachable state: after any sequence of
\* faults, stores, forks, exits and working-set changes.
THEOREM Invariance == Spec => []IInv
  <1>1. Init => IInv
    BY InitIInv
  <1>2. IInv /\ [Next]_vars => IInv'
    BY NextIInv
  <1>3. QED
    BY <1>1, <1>2, PTL DEF Spec

\* Every table keeps the shape the code declares, whatever the number of
\* processes, pages, frames and swap slots.
THEOREM TypeCorrect == Spec => []TypeOK
  <1>1. IInv => TypeOK
    BY DEF IInv
  <1>2. QED
    BY <1>1, Invariance, PTL

\* The frame table is the inverse of the page tables: pageout and the
\* copy-on-write code never reach into the entry of a process that does not
\* map the frame, or into a deleted address space.
THEOREM MappingsCorrect == Spec => []MappingsMatchOwners
  <1>1. IInv => MappingsMatchOwners
    BY DEF IInv, Linked, MappingsMatchOwners
  <1>2. QED
    BY <1>1, Invariance, PTL

\* No frame leaks and none is handed out while it is owned.
THEOREM FlagsCorrect == Spec => []FlagsMatchOwners
  <1>1. IInv => FlagsMatchOwners
    BY DEF IInv, FlagsMatchOwners
  <1>2. QED
    BY <1>1, Invariance, PTL

\* pageout may consult owners[0] alone: every owner's entry says the same.
THEOREM SharersCorrect == Spec => []SharersAgree
  <1>1. IInv => SharersAgree
    BY DEF IInv, Linked, SharersAgree
  <1>2. QED
    BY <1>1, Invariance, PTL

\* A store into a frame that another process maps is always caught first: every
\* entry that maps it is copy-on-write.
THEOREM CowCorrect == Spec => []SharedIsCow
  <1>1. IInv => SharedIsCow
    BY DEF IInv, Linked, SharedIsCow
  <1>2. QED
    BY <1>1, Invariance, PTL

\* The records of the swap file agree with the page tables, in both
\* directions, through any sequence of faults, forks, stores and exits.
THEOREM SwapCorrect == Spec => []SwapMatchesOwners
  <1>1. IInv => SwapMatchesOwners
    BY DEF IInv, Linked, SwapMatchesOwners
  <1>2. QED
    BY <1>1, Invariance, PTL

\* A page that pageout drops unwritten can be read back, and no live process
\* has a page that would be read through a NULL OpenFile.
THEOREM EvictionCorrect == Spec => []EvictionLosesNothing
  <1>1. IInv => EvictionLosesNothing
    BY DEF IInv, Linked, EvictionLosesNothing
  <1>2. QED
    BY <1>1, Invariance, PTL

\* The ASSERT of pageout on the slot it is given: if the swap file has a slot for
\* every page of every process, a dirty page without one finds one.  Every slot
\* in use is the slot of some entry, no entry has two, and the entry of the page
\* to be written has none; so not all slots can be in use.
THEOREM SwapCapacity ==
    ASSUME IsFiniteSet(Process), IsFiniteSet(SwapFrame),
           Cardinality(SwapFrame) >= Cardinality(Process) * Cardinality(Page)
    PROVE  Spec => []SwapSuffices
  <1>1. IInv => SwapSuffices
    <2> SUFFICES ASSUME IInv, NEW f \in Frame, NEW p \in vm.owners[f],
                        NeedsSwapFrame(vm.pageTable[p][vm.ownersPage[f]]),
                        vm.frame_flags = SwapFrame
                 PROVE  FALSE
      BY DEF SwapSuffices
    <2> DEFINE v == vm.ownersPage[f]
               Entries == Process \X Page
               Others == Entries \ {<<p, v>>}
               holder == [k \in SwapFrame |->
                            <<CHOOSE q \in vm.swapOwners[k] : TRUE, vm.swapPage[k]>>]
    <2>1. vm \in Machine /\ SwapMapped(vm) /\ SwapFlags(vm)
      BY DEF IInv, TypeOK, Linked
    <2>2. p \in Process /\ v \in Page /\ vm.pageTable[p][v].File # SwapFile
      BY <2>1 DEF Machine, NeedsSwapFrame
    <2>3. ASSUME NEW k \in SwapFrame
          PROVE  /\ holder[k] \in Entries
                 /\ vm.pageTable[holder[k][1]][holder[k][2]].File = SwapFile
                 /\ vm.pageTable[holder[k][1]][holder[k][2]].offset = k
      <3>1. vm.swapOwners[k] # {} /\ vm.swapOwners[k] \subseteq Process
            /\ vm.swapPage[k] \in Page
        BY <2>1 DEF SwapFlags, Machine
      <3>2. PICK q \in vm.swapOwners[k] : holder[k] = <<q, vm.swapPage[k]>>
        BY <3>1
      <3>3. q \in Process /\ holder[k][1] = q /\ holder[k][2] = vm.swapPage[k]
        BY <3>1, <3>2
      <3>4. /\ vm.pageTable[q][vm.swapPage[k]].File = SwapFile
            /\ vm.pageTable[q][vm.swapPage[k]].offset = k
        <4> HIDE DEF holder
        <4> QED BY <2>1, <3>1, <3>3 DEF SwapMapped
      <3>5. holder[k] \in Entries
        BY <3>1, <3>2, <3>3
      <3> QED BY <3>3, <3>4, <3>5, Zenon
    <2> HIDE DEF holder, v
    <2>4. holder \in Injection(SwapFrame, Others)
      <3>1. DOMAIN holder = SwapFrame
        BY DEF holder
      <3>2. holder \in [SwapFrame -> Others]
        <4>1. ASSUME NEW k \in SwapFrame PROVE holder[k] \in Others
          <5>1. holder[k] \in Entries
            BY <2>3
          <5>2. holder[k] # <<p, v>>
            <6>1. SUFFICES ASSUME holder[k] = <<p, v>> PROVE FALSE
              OBVIOUS
            <6>2. holder[k][1] = p /\ holder[k][2] = v
              BY <6>1
            <6>3. vm.pageTable[holder[k][1]][holder[k][2]].File = SwapFile
              BY <2>3
            <6> QED BY <2>2, <6>2, <6>3, Zenon
          <5> QED BY <5>1, <5>2
        <4> QED BY <3>1, <4>1 DEF holder
      <3>3. IsInjective(holder)
        BY <3>1, <2>3 DEF IsInjective
      <3> QED BY <3>2, <3>3 DEF Injection
    <2>5. /\ IsFiniteSet(Entries)
          /\ Cardinality(Entries) = Cardinality(Process) * Cardinality(Page)
      BY FS_Product, FrameAssumption
    <2>6. IsFiniteSet(Others) /\ Cardinality(Others) = Cardinality(Entries) - 1
      BY <2>2, <2>5, FS_RemoveElement
    <2>7. Cardinality(SwapFrame) <= Cardinality(Others)
      BY <2>4, <2>6, FS_Injection
    <2>8. Cardinality(SwapFrame) \in Nat /\ Cardinality(Entries) \in Nat
      BY <2>5, FS_CardinalityType
    <2> HIDE DEF Entries, Others
    <2> QED BY <2>5, <2>6, <2>7, <2>8
  <1>2. QED
    BY <1>1, Invariance, PTL

\* Demand paging, copy-on-write and swapping implement private memory.
THEOREM Refinement == Spec => PagingIsInvisible
  <1>1. Init => Private!Init
    BY InitIInv
  <1>2. IInv /\ [Next]_vars => [Private!Next]_(Private!vars)
    BY NextIInv
  <1>3. QED
    BY <1>1, <1>2, Invariance, PTL DEF Spec, PagingIsInvisible, Private!Spec
=============================================================================
