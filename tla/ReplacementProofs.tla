------------------------- MODULE ReplacementProofs -------------------------
EXTENDS Replacement, NumberLemmas

(***************************************************************************)
(* The policies choose the pages their references say, the history tells   *)
(* when a page was last referenced, and a process keeps to its working     *)
(* set, for any number of pages, any width of the history and any limits:  *)
(* proofs about Replacement.                                               *)
(***************************************************************************)

Tables == [Page -> Entry]

-----------------------------------------------------------------------------
(* The loops of the policies *)

\* The first n pages of D.
Below(D, n) == {v \in D : v < n}

Candidates(table, notMe) == {v \in Page : Candidate(table, notMe, v)}

\* w is the page of C loaded first, or there is none.
IsOldest(table, C, w) ==
    IF C = {} THEN w = NoPage
    ELSE /\ w \in C
         /\ \A v \in C : \/ table[w].load_time < table[v].load_time
                         \/ table[w].load_time = table[v].load_time /\ w <= v

LEMMA LoadTimes ==
    ASSUME NEW table \in Tables, NEW v \in Page
    PROVE  /\ table[v].load_time \in Nat /\ table[v].history \in Nat
           /\ v \in Nat /\ v < NumPages /\ v # NoPage
  BY ReplacementAssumption, PowerCounts DEF Tables, Entry, Page, NoPage

LEMMA BelowGrows ==
    ASSUME NEW D \in SUBSET Page, NEW n \in Page
    PROVE  /\ Below(D, n + 1) = Below(D, n) \cup ({n} \cap D)
           /\ \A v \in Below(D, n) : v < n /\ v \in D
  <1>1. n \in Nat /\ \A v \in D : v \in Nat
    BY ReplacementAssumption DEF Page
  <1>2. \A v \in D : v < n + 1 <=> v < n \/ v = n
    BY <1>1
  <1> QED BY <1>2 DEF Below

\* One step of a loop that looks for it.
LEMMA OldestStep ==
    ASSUME NEW table \in Tables, NEW D \in SUBSET Page, NEW n \in Page, NEW w,
           IsOldest(table, Below(D, n), w)
    PROVE  IsOldest(table, Below(D, n + 1),
                    IF n \in D /\ (w = NoPage \/ table[n].load_time < table[w].load_time)
                    THEN n ELSE w)
  <1> DEFINE A == Below(D, n)
             B == Below(D, n + 1)
  <1>1. n \in Nat /\ \A v \in D : v \in Nat /\ v # NoPage /\ table[v].load_time \in Nat
    BY LoadTimes
  <1>2. B = A \cup ({n} \cap D) /\ \A v \in A : v < n /\ v \in D
    BY BelowGrows
  <1>3. IsOldest(table, A, w)
    OBVIOUS
  <1> HIDE DEF A, B
  <1>4. CASE n \notin D
    <2>1. B = A
      BY <1>2, <1>4
    <2> QED BY <1>3, <1>4, <2>1 DEF B
  <1>5. CASE n \in D /\ A = {}
    <2>1. B = {n} /\ w = NoPage
      BY <1>2, <1>3, <1>5 DEF IsOldest
    <2>2. IsOldest(table, B, n)
      BY <1>1, <2>1 DEF IsOldest
    <2> QED BY <1>5, <2>1, <2>2 DEF B
  <1>6. CASE n \in D /\ A # {}
    <2>1. w \in A /\ w # NoPage
      BY <1>1, <1>2, <1>3, <1>6 DEF IsOldest
    <2>2. B = A \cup {n}
      BY <1>2, <1>6
    <2>3. CASE table[n].load_time < table[w].load_time
      <3>1. IsOldest(table, B, n)
        BY <1>1, <1>2, <1>3, <1>6, <2>1, <2>2, <2>3 DEF IsOldest
      <3> QED BY <1>6, <2>3, <3>1 DEF B
    <2>4. CASE ~(table[n].load_time < table[w].load_time)
      <3>1. \A v \in A : \/ table[w].load_time < table[v].load_time
                         \/ table[w].load_time = table[v].load_time /\ w <= v
        BY <1>3, <1>6 DEF IsOldest
      <3>2. w < n /\ w \in D
        BY <1>2, <2>1
      <3>3. \/ table[w].load_time < table[n].load_time
            \/ table[w].load_time = table[n].load_time /\ w <= n
        BY <1>1, <1>6, <2>4, <3>2
      <3>4. IsOldest(table, B, w)
        BY <2>1, <2>2, <3>1, <3>3 DEF IsOldest
      <3> QED BY <1>6, <2>1, <2>4, <3>4 DEF B
    <2> QED BY <2>3, <2>4
  <1> QED BY <1>4, <1>5, <1>6

LEMMA BelowEnds ==
    ASSUME NEW D \in SUBSET Page
    PROVE  Below(D, 0) = {} /\ Below(D, NumPages) = D
  <1>1. \A v \in D : v \in Nat /\ v < NumPages
    BY ReplacementAssumption DEF Page
  <1>2. \A v \in D : ~(v < 0)
    BY <1>1
  <1> QED BY <1>1, <1>2 DEF Below

\* FIFO's loop finds the oldest candidate.
LEMMA FifoFindsOldest ==
    ASSUME NEW table \in Tables, NEW notMe
    PROVE  IsOldest(table, Candidates(table, notMe), FIFO_Choose_Victim(table, notMe))
  <1> DEFINE S == Page \cup {NoPage}
             D == Candidates(table, notMe)
             Step(victim, v) ==
                IF Candidate(table, notMe, v)
                   /\ (victim = NoPage \/ table[v].load_time < table[victim].load_time)
                THEN v ELSE victim
             F == [v \in 0 .. NumPages - 1 |-> [x \in S |-> Step(x, v)]]
             scan[n \in 0 .. NumPages] == IF n = 0 THEN NoPage ELSE Step(scan[n - 1], n - 1)
  <1>1. F \in [0 .. NumPages - 1 -> [S -> S]]
    BY DEF Page
  <1>2. NumPages \in Nat /\ NoPage \in S
    BY ReplacementAssumption
  <1>3. PICK f \in [0 .. NumPages -> S] : Runs(f, F, NoPage, NumPages)
    <2> HIDE DEF F, S
    <2> QED BY <1>1, <1>2, LoopRuns, Zenon
  <1>4. \A i \in 1 .. NumPages : f[i - 1] \in S /\ f[i] = Step(f[i - 1], i - 1)
    <2> TAKE i \in 1 .. NumPages
    <2>1. i - 1 \in 0 .. NumPages - 1 /\ i - 1 \in 0 .. NumPages
      BY <1>2
    <2> QED BY <1>3, <2>1 DEF Runs
  <1>5. f = [n \in 0 .. NumPages |-> IF n = 0 THEN NoPage ELSE Step(f[n - 1], n - 1)]
    <2> HIDE DEF Step
    <2> QED BY <1>2, <1>3, <1>4 DEF Runs
  <1>6. scan = [n \in 0 .. NumPages |-> IF n = 0 THEN NoPage ELSE Step(scan[n - 1], n - 1)]
    <2> HIDE DEF Step, F
    <2> QED BY <1>5
  <1>7. FIFO_Choose_Victim(table, notMe) = scan[NumPages]
    BY DEF FIFO_Choose_Victim, Loop
  <1> DEFINE T == {n \in 0 .. NumPages : IsOldest(table, Below(D, n), scan[n])}
  <1> HIDE DEF scan
  <1>8. D \in SUBSET Page /\ \A v \in Page : v \in D <=> Candidate(table, notMe, v)
    BY DEF Candidates
  <1> HIDE DEF D
  <1>9. 0 \in T
    <2>1. scan[0] = NoPage /\ 0 \in 0 .. NumPages
      BY <1>2, <1>6
    <2> QED BY <1>8, <2>1, BelowEnds DEF IsOldest
  <1>10. ASSUME NEW n \in 0 .. NumPages - 1, n \in T
         PROVE  n + 1 \in T
    <2>1. n + 1 \in 0 .. NumPages /\ n + 1 # 0 /\ (n + 1) - 1 = n /\ n \in Page
      BY <1>2 DEF Page
    <2>2. scan[n + 1] = Step(scan[n], n)
      BY <1>6, <2>1
    <2>3. IsOldest(table, Below(D, n), scan[n])
      BY <1>10
    <2>4. IsOldest(table, Below(D, n + 1),
                   IF n \in D /\ (scan[n] = NoPage \/ table[n].load_time < table[scan[n]].load_time)
                   THEN n ELSE scan[n])
      BY <1>8, <2>1, <2>3, OldestStep
    <2> QED BY <1>8, <2>1, <2>2, <2>4
  <1>11. NumPages \in T
    <2> HIDE DEF T
    <2>1. \A n \in 0 .. NumPages - 1 : n \in T => n + 1 \in T
      BY <1>10
    <2>2. 0 .. NumPages \subseteq T
      BY <1>2, <1>9, <2>1, SetInduction, Zenon
    <2> QED BY <1>2, <2>2
  <1> QED BY <1>7, <1>8, <1>11, BelowEnds DEF D

\* LRU prefers v to w.
LessUsed(table, v, w) ==
    \/ table[v].history < table[w].history
    \/ table[v].history = table[w].history /\ table[v].load_time < table[w].load_time

\* w is the page of C that LRU prefers, or there is none.
IsLeastUsed(table, C, w) ==
    IF C = {} THEN w = NoPage
    ELSE /\ w \in C
         /\ \A v \in C : \/ LessUsed(table, w, v)
                         \/ /\ table[w].history = table[v].history
                            /\ table[w].load_time = table[v].load_time /\ w <= v

LEMMA LeastUsedStep ==
    ASSUME NEW table \in Tables, NEW D \in SUBSET Page, NEW n \in Page, NEW w,
           IsLeastUsed(table, Below(D, n), w)
    PROVE  IsLeastUsed(table, Below(D, n + 1),
                    IF n \in D /\ (w = NoPage \/ LessUsed(table, n, w))
                    THEN n ELSE w)
  <1> DEFINE A == Below(D, n)
             B == Below(D, n + 1)
  <1>1. n \in Nat /\ \A v \in D : v \in Nat /\ v # NoPage /\ table[v].load_time \in Nat
                                /\ table[v].history \in Nat
    BY LoadTimes
  <1>2. B = A \cup ({n} \cap D) /\ \A v \in A : v < n /\ v \in D
    BY BelowGrows
  <1>3. IsLeastUsed(table, A, w)
    OBVIOUS
  <1> HIDE DEF A, B
  <1>4. CASE n \notin D
    <2>1. B = A
      BY <1>2, <1>4
    <2> QED BY <1>3, <1>4, <2>1 DEF B
  <1>5. CASE n \in D /\ A = {}
    <2>1. B = {n} /\ w = NoPage
      BY <1>2, <1>3, <1>5 DEF IsLeastUsed
    <2>2. IsLeastUsed(table, B, n)
      BY <1>1, <2>1 DEF IsLeastUsed
    <2> QED BY <1>5, <2>1, <2>2 DEF B
  <1>6. CASE n \in D /\ A # {}
    <2>1. w \in A /\ w # NoPage
      BY <1>1, <1>2, <1>3, <1>6 DEF IsLeastUsed
    <2>2. B = A \cup {n}
      BY <1>2, <1>6
    <2>3. CASE LessUsed(table, n, w)
      <3>1. \A v \in A : \/ LessUsed(table, w, v)
                         \/ /\ table[w].history = table[v].history
                            /\ table[w].load_time = table[v].load_time /\ w <= v
        BY <1>3, <1>6 DEF IsLeastUsed
      <3>2. w \in D /\ n \in D
        BY <1>2, <1>6, <2>1
      <3>3. \A v \in A : LessUsed(table, n, v)
        <4> TAKE v \in A
        <4>1. /\ table[v].load_time \in Nat /\ table[v].history \in Nat
              /\ table[w].load_time \in Nat /\ table[w].history \in Nat
              /\ table[n].load_time \in Nat /\ table[n].history \in Nat
          BY <1>1, <1>2, <3>2
        <4>2. \/ LessUsed(table, w, v)
              \/ /\ table[w].history = table[v].history
                 /\ table[w].load_time = table[v].load_time
          BY <3>1
        <4> QED BY ONLY <2>3, <4>1, <4>2 DEF LessUsed
      <3>4. IsLeastUsed(table, B, n)
        BY <1>1, <1>6, <2>2, <3>3 DEF IsLeastUsed
      <3> QED BY <1>6, <2>3, <3>4 DEF B
    <2>4. CASE ~(LessUsed(table, n, w))
      <3>1. \A v \in A : \/ LessUsed(table, w, v)
                         \/ /\ table[w].history = table[v].history
                            /\ table[w].load_time = table[v].load_time /\ w <= v
        BY <1>3, <1>6 DEF IsLeastUsed
      <3>2. w < n /\ w \in D
        BY <1>2, <2>1
      <3>3. \/ LessUsed(table, w, n)
            \/ /\ table[w].history = table[n].history
               /\ table[w].load_time = table[n].load_time /\ w <= n
        BY <1>1, <1>6, <2>4, <3>2 DEF LessUsed
      <3>4. IsLeastUsed(table, B, w)
        BY <2>1, <2>2, <3>1, <3>3 DEF IsLeastUsed
      <3> QED BY <1>6, <2>1, <2>4, <3>4 DEF B
    <2> QED BY <2>3, <2>4
  <1> QED BY <1>4, <1>5, <1>6

\* LRU's loop finds the oldest of the candidates with the smallest history.
LEMMA LruFindsLeastUsed ==
    ASSUME NEW table \in Tables, NEW notMe
    PROVE  IsLeastUsed(table, Candidates(table, notMe), LRU_Choose_Victim(table, notMe))
  <1> DEFINE S == Page \cup {NoPage}
             D == Candidates(table, notMe)
             Step(victim, v) ==
                IF Candidate(table, notMe, v) /\ (victim = NoPage \/ LessUsed(table, v, victim))
                THEN v ELSE victim
             F == [v \in 0 .. NumPages - 1 |-> [x \in S |-> Step(x, v)]]
             scan[n \in 0 .. NumPages] == IF n = 0 THEN NoPage ELSE Step(scan[n - 1], n - 1)
  <1>1. F \in [0 .. NumPages - 1 -> [S -> S]]
    BY DEF Page
  <1>2. NumPages \in Nat /\ NoPage \in S
    BY ReplacementAssumption
  <1>3. PICK f \in [0 .. NumPages -> S] : Runs(f, F, NoPage, NumPages)
    <2> HIDE DEF F, S
    <2> QED BY <1>1, <1>2, LoopRuns, Zenon
  <1>4. \A i \in 1 .. NumPages : f[i - 1] \in S /\ f[i] = Step(f[i - 1], i - 1)
    <2> TAKE i \in 1 .. NumPages
    <2>1. i - 1 \in 0 .. NumPages - 1 /\ i - 1 \in 0 .. NumPages
      BY <1>2
    <2> QED BY <1>3, <2>1 DEF Runs
  <1>5. f = [n \in 0 .. NumPages |-> IF n = 0 THEN NoPage ELSE Step(f[n - 1], n - 1)]
    <2> HIDE DEF Step
    <2> QED BY <1>2, <1>3, <1>4 DEF Runs
  <1>6. scan = [n \in 0 .. NumPages |-> IF n = 0 THEN NoPage ELSE Step(scan[n - 1], n - 1)]
    <2> HIDE DEF Step, F
    <2> QED BY <1>5
  <1>7. LRU_Choose_Victim(table, notMe) = scan[NumPages]
    BY DEF LRU_Choose_Victim, Loop, LessUsed
  <1> DEFINE T == {n \in 0 .. NumPages : IsLeastUsed(table, Below(D, n), scan[n])}
  <1> HIDE DEF scan
  <1>8. D \in SUBSET Page /\ \A v \in Page : v \in D <=> Candidate(table, notMe, v)
    BY DEF Candidates
  <1> HIDE DEF D
  <1>9. 0 \in T
    <2>1. scan[0] = NoPage /\ 0 \in 0 .. NumPages
      BY <1>2, <1>6
    <2> QED BY <1>8, <2>1, BelowEnds DEF IsLeastUsed
  <1>10. ASSUME NEW n \in 0 .. NumPages - 1, n \in T
         PROVE  n + 1 \in T
    <2>1. n + 1 \in 0 .. NumPages /\ n + 1 # 0 /\ (n + 1) - 1 = n /\ n \in Page
      BY <1>2 DEF Page
    <2>2. scan[n + 1] = Step(scan[n], n)
      BY <1>6, <2>1
    <2>3. IsLeastUsed(table, Below(D, n), scan[n])
      BY <1>10
    <2>4. IsLeastUsed(table, Below(D, n + 1),
                   IF n \in D /\ (scan[n] = NoPage \/ LessUsed(table, n, scan[n]))
                   THEN n ELSE scan[n])
      BY <1>8, <2>1, <2>3, LeastUsedStep
    <2> QED BY <1>8, <2>1, <2>2, <2>4
  <1>11. NumPages \in T
    <2> HIDE DEF T
    <2>1. \A n \in 0 .. NumPages - 1 : n \in T => n + 1 \in T
      BY <1>10
    <2>2. 0 .. NumPages \subseteq T
      BY <1>2, <1>9, <2>1, SetInduction, Zenon
    <2> QED BY <1>2, <2>2
  <1> QED BY <1>7, <1>8, <1>11, BelowEnds DEF D

\* The candidates second chance takes for class k.
OfKind(table, notMe, k) ==
    {v \in Page : /\ Candidate(table, notMe, v)
                  /\ table[v].use <=> k \in {2, 3}
                  /\ table[v].dirty <=> k \in {1, 3}}

\* What holds of the choices of second chance among the pages before n: the
\* last two are those of their kinds only when the better kinds have no page.
ChoicesSound(table, notMe, choice, n) ==
    LET D(k) == Below(OfKind(table, notMe, k), n)
    IN  /\ IsOldest(table, D(0), choice[0])
        /\ IsOldest(table, D(1), choice[1])
        /\ D(0) = {} /\ D(1) = {} => IsOldest(table, D(2), choice[2])
        /\ D(0) = {} /\ D(1) = {} /\ D(2) = {} => IsOldest(table, D(3), choice[3])

\* One step of the loop of SC_Choices.
SC_Step(table, notMe, choice, v) ==
    LET Older(n) == choice[n] = NoPage \/ table[v].load_time < table[choice[n]].load_time
        n == CASE ~table[v].use /\ ~table[v].dirty /\ Older(0) -> 0
               [] ~table[v].use /\ table[v].dirty /\ Older(1) -> 1
               [] OTHER -> IF ~table[v].dirty /\ Older(2) THEN 2 ELSE 3
    IN  IF Candidate(table, notMe, v) /\ Older(n)
        THEN [choice EXCEPT ![n] = v] ELSE choice

LEMMA ChoiceStep ==
    ASSUME NEW table \in Tables, NEW notMe, NEW n \in Page,
           NEW choice \in [0 .. 3 -> Page \cup {NoPage}],
           ChoicesSound(table, notMe, choice, n)
    PROVE  /\ SC_Step(table, notMe, choice, n) \in [0 .. 3 -> Page \cup {NoPage}]
           /\ ChoicesSound(table, notMe, SC_Step(table, notMe, choice, n), n + 1)
  <1> DEFINE D(k) == OfKind(table, notMe, k)
             Older(k) == choice[k] = NoPage \/ table[n].load_time < table[choice[k]].load_time
             c == SC_Step(table, notMe, choice, n)
  <1>1. c \in [0 .. 3 -> Page \cup {NoPage}]
    BY DEF SC_Step
  <1>2. /\ n \in D(0) => ~table[n].use /\ ~table[n].dirty
        /\ n \in D(1) => ~table[n].use /\ table[n].dirty
        /\ n \in D(2) => table[n].use /\ ~table[n].dirty
        /\ n \in D(3) => table[n].use /\ table[n].dirty
    BY DEF OfKind
  <1>3. \A k \in 0 .. 3 : n \in D(k) => Candidate(table, notMe, n)
    BY DEF OfKind
  <1>4. Candidate(table, notMe, n) => \E k \in 0 .. 3 : n \in D(k)
    <2>1. table[n].use \in BOOLEAN /\ table[n].dirty \in BOOLEAN
      BY DEF Tables, Entry
    <2> SUFFICES ASSUME Candidate(table, notMe, n) PROVE n \in D(0) \cup D(1) \cup D(2) \cup D(3)
      OBVIOUS
    <2> QED BY <2>1 DEF OfKind
  <1>5. c[0] = IF n \in D(0) /\ Older(0) THEN n ELSE choice[0]
    BY <1>2, <1>3, <1>4 DEF SC_Step
  <1>6. c[1] = IF n \in D(1) /\ Older(1) THEN n ELSE choice[1]
    BY <1>2, <1>3, <1>4 DEF SC_Step
  <1>7. n \notin D(0) /\ n \notin D(1) => c[2] = IF n \in D(2) /\ Older(2) THEN n ELSE choice[2]
    BY <1>2, <1>3, <1>4 DEF SC_Step
  <1>8. n \notin D(0) /\ n \notin D(1) /\ n \notin D(2)
            => c[3] = IF n \in D(3) /\ Older(3) THEN n ELSE choice[3]
    BY <1>2, <1>3, <1>4 DEF SC_Step
  <1>9. \A k \in 0 .. 3 : D(k) \in SUBSET Page
    BY DEF OfKind
  <1>10. \A k \in 0 .. 3 : Below(D(k), n + 1) = Below(D(k), n) \cup ({n} \cap D(k))
    BY <1>9, BelowGrows
  <1>11. ASSUME NEW k \in 0 .. 3, IsOldest(table, Below(D(k), n), choice[k])
         PROVE  IsOldest(table, Below(D(k), n + 1),
                         IF n \in D(k) /\ Older(k) THEN n ELSE choice[k])
    <2>1. D(k) \in SUBSET Page
      BY <1>9
    <2> HIDE DEF D
    <2> QED BY <1>11, <2>1, OldestStep
  <1>12. \A k \in 0 .. 3 : Below(D(k), n + 1) = {} => n \notin D(k) /\ Below(D(k), n) = {}
    BY <1>10
  <1>13. /\ IsOldest(table, Below(D(0), n), choice[0])
         /\ IsOldest(table, Below(D(1), n), choice[1])
         /\ Below(D(0), n) = {} /\ Below(D(1), n) = {} => IsOldest(table, Below(D(2), n), choice[2])
         /\ Below(D(0), n) = {} /\ Below(D(1), n) = {} /\ Below(D(2), n) = {}
                => IsOldest(table, Below(D(3), n), choice[3])
    BY DEF ChoicesSound
  <1> HIDE DEF c, D, Older
  <1>14. IsOldest(table, Below(D(0), n + 1), c[0])
    BY <1>5, <1>11, <1>13
  <1>15. IsOldest(table, Below(D(1), n + 1), c[1])
    BY <1>6, <1>11, <1>13
  <1>16. ASSUME Below(D(0), n + 1) = {}, Below(D(1), n + 1) = {}
         PROVE  IsOldest(table, Below(D(2), n + 1), c[2])
    BY <1>7, <1>11, <1>12, <1>13, <1>16
  <1>17. ASSUME Below(D(0), n + 1) = {}, Below(D(1), n + 1) = {}, Below(D(2), n + 1) = {}
         PROVE  IsOldest(table, Below(D(3), n + 1), c[3])
    BY <1>8, <1>11, <1>12, <1>13, <1>17
  <1>18. ChoicesSound(table, notMe, c, n + 1)
    BY <1>14, <1>15, <1>16, <1>17 DEF ChoicesSound, D
  <1> QED BY <1>1, <1>18 DEF c

LEMMA ChoicesAreSound ==
    ASSUME NEW table \in Tables, NEW notMe
    PROVE  /\ SC_Choices(table, notMe) \in [0 .. 3 -> Page \cup {NoPage}]
           /\ ChoicesSound(table, notMe, SC_Choices(table, notMe), NumPages)
  <1> DEFINE S == [0 .. 3 -> Page \cup {NoPage}]
             none == [n \in 0 .. 3 |-> NoPage]
             F == [v \in 0 .. NumPages - 1 |-> [x \in S |-> SC_Step(table, notMe, x, v)]]
             scan[n \in 0 .. NumPages] ==
                IF n = 0 THEN none ELSE SC_Step(table, notMe, scan[n - 1], n - 1)
  <1>1. F \in [0 .. NumPages - 1 -> [S -> S]]
    <2>1. \A v \in 0 .. NumPages - 1, x \in S : SC_Step(table, notMe, x, v) \in S
      BY DEF SC_Step, Page
    <2> HIDE DEF S
    <2> QED BY <2>1
  <1>2. NumPages \in Nat /\ none \in S
    BY ReplacementAssumption
  <1>3. PICK f \in [0 .. NumPages -> S] : Runs(f, F, none, NumPages)
    <2> HIDE DEF F, S, none
    <2> QED BY <1>1, <1>2, LoopRuns, Zenon
  <1>4. \A i \in 1 .. NumPages :
            f[i - 1] \in S /\ f[i] = SC_Step(table, notMe, f[i - 1], i - 1)
    <2> TAKE i \in 1 .. NumPages
    <2>1. i - 1 \in 0 .. NumPages - 1 /\ i - 1 \in 0 .. NumPages
      BY <1>2
    <2> HIDE DEF S, none
    <2> QED BY <1>3, <2>1 DEF Runs
  <1>5. f = [n \in 0 .. NumPages |->
               IF n = 0 THEN none ELSE SC_Step(table, notMe, f[n - 1], n - 1)]
    <2> HIDE DEF S, none
    <2> QED BY <1>2, <1>3, <1>4 DEF Runs
  <1>6. scan = [n \in 0 .. NumPages |->
                  IF n = 0 THEN none ELSE SC_Step(table, notMe, scan[n - 1], n - 1)]
    <2> HIDE DEF F, S, none
    <2> QED BY <1>5
  <1>7. SC_Choices(table, notMe) = scan[NumPages]
    BY DEF SC_Choices, Loop, SC_Step
  <1> DEFINE T == {n \in 0 .. NumPages : scan[n] \in S /\ ChoicesSound(table, notMe, scan[n], n)}
  <1> HIDE DEF scan
  <1>8. \A k \in 0 .. 3 : OfKind(table, notMe, k) \in SUBSET Page
    BY DEF OfKind
  <1>9. 0 \in T
    <2>1. scan[0] = none /\ 0 \in 0 .. NumPages
      BY <1>2, <1>6
    <2>2. \A k \in 0 .. 3 : Below(OfKind(table, notMe, k), 0) = {} /\ none[k] = NoPage
      BY <1>8, BelowEnds
    <2>3. ChoicesSound(table, notMe, none, 0)
      <3> HIDE DEF none
      <3> QED BY <2>2 DEF ChoicesSound, IsOldest
    <2> QED BY <1>2, <2>1, <2>3
  <1>10. ASSUME NEW n \in 0 .. NumPages - 1, n \in T
         PROVE  n + 1 \in T
    <2>1. n + 1 \in 0 .. NumPages /\ n + 1 # 0 /\ (n + 1) - 1 = n /\ n \in Page
      BY <1>2 DEF Page
    <2> HIDE DEF none
    <2>2. scan[n + 1] = SC_Step(table, notMe, scan[n], n)
      BY <1>6, <2>1
    <2>3. scan[n] \in S /\ ChoicesSound(table, notMe, scan[n], n)
      BY <1>10
    <2>4. /\ SC_Step(table, notMe, scan[n], n) \in S
          /\ ChoicesSound(table, notMe, SC_Step(table, notMe, scan[n], n), n + 1)
      BY <2>1, <2>3, ChoiceStep
    <2> QED BY <2>1, <2>2, <2>4
  <1>11. NumPages \in T
    <2> HIDE DEF T
    <2>1. \A n \in 0 .. NumPages - 1 : n \in T => n + 1 \in T
      BY <1>10
    <2>2. 0 .. NumPages \subseteq T
      BY <1>2, <1>9, <2>1, SetInduction, Zenon
    <2> QED BY <1>2, <2>2
  <1> QED BY <1>7, <1>11

\* Second chance takes the oldest page of the first kind that has one.
LEMMA ScFindsOldestOfBest ==
    ASSUME NEW table \in Tables, NEW notMe
    PROVE  /\ \A k \in 0 .. 3 :
                 (/\ OfKind(table, notMe, k) # {}
                  /\ \A j \in 0 .. 3 : j < k => OfKind(table, notMe, j) = {})
                    => IsOldest(table, OfKind(table, notMe, k), SC_Choose_Victim(table, notMe))
           /\ (\A k \in 0 .. 3 : OfKind(table, notMe, k) = {})
                    => SC_Choose_Victim(table, notMe) = NoPage
  <1> DEFINE D(k) == OfKind(table, notMe, k)
             c == SC_Choices(table, notMe)
             found == {n \in 0 .. 3 : c[n] # NoPage}
  <1>1. \A k \in 0 .. 3 : D(k) \in SUBSET Page /\ Below(D(k), NumPages) = D(k)
    BY BelowEnds DEF OfKind
  <1>2. /\ IsOldest(table, D(0), c[0])
        /\ IsOldest(table, D(1), c[1])
        /\ D(0) = {} /\ D(1) = {} => IsOldest(table, D(2), c[2])
        /\ D(0) = {} /\ D(1) = {} /\ D(2) = {} => IsOldest(table, D(3), c[3])
    BY <1>1, ChoicesAreSound DEF ChoicesSound
  <1>3. SC_Choose_Victim(table, notMe) = IF found = {} THEN NoPage ELSE c[Min(found)]
    BY DEF SC_Choose_Victim
  <1>4. found \in SUBSET Nat /\ found \subseteq 0 .. 3
    OBVIOUS
  <1>5. found # {} => Min(found) \in found /\ \A n \in found : Min(found) <= n
    <2> HIDE DEF found
    <2> QED BY <1>4, MinOfNaturals
  <1>6. \A v \in Page : v # NoPage
    BY LoadTimes
  <1> HIDE DEF D, c
  <1>7. ASSUME NEW k \in 0 .. 3, D(k) # {}, \A j \in 0 .. 3 : j < k => D(j) = {}
        PROVE  IsOldest(table, D(k), SC_Choose_Victim(table, notMe))
    <2>1. \A j \in 0 .. 3 : j <= k => IsOldest(table, D(j), c[j])
      BY <1>2, <1>7
    <2>2. c[k] # NoPage /\ \A j \in 0 .. 3 : j < k => c[j] = NoPage
      <3>1. c[k] \in D(k)
        BY <1>7, <2>1 DEF IsOldest
      <3> QED BY <1>1, <1>6, <1>7, <2>1, <3>1 DEF IsOldest
    <2>3. k \in found /\ \A j \in found : k <= j
      BY <2>2
    <2> HIDE DEF found
    <2>4. Min(found) = k
      <3>1. PICK m : m = Min(found)
        OBVIOUS
      <3>2. m \in Nat /\ m <= k /\ k <= m
        BY <1>4, <1>5, <2>3, <3>1
      <3> QED BY ONLY <3>1, <3>2, k \in 0 .. 3
    <2> QED BY <1>3, <2>1, <2>3, <2>4
  <1>8. ASSUME \A k \in 0 .. 3 : D(k) = {}
        PROVE  SC_Choose_Victim(table, notMe) = NoPage
    <2>1. \A k \in 0 .. 3 : c[k] = NoPage
      BY <1>2, <1>8 DEF IsOldest
    <2> QED BY <1>3, <2>1
  <1> QED BY <1>7, <1>8 DEF D

-----------------------------------------------------------------------------
(* The references of the policies *)

\* Numbers of pages, as sets the least element of which is asked for.
LEMMA LeastOfPages ==
    ASSUME NEW S \in SUBSET Page, S # {}, NEW h \in [Page -> Nat]
    PROVE  /\ Min({h[v] : v \in S}) \in Nat
           /\ \E v \in S : h[v] = Min({h[u] : u \in S})
           /\ \A v \in S : Min({h[u] : u \in S}) <= h[v]
  <1> DEFINE T == {h[v] : v \in S}
  <1>1. T \in SUBSET Nat /\ T # {}
    OBVIOUS
  <1>2. Min(T) \in T /\ \A y \in T : Min(T) <= y
    <2> HIDE DEF T
    <2> QED BY <1>1, MinOfNaturals
  <1> QED BY <1>1, <1>2

LEMMA OldestIsUnique ==
    ASSUME pageTable \in Tables, NEW S \in SUBSET Page, S # {}, NEW w,
           IsOldest(pageTable, S, w)
    PROVE  Oldest(S) = w
  <1> DEFINE h == [v \in Page |-> pageTable[v].load_time]
  <1>1. PICK t : t = Min({pageTable[v].load_time : v \in S})
    OBVIOUS
  <1>2. h \in [Page -> Nat] /\ \A v \in Page : h[v] = pageTable[v].load_time
    BY LoadTimes
  <1>3. {pageTable[v].load_time : v \in S} = {h[v] : v \in S}
    OBVIOUS
  <1> HIDE DEF h
  <1>4. /\ t \in Nat /\ \E v \in S : h[v] = t
        /\ \A v \in S : t <= h[v]
    BY <1>1, <1>2, <1>3, LeastOfPages
  <1>5. w \in S /\ w \in Page
    BY DEF IsOldest
  <1>6. \A v \in S : h[w] < h[v] \/ (h[w] = h[v] /\ w <= v)
    BY <1>2, <1>5 DEF IsOldest
  <1>7. h[w] = t
    BY <1>2, <1>4, <1>5, <1>6
  <1> DEFINE U == {v \in S : pageTable[v].load_time = t}
  <1>8. w \in U /\ \A v \in U : v \in Nat /\ w <= v
    BY <1>2, <1>5, <1>6, <1>7, LoadTimes
  <1>9. U \in SUBSET Nat /\ U # {}
    BY <1>8
  <1>10. Oldest(S) = Min(U)
    BY <1>1 DEF Oldest
  <1> HIDE DEF U
  <1>11. Min(U) \in U /\ \A y \in U : Min(U) <= y
    BY <1>9, MinOfNaturals
  <1>12. PICK m : m = Min(U)
    OBVIOUS
  <1>13. m \in Nat /\ w \in Nat /\ m <= w /\ w <= m
    BY <1>8, <1>9, <1>11, <1>12
  <1>14. m = w
    BY ONLY <1>13
  <1> QED BY <1>10, <1>12, <1>14

\* What LRU prefers is the oldest of the pages with the smallest history.
LEMMA LeastUsedIsOldest ==
    ASSUME pageTable \in Tables, NEW C \in SUBSET Page, C # {}, NEW w,
           IsLeastUsed(pageTable, C, w)
    PROVE  /\ w \in C /\ \A v \in C : pageTable[w].history <= pageTable[v].history
           /\ Oldest({v \in C : pageTable[v].history = Min({pageTable[u].history : u \in C})}) = w
  <1> DEFINE h == [v \in Page |-> pageTable[v].history]
  <1>1. PICK t : t = Min({pageTable[v].history : v \in C})
    OBVIOUS
  <1>2. h \in [Page -> Nat] /\ \A v \in Page : h[v] = pageTable[v].history
    BY LoadTimes
  <1>3. {pageTable[v].history : v \in C} = {h[v] : v \in C}
    OBVIOUS
  <1> HIDE DEF h
  <1>4. /\ t \in Nat /\ \E v \in C : h[v] = t
        /\ \A v \in C : t <= h[v]
    BY <1>1, <1>2, <1>3, LeastOfPages
  <1>5. w \in C /\ w \in Page
    BY DEF IsLeastUsed
  <1>6. \A v \in C : \/ h[w] < h[v]
                     \/ /\ h[w] = h[v]
                        /\ \/ pageTable[w].load_time < pageTable[v].load_time
                           \/ pageTable[w].load_time = pageTable[v].load_time /\ w <= v
    BY <1>2, <1>5 DEF IsLeastUsed, LessUsed
  <1>7. h[w] = t
    BY <1>2, <1>4, <1>5, <1>6
  <1> DEFINE U == {v \in C : pageTable[v].history = t}
  <1>8. U \in SUBSET Page /\ w \in U
    BY <1>2, <1>5, <1>7
  <1>9. IsOldest(pageTable, U, w)
    BY <1>2, <1>6, <1>7, <1>8 DEF IsOldest
  <1>10. Oldest(U) = w
    <2> HIDE DEF U
    <2> QED BY <1>8, <1>9, OldestIsUnique
  <1>11. \A v \in C : pageTable[w].history <= pageTable[v].history
    BY <1>2, <1>4, <1>5, <1>7
  <1> QED BY <1>1, <1>5, <1>10, <1>11

\* The pages of the best kind are those second chance finds the oldest of.
LEMMA ScTakesBestKind ==
    ASSUME pageTable \in Tables, NEW notMe, NEW C, C = Candidates(pageTable, notMe), C # {}
    PROVE  /\ SC_Choose_Victim(pageTable, notMe) \in C
           /\ Oldest({v \in C : Kind(v) = Min({Kind(u) : u \in C})})
                = SC_Choose_Victim(pageTable, notMe)
  <1> DEFINE h == [v \in Page |-> Kind(v)]
             D(k) == OfKind(pageTable, notMe, k)
             w == SC_Choose_Victim(pageTable, notMe)
  <1>1. PICK k : k = Min({Kind(v) : v \in C})
    OBVIOUS
  <1>2. C \in SUBSET Page /\ \A v \in Page : v \in C <=> Candidate(pageTable, notMe, v)
    BY DEF Candidates
  <1>3. \A v \in Page : pageTable[v].use \in BOOLEAN /\ pageTable[v].dirty \in BOOLEAN
    BY DEF Tables, Entry
  <1>4. /\ \A v \in Page : Kind(v) \in 0 .. 3
        /\ \A v \in Page : Kind(v) \in {2, 3} <=> pageTable[v].use
        /\ \A v \in Page : Kind(v) \in {1, 3} <=> pageTable[v].dirty
    BY <1>3 DEF Kind
  <1>5. h \in [Page -> Nat] /\ \A v \in Page : h[v] = Kind(v)
    BY <1>4
  <1>6. {Kind(v) : v \in C} = {h[v] : v \in C}
    BY <1>2
  <1> HIDE DEF h
  <1>7. /\ \E v \in C : Kind(v) = k
        /\ \A v \in C : k <= Kind(v)
    <2>1. k = Min({h[v] : v \in C})
      BY <1>1, <1>6, Zenon
    <2>2. C \in SUBSET Page /\ C # {}
      BY <1>2
    <2>3. /\ \E v \in C : h[v] = k
          /\ \A v \in C : k <= h[v]
      BY <1>5, <2>1, <2>2, LeastOfPages
    <2> QED BY <1>5, <2>2, <2>3
  <1>8. k \in 0 .. 3
    BY <1>2, <1>4, <1>7
  <1>9. \A j \in 0 .. 3 : D(j) = {v \in C : Kind(v) = j}
    <2> SUFFICES ASSUME NEW j \in 0 .. 3, NEW v \in Page, v \in C
                 PROVE  Kind(v) = j <=> (pageTable[v].use <=> j \in {2, 3})
                                        /\ (pageTable[v].dirty <=> j \in {1, 3})
      BY <1>2 DEF OfKind
    <2> QED BY <1>4
  <1>10. D(k) # {} /\ D(k) \in SUBSET Page /\ \A j \in 0 .. 3 : j < k => D(j) = {}
    BY <1>2, <1>7, <1>8, <1>9
  <1>11. IsOldest(pageTable, D(k), w)
    BY <1>8, <1>10, ScFindsOldestOfBest
  <1>12. Oldest(D(k)) = w
    <2> HIDE DEF D, w
    <2> QED BY <1>10, <1>11, OldestIsUnique
  <1>13. w \in D(k)
    BY <1>10, <1>11 DEF IsOldest
  <1>14. D(k) = {v \in C : Kind(v) = Min({Kind(u) : u \in C})}
    BY <1>1, <1>8, <1>9
  <1> HIDE DEF D, w
  <1> QED BY <1>9, <1>10, <1>12, <1>13, <1>14 DEF w

LEMMA VictimsMatch ==
    ASSUME pageTable \in Tables
    PROVE  VictimsMatchReference
  <1> SUFFICES ASSUME NEW notMe \in Page \cup {NoPage}, Candidates(pageTable, notMe) # {}
               PROVE  LET C == Candidates(pageTable, notMe)
                      IN  /\ FIFO_Choose_Victim(pageTable, notMe) = Oldest(C)
                          /\ LRU_Choose_Victim(pageTable, notMe)
                               = Oldest({v \in C : pageTable[v].history
                                                    = Min({pageTable[u].history : u \in C})})
                          /\ SC_Choose_Victim(pageTable, notMe)
                               = Oldest({v \in C : Kind(v) = Min({Kind(u) : u \in C})})
    BY DEF VictimsMatchReference, Candidates
  <1> DEFINE C == Candidates(pageTable, notMe)
  <1>1. C \in SUBSET Page /\ C # {}
    BY DEF Candidates
  <1>2. IsOldest(pageTable, C, FIFO_Choose_Victim(pageTable, notMe))
    BY FifoFindsOldest
  <1>3. IsLeastUsed(pageTable, C, LRU_Choose_Victim(pageTable, notMe))
    BY LruFindsLeastUsed
  <1>4. C = Candidates(pageTable, notMe)
    OBVIOUS
  <1> HIDE DEF C
  <1>5. FIFO_Choose_Victim(pageTable, notMe) = Oldest(C)
    BY <1>1, <1>2, OldestIsUnique
  <1>6. LRU_Choose_Victim(pageTable, notMe)
            = Oldest({v \in C : pageTable[v].history = Min({pageTable[u].history : u \in C})})
    BY <1>1, <1>3, LeastUsedIsOldest
  <1>7. SC_Choose_Victim(pageTable, notMe)
            = Oldest({v \in C : Kind(v) = Min({Kind(u) : u \in C})})
    <2>1. Oldest({v \in C : Kind(v) = Min({Kind(u) : u \in C})})
             = SC_Choose_Victim(pageTable, notMe)
      BY <1>1, <1>4, ScTakesBestKind
    <2> QED BY <2>1
  <1> QED BY <1>5, <1>6, <1>7 DEF C

-----------------------------------------------------------------------------
(* What the operations do to the tables *)

Resident(table) == {v \in Page : table[v].valid}

SameHistory(t, u) == \A v \in Page : t[v].history = u[v].history

\* A victim is found if there is a candidate, and is one.
LEMMA VictimsAreCandidates ==
    ASSUME NEW table \in Tables, NEW notMe,
           NEW w \in {FIFO_Choose_Victim(table, notMe), LRU_Choose_Victim(table, notMe),
                      SC_Choose_Victim(table, notMe)}
    PROVE  IF Candidates(table, notMe) = {} THEN w = NoPage ELSE w \in Candidates(table, notMe)
  <1>1. CASE w = FIFO_Choose_Victim(table, notMe)
    BY <1>1, FifoFindsOldest DEF IsOldest
  <1>2. CASE w = LRU_Choose_Victim(table, notMe)
    BY <1>2, LruFindsLeastUsed DEF IsLeastUsed
  <1>3. CASE w = SC_Choose_Victim(table, notMe)
    <2> DEFINE D(k) == OfKind(table, notMe, k)
               C == Candidates(table, notMe)
    <2>1. \A k \in 0 .. 3 : D(k) \subseteq C
      BY DEF OfKind, Candidates
    <2>2. \A v \in C : \E k \in 0 .. 3 : v \in D(k)
      <3> TAKE v \in C
      <3>1. /\ v \in Page /\ Candidate(table, notMe, v)
            /\ table[v].use \in BOOLEAN /\ table[v].dirty \in BOOLEAN
        BY DEF Candidates, Tables, Entry
      <3>2. v \in D(0) \/ v \in D(1) \/ v \in D(2) \/ v \in D(3)
        BY <3>1 DEF OfKind
      <3> HIDE DEF D
      <3> QED BY <3>2
    <2>3. /\ \A k \in 0 .. 3 :
                (D(k) # {} /\ \A j \in 0 .. 3 : j < k => D(j) = {}) => IsOldest(table, D(k), w)
          /\ (\A k \in 0 .. 3 : D(k) = {}) => w = NoPage
      BY <1>3, ScFindsOldestOfBest
    <2> HIDE DEF D
    <2>4. CASE C = {}
      <3>1. \A k \in 0 .. 3 : D(k) = {}
        BY <2>1, <2>4
      <3> QED BY <2>3, <2>4, <3>1
    <2>5. CASE C # {}
      <3> DEFINE K == {k \in 0 .. 3 : D(k) # {}}
      <3>1. K \in SUBSET Nat /\ K # {} /\ K \subseteq 0 .. 3
        BY <2>2, <2>5
      <3>2. PICK k \in K : \A j \in K : k <= j
        <4> HIDE DEF K
        <4> QED BY <3>1, LeastElement
      <3>3. k \in 0 .. 3 /\ D(k) # {}
        BY <3>2
      <3>4. \A j \in 0 .. 3 : j < k => D(j) = {}
        <4> SUFFICES ASSUME NEW j \in 0 .. 3, j < k, D(j) # {} PROVE FALSE
          OBVIOUS
        <4>1. k <= j
          BY <3>2
        <4> QED BY <3>3, <4>1
      <3>5. w \in D(k)
        BY <2>3, <3>3, <3>4 DEF IsOldest
      <3>6. w \in C
        BY <2>1, <3>3, <3>5
      <3> QED BY <2>5, <3>6
    <2> QED BY <2>4, <2>5
  <1> QED BY <1>1, <1>2, <1>3

LEMMA PageoutKeeps ==
    ASSUME NEW table \in Tables, NEW w \in Page \cup {NoPage}
    PROVE  /\ pageout(table, w) \in Tables
           /\ SameHistory(pageout(table, w), table)
           /\ Resident(pageout(table, w)) = Resident(table) \ {w}
  <1>1. CASE w = NoPage
    <2>1. \A v \in Page : v # NoPage
      BY LoadTimes
    <2> QED BY <1>1, <2>1 DEF pageout, SameHistory, Resident
  <1>2. CASE w # NoPage
    <2>1. w \in Page /\ pageout(table, w) = [table EXCEPT ![w].valid = FALSE]
      BY <1>2 DEF pageout
    <2>2. pageout(table, w) \in Tables
      BY <2>1 DEF Tables, Entry
    <2>3. SameHistory(pageout(table, w), table)
      BY <2>1 DEF Tables, Entry, SameHistory
    <2>4. \A v \in Page : pageout(table, w)[v].valid <=> table[v].valid /\ v # w
      BY <2>1 DEF Tables, Entry
    <2>5. Resident(pageout(table, w)) = Resident(table) \ {w}
      BY <2>4 DEF Resident
    <2> QED BY <2>2, <2>3, <2>5
  <1> QED BY <1>1, <1>2

LEMMA ClearedKeeps ==
    ASSUME NEW table \in Tables, NEW notMe
    PROVE  /\ SC_Cleared(table, notMe) \in Tables
           /\ SameHistory(SC_Cleared(table, notMe), table)
           /\ Resident(SC_Cleared(table, notMe)) = Resident(table)
  BY DEF SC_Cleared, Tables, Entry, SameHistory, Resident

\* A local policy takes one page of the process away, if it has a candidate.
LEMMA EvictOwnKeeps ==
    ASSUME pageReplPolicy \in Policies, pageReplPolicy # "DUMB",
           NEW table \in Tables, NEW notMe
    PROVE  /\ EvictOwn(table, notMe) \in Tables
           /\ SameHistory(EvictOwn(table, notMe), table)
           /\ \E w \in Page \cup {NoPage} :
                 /\ Resident(EvictOwn(table, notMe)) = Resident(table) \ {w}
                 /\ Candidates(table, notMe) # {} => w \in Candidates(table, notMe)
  <1>1. Candidates(table, notMe) \in SUBSET Page
    BY DEF Candidates
  <1>2. ASSUME NEW w \in {FIFO_Choose_Victim(table, notMe), LRU_Choose_Victim(table, notMe),
                          SC_Choose_Victim(table, notMe)}
        PROVE  /\ w \in Page \cup {NoPage}
               /\ Candidates(table, notMe) # {} => w \in Candidates(table, notMe)
    BY <1>1, <1>2, VictimsAreCandidates
  <1>3. CASE pageReplPolicy = "FIFO"
    <2>1. PICK w : w = FIFO_Choose_Victim(table, notMe)
      OBVIOUS
    <2>2. EvictOwn(table, notMe) = pageout(table, w)
      BY <1>3, <2>1 DEF EvictOwn
    <2> QED BY <1>2, <2>1, <2>2, PageoutKeeps
  <1>4. CASE pageReplPolicy = "LRU"
    <2>1. PICK w : w = LRU_Choose_Victim(table, notMe)
      OBVIOUS
    <2>2. EvictOwn(table, notMe) = pageout(table, w)
      BY <1>4, <2>1 DEF EvictOwn
    <2> QED BY <1>2, <2>1, <2>2, PageoutKeeps
  <1>5. CASE pageReplPolicy = "SECONDCHANCE"
    <2>1. PICK w : w = SC_Choose_Victim(table, notMe)
      OBVIOUS
    <2>2. PICK t : t = SC_Cleared(table, notMe)
      OBVIOUS
    <2>3. EvictOwn(table, notMe) = pageout(t, w)
      BY <1>5, <2>1, <2>2 DEF EvictOwn
    <2>4. t \in Tables /\ SameHistory(t, table) /\ Resident(t) = Resident(table)
      BY <2>2, ClearedKeeps
    <2>5. /\ w \in Page \cup {NoPage}
          /\ Candidates(table, notMe) # {} => w \in Candidates(table, notMe)
      BY <1>2, <2>1
    <2>6. /\ pageout(t, w) \in Tables /\ SameHistory(pageout(t, w), t)
          /\ Resident(pageout(t, w)) = Resident(t) \ {w}
      BY <2>4, <2>5, PageoutKeeps
    <2>7. SameHistory(pageout(t, w), table)
      BY <2>4, <2>6 DEF SameHistory
    <2> QED BY <2>3, <2>4, <2>5, <2>6, <2>7
  <1> QED BY <1>3, <1>4, <1>5 DEF Policies

LEMMA TakeFrameKeeps ==
    ASSUME pageReplPolicy \in Policies, NEW table \in Tables, NEW size, NEW notMe,
           NEW t \in TakeFrame(table, size, notMe)
    PROVE  t \in Tables /\ SameHistory(t, table)
  <1>1. CASE t = table
    BY <1>1 DEF SameHistory
  <1>2. CASE pageReplPolicy # "DUMB" /\ t = EvictOwn(table, notMe)
    BY <1>2, EvictOwnKeeps
  <1>3. CASE \E v \in Page : t = pageout(table, v)
    BY <1>3, PageoutKeeps
  <1>4. \/ t = table \/ (pageReplPolicy # "DUMB" /\ t = EvictOwn(table, notMe))
        \/ \E v \in Page : t = pageout(table, v)
    BY DEF TakeFrame
  <1> QED BY <1>1, <1>2, <1>3, <1>4

LEMMA LoadKeeps ==
    ASSUME NEW t \in Tables, NEW v \in Page, NEW now \in Nat
    PROVE  /\ Load(t, v, now) \in Tables /\ SameHistory(Load(t, v, now), t)
           /\ Resident(Load(t, v, now)) = Resident(t) \cup {v}
  <1>1. PICK e : e = [t[v] EXCEPT !.valid = TRUE, !.use = FALSE, !.dirty = FALSE,
                                  !.load_time = now]
    OBVIOUS
  <1>2. t[v] \in Entry
    BY DEF Tables
  <1>3. e \in Entry /\ e.history = t[v].history /\ e.valid
    BY <1>1, <1>2 DEF Entry
  <1>4. Load(t, v, now) = [t EXCEPT ![v] = e]
    BY <1>1, <1>2 DEF Load, Tables, Entry
  <1>5. /\ [t EXCEPT ![v] = e] \in Tables /\ [t EXCEPT ![v] = e][v] = e
        /\ \A u \in Page : u # v => [t EXCEPT ![v] = e][u] = t[u]
    BY <1>3 DEF Tables
  <1>6. SameHistory(Load(t, v, now), t)
    BY <1>3, <1>4, <1>5 DEF SameHistory
  <1>7. Resident(Load(t, v, now)) = Resident(t) \cup {v}
    BY <1>3, <1>4, <1>5 DEF Resident
  <1> QED BY <1>4, <1>5, <1>6, <1>7

\* The powers of two that matter to the history.
LEMMA TopBits ==
    /\ HistoryBits \in Nat /\ HistoryBits >= 1
    /\ TopBit \in Nat /\ TopBit >= 1 /\ 2 ^ HistoryBits \in Nat /\ 2 ^ HistoryBits = 2 * TopBit
  <1>1. PICK m \in Nat : m = HistoryBits - 1
    BY ReplacementAssumption
  <1>2. HistoryBits \in Nat /\ HistoryBits = m + 1 /\ HistoryBits >= 1
    BY <1>1, ReplacementAssumption
  <1>3. 2 ^ (m + 1) = 2 * 2 ^ m
    BY PowerDoubles
  <1>4. TopBit = 2 ^ m /\ 2 ^ HistoryBits = 2 * TopBit
    BY <1>1, <1>2, <1>3, Zenon DEF TopBit
  <1>5. 2 ^ m \in Nat /\ 2 ^ HistoryBits \in Nat
    BY <1>2, PowerCounts, Zenon
  <1>6. 2 ^ 0 <= 2 ^ m
    <2>1. 0 \in Nat /\ 0 <= m
      OBVIOUS
    <2> QED BY <2>1, PowersGrow, Zenon
  <1>7. 1 <= TopBit
    BY <1>4, <1>6, PowerOfZero, Zenon
  <1>8. TopBit \in Nat /\ 2 ^ HistoryBits \in Nat
    BY <1>4, <1>5, Zenon
  <1>9. PICK q : q = TopBit
    OBVIOUS
  <1>10. q \in Nat /\ 1 <= q
    BY <1>7, <1>8, <1>9, Zenon
  <1>11. q >= 1
    BY ONLY <1>10
  <1>12. TopBit >= 1
    BY <1>9, <1>11, Zenon
  <1> QED BY <1>2, <1>4, <1>8, <1>12, Zenon

LEMMA TouchKeeps ==
    ASSUME NEW t \in Tables, NEW v \in Page, NEW writing \in BOOLEAN
    PROVE  /\ Touch(t, v, writing) \in Tables
           /\ Touch(t, v, writing)[v].history >= TopBit
           /\ \A u \in Page : u # v => Touch(t, v, writing)[u].history = t[u].history
  <1>1. PICK p : p = 2 ^ HistoryBits
    OBVIOUS
  <1>2. PICK q : q = TopBit
    OBVIOUS
  <1>3. p \in Nat /\ q \in Nat /\ p = 2 * q
    BY <1>1, <1>2, TopBits, Zenon
  <1>4. t[v] \in Entry /\ t[v].history \in 0 .. p - 1 /\ t[v].dirty \in BOOLEAN
    BY <1>1 DEF Tables, Entry
  <1>5. PICK h : h = IF t[v].history >= q THEN t[v].history ELSE t[v].history + q
    OBVIOUS
  <1>6. h \in 0 .. p - 1 /\ h >= q
    BY <1>3, <1>4, <1>5
  <1>7. Touch(t, v, writing) = [t EXCEPT ![v] = [t[v] EXCEPT !.use = TRUE,
                                   !.dirty = t[v].dirty \/ writing, !.history = h]]
    BY <1>2, <1>5 DEF Touch, Tables, Entry
  <1>8. [t[v] EXCEPT !.use = TRUE, !.dirty = t[v].dirty \/ writing, !.history = h] \in Entry
    BY <1>1, <1>4, <1>6 DEF Entry
  <1>9. [t[v] EXCEPT !.use = TRUE, !.dirty = t[v].dirty \/ writing, !.history = h].history = h
    BY <1>4 DEF Entry
  <1>10. PICK e : e = [t[v] EXCEPT !.use = TRUE, !.dirty = t[v].dirty \/ writing, !.history = h]
    OBVIOUS
  <1>11. Touch(t, v, writing) = [t EXCEPT ![v] = e] /\ e \in Entry /\ e.history = h
    BY <1>7, <1>8, <1>9, <1>10
  <1> QED BY ONLY <1>2, <1>6, <1>11, t \in Tables, v \in Page DEF Tables

LEMMA CopiedKeeps ==
    ASSUME NEW t \in Tables, NEW v \in Page
    PROVE  /\ Copied(t, v) \in Tables
           /\ \A u \in Page : u # v => Copied(t, v)[u].history = t[u].history
  <1>1. PICK p : p = 2 ^ HistoryBits
    OBVIOUS
  <1>2. 0 \in 0 .. p - 1
    BY <1>1, TopBits
  <1>3. PICK e : e = [t[v] EXCEPT !.use = FALSE, !.load_time = 0, !.history = 0]
    OBVIOUS
  <1>4. t[v] \in Entry
    BY DEF Tables
  <1>5. e \in Entry
    BY <1>1, <1>2, <1>3, <1>4 DEF Entry
  <1>6. Copied(t, v) = [t EXCEPT ![v] = e]
    BY <1>3, <1>4 DEF Copied, Tables, Entry
  <1>7. /\ [t EXCEPT ![v] = e] \in Tables
        /\ \A u \in Page : u # v => [t EXCEPT ![v] = e][u] = t[u]
    BY <1>5 DEF Tables
  <1> QED BY <1>6, <1>7

\* The contraction of refreshWss.
LEMMA ContractKeeps ==
    ASSUME pageReplPolicy \in Policies, NEW table \in Tables, NEW size,
           NEW t \in Contract(table, size)
    PROVE  t \in Tables /\ SameHistory(t, table)
  <1> DEFINE few == ~wssContractionEnabled \/ ~TooManyFrames(table, size)
  <1>1. CASE few
    <2>1. t = table
      BY <1>1 DEF Contract
    <2> QED BY <2>1 DEF SameHistory
  <1>2. CASE ~few /\ pageReplPolicy = "DUMB"
    <2>1. PICK kept : t = [v \in Page |-> [table[v] EXCEPT !.valid = v \in kept]]
      BY <1>2 DEF Contract
    <2>2. ASSUME NEW v \in Page
          PROVE  t[v] \in Entry /\ t[v].history = table[v].history
      <3>1. PICK b \in BOOLEAN : b <=> v \in kept
        OBVIOUS
      <3>2. t[v] = [table[v] EXCEPT !.valid = v \in kept] /\ table[v] \in Entry
        BY <2>1 DEF Tables
      <3>3. (v \in kept) = b
        BY <3>1
      <3>4. t[v] = [table[v] EXCEPT !.valid = b]
        BY <3>2, <3>3
      <3> QED BY <3>2, <3>4 DEF Entry
    <2>3. t \in Tables
      BY <2>1, <2>2 DEF Tables
    <2> QED BY <2>2, <2>3 DEF SameHistory
  <1>3. CASE ~few /\ pageReplPolicy # "DUMB"
    <2> DEFINE S == {u \in Tables : SameHistory(u, table)}
               Step(u, i) == IF TooManyFrames(u, size) THEN EvictOwn(u, NoPage) ELSE u
               F == [v \in 0 .. NumPages - 1 |-> [u \in S |-> Step(u, v)]]
               scan[n \in 0 .. NumPages] ==
                  IF n = 0 THEN table ELSE Step(scan[n - 1], n - 1)
    <2>1. F \in [0 .. NumPages - 1 -> [S -> S]]
      <3>1. ASSUME NEW u \in S
            PROVE  EvictOwn(u, NoPage) \in S
        <4>1. u \in Tables /\ SameHistory(u, table)
          OBVIOUS
        <4>2. EvictOwn(u, NoPage) \in Tables /\ SameHistory(EvictOwn(u, NoPage), u)
          BY <1>3, <4>1, EvictOwnKeeps
        <4>3. SameHistory(EvictOwn(u, NoPage), table)
          BY <4>1, <4>2 DEF SameHistory
        <4> QED BY <4>2, <4>3
      <3>2. \A u \in S, i \in 0 .. NumPages - 1 : Step(u, i) \in S
        <4> HIDE DEF S
        <4> QED BY <3>1
      <3> HIDE DEF S, Step
      <3> QED BY <3>2
    <2>2. NumPages \in Nat /\ table \in S
      BY ReplacementAssumption DEF SameHistory
    <2>3. PICK f \in [0 .. NumPages -> S] : Runs(f, F, table, NumPages)
      <3> HIDE DEF F, S
      <3> QED BY <2>1, <2>2, LoopRuns, Zenon
    <2>4. \A i \in 1 .. NumPages : f[i - 1] \in S /\ f[i] = Step(f[i - 1], i - 1)
      <3> TAKE i \in 1 .. NumPages
      <3>1. i - 1 \in 0 .. NumPages - 1 /\ i - 1 \in 0 .. NumPages
        BY <2>2
      <3> HIDE DEF S
      <3> QED BY <2>3, <3>1 DEF Runs
    <2>5. f = [n \in 0 .. NumPages |-> IF n = 0 THEN table ELSE Step(f[n - 1], n - 1)]
      <3> HIDE DEF Step, S
      <3> QED BY <2>2, <2>3, <2>4 DEF Runs
    <2>6. scan = [n \in 0 .. NumPages |-> IF n = 0 THEN table ELSE Step(scan[n - 1], n - 1)]
      <3> HIDE DEF Step, F, S
      <3> QED BY <2>5
    <2>7. t = scan[NumPages]
      BY <1>3 DEF Contract, Loop
    <2> DEFINE T == {n \in 0 .. NumPages : scan[n] \in S}
    <2> HIDE DEF scan
    <2>8. 0 \in T
      <3>1. 0 \in 0 .. NumPages
        BY <2>2
      <3> HIDE DEF S, Step
      <3> QED BY <2>2, <2>6, <3>1
    <2>9. ASSUME NEW n \in 0 .. NumPages - 1, n \in T
          PROVE  n + 1 \in T
      <3>1. n + 1 \in 0 .. NumPages /\ n + 1 # 0 /\ (n + 1) - 1 = n
        BY <2>2
      <3>2. scan[n] \in S
        BY <2>9
      <3> HIDE DEF S
      <3>3. scan[n + 1] = Step(scan[n], n)
        <4> HIDE DEF Step
        <4> QED BY <2>6, <3>1
      <3>4. Step(scan[n], n) \in S
        BY <2>1, <3>2
      <3> QED BY <3>1, <3>3, <3>4
    <2>10. NumPages \in T
      <3> HIDE DEF T
      <3>1. \A n \in 0 .. NumPages - 1 : n \in T => n + 1 \in T
        BY <2>9
      <3>2. 0 .. NumPages \subseteq T
        BY <2>2, <2>8, <3>1, SetInduction, Zenon
      <3> QED BY <2>2, <3>2
    <2> QED BY <2>7, <2>10
  <1> QED BY <1>1, <1>2, <1>3

\* Sliding the window: a history counts for a window of n intervals exactly if
\* it counted for one of n - 1, and for none of length 1.
LEMMA SlideKeeps ==
    ASSUME NEW t \in Tables
    PROVE  /\ Slide(t) \in Tables
           /\ \A v \in Page : ~InWindow(Slide(t)[v], 1)
           /\ \A v \in Page, n \in 2 .. HistoryBits :
                 InWindow(Slide(t)[v], n) <=> InWindow(t[v], n - 1)
  <1>1. PICK p : p = 2 ^ HistoryBits
    OBVIOUS
  <1>2. PICK q : q = TopBit
    OBVIOUS
  <1>3. p \in Nat /\ q \in Nat /\ p = 2 * q
    BY <1>1, <1>2, TopBits, Zenon
  <1>4. ASSUME NEW v \in Page
        PROVE  /\ Slide(t)[v] \in Entry /\ t[v].history \in 0 .. p - 1
               /\ Slide(t)[v].history = t[v].history \div 2
    <2>1. t[v] \in Entry /\ t[v].history \in 0 .. p - 1
      BY <1>1 DEF Tables, Entry
    <2>2. t[v].history \div 2 \in 0 .. p - 1
      BY <1>3, <2>1
    <2>3. Slide(t)[v] = [t[v] EXCEPT !.history = t[v].history \div 2]
      BY DEF Slide
    <2> QED BY <1>1, <2>1, <2>2, <2>3 DEF Entry
  <1>5. Slide(t) \in Tables
    BY <1>4 DEF Slide, Tables
  <1>6. ASSUME NEW v \in Page
        PROVE  ~InWindow(Slide(t)[v], 1)
    <2>1. InWindow(Slide(t)[v], 1) <=> t[v].history \div 2 >= q
      BY <1>2, <1>4 DEF InWindow, TopBit
    <2>2. ~(t[v].history \div 2 >= q)
      BY <1>3, <1>4
    <2> QED BY <2>1, <2>2
  <1>7. ASSUME NEW v \in Page, NEW n \in 2 .. HistoryBits
        PROVE  InWindow(Slide(t)[v], n) <=> InWindow(t[v], n - 1)
    <2>1. PICK m : m = HistoryBits - n
      OBVIOUS
    <2>2. m \in Nat /\ HistoryBits - (n - 1) = m + 1
      BY <2>1, TopBits
    <2>3. PICK r : r = 2 ^ m
      OBVIOUS
    <2>4. r \in Nat /\ 2 ^ (m + 1) = 2 * r
      BY <2>2, <2>3, PowerCounts, PowerDoubles, Zenon
    <2>5. InWindow(t[v], n - 1) <=> t[v].history >= 2 * r
      BY <2>2, <2>4 DEF InWindow
    <2>6. InWindow(Slide(t)[v], n) <=> t[v].history \div 2 >= r
      BY <1>4, <2>1, <2>3 DEF InWindow
    <2>7. PICK h : h = t[v].history
      OBVIOUS
    <2>8. h \in Nat
      BY <1>3, <1>4, <2>7
    <2>9. h \div 2 >= r <=> h >= 2 * r
      BY ONLY <2>4, <2>8
    <2> QED BY <2>5, <2>6, <2>7, <2>9
  <1> QED BY <1>5, <1>6, <1>7

\* A history of which the top bit is set counts for every window, an empty one
\* for none.
LEMMA WindowsEnd ==
    ASSUME NEW t \in Tables, NEW v \in Page, NEW n \in 1 .. HistoryBits
    PROVE  /\ t[v].history >= TopBit => InWindow(t[v], n)
           /\ t[v].history = 0 => ~InWindow(t[v], n)
  <1>1. PICK m, k : m = HistoryBits - n /\ k = HistoryBits - 1
    OBVIOUS
  <1>2. m \in Nat /\ k \in Nat /\ m <= k /\ 0 \in Nat /\ 0 <= m
    BY <1>1, TopBits
  <1>3. 2 ^ m <= 2 ^ k /\ 2 ^ 0 <= 2 ^ m /\ 2 ^ m \in Nat /\ 2 ^ k \in Nat
    BY <1>2, PowersGrow, PowerCounts, Zenon
  <1>4. PICK r, q : r = 2 ^ m /\ q = TopBit
    OBVIOUS
  <1>5. r <= q /\ 1 <= r /\ r \in Nat /\ q \in Nat
    BY <1>1, <1>3, <1>4, PowerOfZero, Zenon DEF TopBit
  <1>6. InWindow(t[v], n) <=> t[v].history >= r
    BY <1>1, <1>4 DEF InWindow
  <1>7. t[v].history \in Nat
    BY LoadTimes
  <1> QED BY <1>4, <1>5, <1>6, <1>7

-----------------------------------------------------------------------------
(* The invariant *)

IInv == TypeOK /\ HistoryTellsRecency

LEMMA InitSound ==
    Init => IInv
  <1> SUFFICES ASSUME Init PROVE IInv
    OBVIOUS
  <1>1. PICK p : p = 2 ^ HistoryBits
    OBVIOUS
  <1>2. 0 \in 0 .. p - 1
    BY <1>1, TopBits
  <1>3. BlankEntry \in Entry
    BY <1>1, <1>2 DEF BlankEntry, Entry
  <1>4. \A v \in Page : pageTable[v] \in Entry /\ pageTable[v].history = 0
    BY <1>3 DEF Init, BlankEntry, Entry
  <1>5. pageTable \in Tables
    BY <1>4 DEF Init, Tables
  <1>6. TypeOK
    <2>1. /\ MinWss \in MinWss .. MaxWss /\ 0 \in 0 .. RefreshPeriod
          /\ HistoryBits \in 0 .. HistoryBits /\ totalTicks \in Nat
      BY ReplacementAssumption DEF Init
    <2> QED BY <1>5, <2>1 DEF Init, TypeOK, Tables
  <1>7. HistoryTellsRecency
    <2> SUFFICES ASSUME NEW v \in Page, NEW n \in 1 .. HistoryBits
                 PROVE  ~InWindow(pageTable[v], n) /\ ~(lastRef[v] < n)
      BY DEF HistoryTellsRecency
    <2>1. ~InWindow(pageTable[v], n)
      BY <1>4, <1>5, WindowsEnd
    <2>2. lastRef[v] = HistoryBits
      BY DEF Init
    <2> QED BY <2>1, <2>2, TopBits
  <1> QED BY <1>6, <1>7 DEF IInv

\* A step that keeps every history, and what lastRef says, keeps the invariant.
LEMMA HistoryKept ==
    ASSUME IInv, TypeOK', SameHistory(pageTable', pageTable), UNCHANGED lastRef
    PROVE  IInv'
  BY DEF IInv, HistoryTellsRecency, SameHistory, InWindow

LEMMA PageFaultSound ==
    ASSUME IInv, NEW v \in Page, PageFault(v)
    PROVE  IInv'
  <1>1. pageTable \in Tables /\ pageReplPolicy \in Policies /\ TypeOK
    BY DEF IInv, TypeOK, Tables
  <1>2. PICK t \in TakeFrame(pageTable, wSetSize, NoPage) :
            pageTable' = Load(t, v, totalTicks')
    BY DEF PageFault
  <1>3. totalTicks' \in Nat
    BY <1>1 DEF TypeOK, PageFault, Later
  <1>4. t \in Tables /\ SameHistory(t, pageTable)
    BY <1>1, TakeFrameKeeps
  <1>5. pageTable' \in Tables /\ SameHistory(pageTable', t)
    BY <1>2, <1>3, <1>4, LoadKeeps
  <1>6. SameHistory(pageTable', pageTable)
    BY <1>4, <1>5 DEF SameHistory
  <1>7. TypeOK'
    BY <1>1, <1>3, <1>5 DEF TypeOK, PageFault, options, Tables
  <1> QED BY <1>6, <1>7, HistoryKept DEF PageFault

\* A step that references v and leaves every other history alone.
LEMMA ReferenceKept ==
    ASSUME IInv, TypeOK', NEW v \in Page, pageTable'[v].history >= TopBit,
           \A u \in Page : u # v => pageTable'[u].history = pageTable[u].history,
           lastRef' = [lastRef EXCEPT ![v] = 0]
    PROVE  IInv'
  <1>1. pageTable' \in Tables /\ lastRef \in [Page -> 0 .. HistoryBits]
    BY DEF IInv, TypeOK, Tables
  <1>2. ASSUME NEW u \in Page, NEW n \in 1 .. HistoryBits
        PROVE  InWindow(pageTable'[u], n) <=> lastRef'[u] < n
    <2>1. CASE u = v
      <3>1. InWindow(pageTable'[u], n)
        BY <1>1, <2>1, WindowsEnd
      <3>2. lastRef'[u] = 0
        BY <1>1, <2>1
      <3> QED BY <3>1, <3>2
    <2>2. CASE u # v
      <3>1. lastRef'[u] = lastRef[u] /\ pageTable'[u].history = pageTable[u].history
        BY <1>1, <2>2
      <3>2. InWindow(pageTable[u], n) <=> lastRef[u] < n
        BY DEF IInv, HistoryTellsRecency
      <3> QED BY <3>1, <3>2 DEF InWindow
    <2> QED BY <2>1, <2>2
  <1> QED BY <1>2 DEF IInv, HistoryTellsRecency

LEMMA ReferenceSound ==
    ASSUME IInv, NEW v \in Page, NEW writing \in BOOLEAN, Reference(v, writing)
    PROVE  IInv'
  <1>1. pageTable \in Tables /\ TypeOK
    BY DEF IInv, TypeOK, Tables
  <1>2. /\ pageTable' \in Tables /\ pageTable'[v].history >= TopBit
        /\ \A u \in Page : u # v => pageTable'[u].history = pageTable[u].history
    BY <1>1, TouchKeeps DEF Reference
  <1>3. lastRef' \in [Page -> 0 .. HistoryBits]
    BY <1>1, TopBits DEF TypeOK, Reference
  <1>4. TypeOK'
    BY <1>1, <1>2, <1>3 DEF TypeOK, Reference, options, Tables
  <1> QED BY <1>2, <1>4, ReferenceKept DEF Reference

LEMMA CopyOnWriteSound ==
    ASSUME IInv, NEW v \in Page, CopyOnWrite(v)
    PROVE  IInv'
  <1>1. pageTable \in Tables /\ pageReplPolicy \in Policies /\ TypeOK
    BY DEF IInv, TypeOK, Tables
  <1>2. PICK t \in TakeFrame(pageTable, wSetSize, v) :
            pageTable' = Touch(Copied(t, v), v, TRUE)
    BY DEF CopyOnWrite
  <1>3. t \in Tables /\ SameHistory(t, pageTable)
    BY <1>1, TakeFrameKeeps
  <1>4. PICK c : c = Copied(t, v)
    OBVIOUS
  <1>5. c \in Tables /\ \A u \in Page : u # v => c[u].history = t[u].history
    BY <1>3, <1>4, CopiedKeeps
  <1>6. /\ pageTable' \in Tables /\ pageTable'[v].history >= TopBit
        /\ \A u \in Page : u # v => pageTable'[u].history = c[u].history
    BY <1>2, <1>4, <1>5, TouchKeeps
  <1>7. \A u \in Page : u # v => pageTable'[u].history = pageTable[u].history
    BY <1>3, <1>5, <1>6 DEF SameHistory
  <1>8. lastRef' \in [Page -> 0 .. HistoryBits]
    BY <1>1, TopBits DEF TypeOK, CopyOnWrite
  <1>9. TypeOK'
    BY <1>1, <1>6, <1>8 DEF TypeOK, CopyOnWrite, options, Tables
  <1> QED BY <1>6, <1>7, <1>9, ReferenceKept DEF CopyOnWrite

LEMMA OtherEvictsSound ==
    ASSUME IInv, NEW v \in Page, OtherEvicts(v)
    PROVE  IInv'
  <1>1. pageTable \in Tables /\ TypeOK
    BY DEF IInv, TypeOK, Tables
  <1>2. pageTable' \in Tables /\ SameHistory(pageTable', pageTable)
    BY <1>1, PageoutKeeps DEF OtherEvicts
  <1>3. TypeOK'
    BY <1>1, <1>2 DEF TypeOK, OtherEvicts, options, Tables
  <1> QED BY <1>2, <1>3, HistoryKept DEF OtherEvicts

LEMMA OtherLoadsSound ==
    ASSUME IInv, NEW v \in Page, OtherLoads(v)
    PROVE  IInv'
  <1>1. pageTable \in Tables /\ TypeOK
    BY DEF IInv, TypeOK, Tables
  <1>2. totalTicks' \in Nat
    BY <1>1 DEF TypeOK, OtherLoads, Later
  <1>3. pageTable' \in Tables /\ SameHistory(pageTable', pageTable)
    BY <1>1, <1>2, LoadKeeps DEF OtherLoads
  <1>4. TypeOK'
    BY <1>1, <1>2, <1>3 DEF TypeOK, OtherLoads, options, Tables
  <1> QED BY <1>3, <1>4, HistoryKept DEF OtherLoads

LEMMA BecomeChildSound ==
    ASSUME IInv, BecomeChild
    PROVE  IInv'
  <1>1. pageTable \in Tables /\ TypeOK
    BY DEF IInv, TypeOK, Tables
  <1>2. PICK p : p = 2 ^ HistoryBits
    OBVIOUS
  <1>3. 0 \in 0 .. p - 1
    BY <1>2, TopBits
  <1>4. \A v \in Page : pageTable'[v] \in Entry /\ pageTable'[v].history = 0
    BY <1>1, <1>2, <1>3 DEF BecomeChild, Tables, Entry
  <1>5. pageTable' \in Tables
    BY <1>4 DEF BecomeChild, Tables
  <1>6. /\ MinWss \in MinWss .. MaxWss /\ 0 \in 0 .. RefreshPeriod
        /\ HistoryBits \in 0 .. HistoryBits
    BY ReplacementAssumption
  <1>7. TypeOK'
    BY <1>1, <1>5, <1>6 DEF TypeOK, BecomeChild, options, Tables
  <1>8. HistoryTellsRecency'
    <2> SUFFICES ASSUME NEW v \in Page, NEW n \in 1 .. HistoryBits
                 PROVE  ~InWindow(pageTable'[v], n) /\ ~(lastRef'[v] < n)
      BY DEF HistoryTellsRecency
    <2>1. ~InWindow(pageTable'[v], n)
      BY <1>4, <1>5, WindowsEnd
    <2>2. lastRef'[v] = HistoryBits
      BY DEF BecomeChild
    <2> QED BY <2>1, <2>2, TopBits
  <1> QED BY <1>7, <1>8 DEF IInv

LEMMA QuantumSound ==
    ASSUME IInv, Quantum
    PROVE  IInv'
  <1>1. TypeOK'
    BY ReplacementAssumption DEF IInv, TypeOK, Quantum, options
  <1> QED BY <1>1 DEF IInv, HistoryTellsRecency, Quantum

LEMMA refreshWssSound ==
    ASSUME IInv, refreshWss
    PROVE  IInv'
  <1>1. pageTable \in Tables /\ pageReplPolicy \in Policies /\ TypeOK
    BY DEF IInv, TypeOK, Tables
  <1>2. PICK t \in Contract(pageTable, NewSize(pageTable)) : pageTable' = Slide(t)
    BY DEF refreshWss
  <1>3. t \in Tables /\ SameHistory(t, pageTable)
    BY <1>1, ContractKeeps
  <1>4. /\ pageTable' \in Tables
        /\ \A v \in Page : ~InWindow(pageTable'[v], 1)
        /\ \A v \in Page, n \in 2 .. HistoryBits :
              InWindow(pageTable'[v], n) <=> InWindow(t[v], n - 1)
    BY <1>2, <1>3, SlideKeeps
  <1>5. refCount(pageTable) \in Nat
    <2>1. IsFiniteSet(Page)
      BY ReplacementAssumption, FS_Interval DEF Page
    <2>2. {v \in Page : InWindow(pageTable[v], wsDeltaSize)} \in SUBSET Page
      OBVIOUS
    <2> QED BY <2>1, <2>2, FS_Subset, FS_CardinalityType DEF refCount
  <1>6. NewSize(pageTable) \in MinWss .. MaxWss
    BY <1>5, ReplacementAssumption DEF NewSize
  <1>7. ASSUME NEW v \in Page
        PROVE  /\ lastRef[v] \in 0 .. HistoryBits /\ lastRef'[v] \in 0 .. HistoryBits
               /\ lastRef'[v] = IF lastRef[v] < HistoryBits THEN lastRef[v] + 1 ELSE HistoryBits
    <2>1. lastRef[v] \in 0 .. HistoryBits
      BY <1>1 DEF TypeOK
    <2>2. lastRef'[v] = IF lastRef[v] < HistoryBits THEN lastRef[v] + 1 ELSE HistoryBits
      BY DEF refreshWss
    <2> QED BY <2>1, <2>2, TopBits
  <1>8. lastRef' \in [Page -> 0 .. HistoryBits]
    <2>1. lastRef' = [v \in Page |-> IF lastRef[v] < HistoryBits
                                     THEN lastRef[v] + 1 ELSE HistoryBits]
      BY DEF refreshWss
    <2> QED BY <1>7, <2>1
  <1>9. TypeOK'
    <2>1. 0 \in 0 .. RefreshPeriod
      BY ReplacementAssumption
    <2> QED BY <1>1, <1>4, <1>6, <1>8, <2>1 DEF TypeOK, refreshWss, options, Tables
  <1>10. ASSUME NEW v \in Page, NEW n \in 1 .. HistoryBits
         PROVE  InWindow(pageTable'[v], n) <=> lastRef'[v] < n
    <2>1. CASE n = 1
      <3>1. ~(lastRef'[v] < 1)
        BY <1>7, TopBits
      <3> QED BY <1>4, <2>1, <3>1
    <2>2. CASE n # 1
      <3>1. n \in 2 .. HistoryBits /\ n - 1 \in 1 .. HistoryBits
        BY <2>2, TopBits
      <3>2. InWindow(pageTable'[v], n) <=> InWindow(pageTable[v], n - 1)
        BY <1>3, <1>4, <3>1 DEF SameHistory, InWindow
      <3>3. InWindow(pageTable[v], n - 1) <=> lastRef[v] < n - 1
        BY <3>1 DEF IInv, HistoryTellsRecency
      <3>4. lastRef[v] < n - 1 <=> lastRef'[v] < n
        BY <1>7, <3>1, TopBits
      <3> QED BY <3>2, <3>3, <3>4
    <2> QED BY <2>1, <2>2
  <1> QED BY <1>9, <1>10 DEF IInv, HistoryTellsRecency

LEMMA StepSound ==
    IInv /\ [Next]_vars => IInv'
  <1> SUFFICES ASSUME IInv, [Next]_vars PROVE IInv'
    OBVIOUS
  <1>1. CASE Next
    BY <1>1, PageFaultSound, ReferenceSound, CopyOnWriteSound, OtherEvictsSound,
       OtherLoadsSound, BecomeChildSound, QuantumSound, refreshWssSound DEF Next
  <1>2. CASE UNCHANGED vars
    BY <1>2 DEF vars, options, IInv, TypeOK, HistoryTellsRecency
  <1> QED BY <1>1, <1>2

\* LRU's victim has the smallest history, and the smaller of two histories is
\* that of the page referenced longer ago.
LEMMA LruIsLeastRecent ==
    ASSUME IInv
    PROVE  LruEvictsLeastRecent
  <1>1. pageTable \in Tables /\ lastRef \in [Page -> 0 .. HistoryBits]
    BY DEF IInv, TypeOK, Tables
  <1> SUFFICES ASSUME NEW notMe \in Page \cup {NoPage}, NEW v \in Page,
                      Candidate(pageTable, notMe, v)
               PROVE  lastRef[v] <= lastRef[LRU_Choose_Victim(pageTable, notMe)]
    BY DEF LruEvictsLeastRecent
  <1>2. PICK C : C = Candidates(pageTable, notMe)
    OBVIOUS
  <1>3. PICK w : w = LRU_Choose_Victim(pageTable, notMe)
    OBVIOUS
  <1>4. C \in SUBSET Page /\ v \in C
    BY <1>2 DEF Candidates
  <1>5. IsLeastUsed(pageTable, C, w)
    BY <1>1, <1>2, <1>3, LruFindsLeastUsed
  <1>6. w \in C /\ pageTable[w].history <= pageTable[v].history
    BY <1>1, <1>4, <1>5, LeastUsedIsOldest
  <1>7. lastRef[v] <= lastRef[w]
    <2> SUFFICES ASSUME lastRef[w] < lastRef[v] PROVE FALSE
      BY <1>1, <1>4, <1>6
    <2>1. PICK n : n = lastRef[w] + 1
      OBVIOUS
    <2>2. n \in 1 .. HistoryBits /\ lastRef[w] < n /\ ~(lastRef[v] < n)
      BY <1>1, <1>4, <1>6, <2>1, TopBits
    <2>3. InWindow(pageTable[w], n) /\ ~InWindow(pageTable[v], n)
      BY <1>4, <1>6, <2>2 DEF IInv, HistoryTellsRecency
    <2>4. PICK r : r = 2 ^ (HistoryBits - n)
      OBVIOUS
    <2>5. r \in Nat
      <3>1. HistoryBits - n \in Nat
        BY <2>2, TopBits
      <3> QED BY <2>4, <3>1, PowerCounts, Zenon
    <2>6. pageTable[w].history >= r /\ ~(pageTable[v].history >= r)
      BY <2>3, <2>4 DEF InWindow
    <2>7. pageTable[w].history \in Nat /\ pageTable[v].history \in Nat
      BY <1>1, <1>4, <1>6, LoadTimes
    <2> QED BY <1>6, <2>5, <2>6, <2>7
  <1> QED BY <1>3, <1>7

\* A fault under a local policy: with too many pages, one of them is a
\* candidate and makes room.
LEMMA FaultKeepsToWorkingSet ==
    ASSUME IInv, NEW v \in Page, PageFault(v), pageReplPolicy # "DUMB"
    PROVE  \/ Cardinality(Resident(pageTable')) <= Cardinality(Resident(pageTable))
           \/ Cardinality(Resident(pageTable')) <= wSetSize + 1
  <1>1. pageTable \in Tables /\ pageReplPolicy \in Policies /\ wSetSize \in MinWss .. MaxWss
        /\ totalTicks' \in Nat
    BY DEF IInv, TypeOK, Tables, PageFault, Later
  <1>2. PICK t \in TakeFrame(pageTable, wSetSize, NoPage) :
            pageTable' = Load(t, v, totalTicks')
    BY DEF PageFault
  <1>3. t \in Tables
    BY <1>1, TakeFrameKeeps
  <1>4. Resident(pageTable') = Resident(t) \cup {v}
    BY <1>1, <1>2, <1>3, LoadKeeps
  <1> DEFINE R == Resident(pageTable)
  <1>5. IsFiniteSet(R)
    <2>1. IsFiniteSet(Page)
      BY ReplacementAssumption, FS_Interval DEF Page
    <2>2. R \in SUBSET Page
      BY DEF Resident
    <2> HIDE DEF R
    <2> QED BY <2>1, <2>2, FS_Subset
  <1>6. v \notin R
    BY DEF PageFault, Resident
  <1>7. Candidates(pageTable, NoPage) = R
    BY LoadTimes, <1>1 DEF Candidates, Candidate, Resident
  <1>8. TooManyFrames(pageTable, wSetSize) <=> Cardinality(R) > wSetSize
    BY DEF TooManyFrames, Resident
  <1>9. Cardinality(R) \in Nat
    BY <1>5, FS_CardinalityType
  <1>10. CASE Cardinality(R) > wSetSize
    <2>1. t = EvictOwn(pageTable, NoPage)
      BY <1>8, <1>10 DEF TakeFrame
    <2>2. R # {}
      <3>1. Cardinality(R) # 0
        BY <1>1, <1>9, <1>10, ReplacementAssumption
      <3> QED BY <3>1, FS_EmptySet
    <2>3. PICK w \in R : Resident(t) = R \ {w}
      BY <1>1, <1>7, <2>1, <2>2, EvictOwnKeeps
    <2> HIDE DEF R
    <2>4. /\ IsFiniteSet(R \ {w}) /\ Cardinality(R \ {w}) = Cardinality(R) - 1
          /\ v \notin R \ {w}
      BY <1>5, <1>6, FS_RemoveElement
    <2>5. Cardinality((R \ {w}) \cup {v}) = Cardinality(R \ {w}) + 1
      BY <2>4, FS_AddElement
    <2>6. Cardinality(Resident(pageTable')) = Cardinality(R)
      BY <1>4, <1>9, <2>3, <2>4, <2>5
    <2> QED BY <1>9, <2>6 DEF R
  <1>11. CASE ~(Cardinality(R) > wSetSize)
    <2>1. Resident(t) \subseteq R
      <3> QED BY <1>1, <1>8, <1>11, PageoutKeeps DEF TakeFrame
    <2> HIDE DEF R
    <2>2. IsFiniteSet(R \cup {v}) /\ Cardinality(R \cup {v}) = Cardinality(R) + 1
      BY <1>5, <1>6, FS_AddElement
    <2>3. Resident(pageTable') \in SUBSET (R \cup {v})
      BY <1>4, <2>1
    <2>4. Cardinality(Resident(pageTable')) <= Cardinality(R \cup {v})
          /\ IsFiniteSet(Resident(pageTable'))
      BY <2>2, <2>3, FS_Subset
    <2>5. Cardinality(Resident(pageTable')) \in Nat
      BY <2>4, FS_CardinalityType
    <2>6. Cardinality(Resident(pageTable')) <= wSetSize + 1
      BY <1>1, <1>9, <1>11, <2>2, <2>4, <2>5, ReplacementAssumption
    <2> QED BY <2>6
  <1> QED BY <1>10, <1>11

-----------------------------------------------------------------------------
(* Theorems *)

\* Every field keeps its width, and the history its byte: Touch never carries
\* out of it and Slide never leaves it.
THEOREM TypeCorrect ==
    Spec => []TypeOK
  <1>1. Init => IInv
    BY InitSound
  <1>2. IInv /\ [Next]_vars => IInv'
    BY StepSound
  <1>3. IInv => TypeOK
    BY DEF IInv
  <1> QED BY <1>1, <1>2, <1>3, PTL DEF Spec

\* The history that Translate sets, and that faults, copies, forks and
\* refreshWss reset or shift, tells in which interval a page was referenced.
THEOREM HistoryIsRecency ==
    Spec => []HistoryTellsRecency
  <1>1. Init => IInv
    BY InitSound
  <1>2. IInv /\ [Next]_vars => IInv'
    BY StepSound
  <1>3. IInv => HistoryTellsRecency
    BY DEF IInv
  <1> QED BY <1>1, <1>2, <1>3, PTL DEF Spec

\* The loops of FIFO_Choose_Victim, LRU_Choose_Victim and SC_Choose_Victim find
\* the pages their policies name, on every page table a run can reach.
THEOREM VictimsAreTheReferences ==
    Spec => []VictimsMatchReference
  <1>1. Init => IInv
    BY InitSound
  <1>2. IInv /\ [Next]_vars => IInv'
    BY StepSound
  <1>3. IInv => VictimsMatchReference
    BY VictimsMatch DEF IInv, TypeOK, Tables
  <1> QED BY <1>1, <1>2, <1>3, PTL DEF Spec

\* LRU_Choose_Victim gives up no page that was referenced in a later interval
\* than another it could have given up.
THEOREM LruIsLru ==
    Spec => []LruEvictsLeastRecent
  <1>1. Init => IInv
    BY InitSound
  <1>2. IInv /\ [Next]_vars => IInv'
    BY StepSound
  <1>3. IInv => LruEvictsLeastRecent
    BY LruIsLeastRecent
  <1> QED BY <1>1, <1>2, <1>3, PTL DEF Spec

\* PageFaultHandler under a local policy does not let a process grow beyond
\* its working-set size and one page.
THEOREM FaultsKeepToWorkingSet ==
    Spec => FaultRespectsWorkingSet
  <1> DEFINE A == LET Residents(table) == Cardinality({v \in Page : table[v].valid})
                  IN  \A v \in Page : PageFault(v) /\ pageReplPolicy # "DUMB" =>
                          \/ Residents(pageTable') <= Residents(pageTable)
                          \/ Residents(pageTable') <= wSetSize + 1
  <1>1. Init => IInv
    BY InitSound
  <1>2. IInv /\ [Next]_vars => IInv'
    BY StepSound
  <1>3. IInv /\ [Next]_vars => [A]_vars
    BY FaultKeepsToWorkingSet DEF Resident
  <1> QED BY <1>1, <1>2, <1>3, PTL DEF Spec, FaultRespectsWorkingSet

=============================================================================
