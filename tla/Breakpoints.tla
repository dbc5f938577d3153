---------------------------- MODULE Breakpoints -----------------------------
(***************************************************************************)
(* The debugger's table of breakpoints (breakpoint.cc): an array of ranges *)
(* of addresses, searched by bisection and kept in order by inserting each *)
(* range where the search for its start ends.  An index i of the array is  *)
(* set[i + 1] here.                                                        *)
(***************************************************************************)
EXTENDS Integers, SequencesExt

Breakpoint(address, length, type) ==
    [start |-> address, end |-> address + length - 1, type |-> type]

Covers(b, address) == b.start <= address /\ address <= b.end

Overlap(b, c) == b.start <= c.end /\ c.start <= b.end

\* The first range that contains address, or the first beyond it: a bisection, and
\* then back over the other ranges that contain it.
findAddr(set, address) ==
    LET n == Len(set)
        At(i) == set[i + 1]
        search[low \in 0 .. n, high \in -1 .. n - 1] ==
            LET mid == (low + high) \div 2
            IN  IF low > high \/ Covers(At(mid), address)
                THEN IF low > high THEN low ELSE mid
                ELSE IF address < At(mid).start THEN search[low, mid - 1]
                ELSE search[mid + 1, high]
        backUp[i \in 0 .. n] ==
            IF i > 0 /\ Covers(At(i - 1), address) THEN backUp[i - 1] ELSE i
    IN  backUp[search[0, n - 1]]

\* Bug: a new range goes to the end of the table.
appendBreakpoint(set, b) == Append(set, b)

addBreakpoint(set, b) == InsertAt(set, findAddr(set, b.start) + 1, b)

\* The loop of removeBreakpoint from index i on: after a removal it goes on behind
\* the range that moved into the gap.
RECURSIVE removeFrom(_, _, _)
removeFrom(set, i, b) ==
    IF i >= Len(set) \/ ~Covers(set[i + 1], b.start) THEN set
    ELSE removeFrom(IF set[i + 1] = b THEN RemoveAt(set, i + 1) ELSE set, i + 1, b)

removeBreakpoint(set, b) == removeFrom(set, findAddr(set, b.start), b)

\* The types of entry that stop an access of the given type.
Stops(type) ==
    CASE type \in {"SoftwareBp", "HardwareBp"} -> {"SoftwareBp", "HardwareBp"}
      [] type = "WriteWp"  -> {"WriteWp", "AccessWp"}
      [] type = "ReadWp"   -> {"ReadWp", "AccessWp"}
      [] type = "AccessWp" -> {"AccessWp"}

\* Bug: the search ends with the first range found.
queryFirst(set, address, length, type) ==
    LET i == findAddr(set, address) + 1
    IN  i <= Len(set) /\ set[i].start <= address + length - 1 /\ set[i].type \in Stops(type)

\* From the first range found on, as long as ranges start within the access.
queryBreakpoint(set, address, length, type) ==
    \E i \in findAddr(set, address) + 1 .. Len(set) :
        /\ \A j \in findAddr(set, address) + 1 .. i : set[j].start <= address + length - 1
        /\ set[i].type \in Stops(type)

-----------------------------------------------------------------------------
(* The tables a debugger can reach, and what they answer *)

\* The table with the breakpoints set and not removed, after at most n commands Z and
\* z about the given ranges.  No range is set that overlaps one in the table; one that
\* is not in the table may be named for removal.
TablesAfter(ranges, n) ==
    LET after[i \in 0 .. n] ==
            IF i = 0 THEN {[set |-> <<>>, inserted |-> {}]}
            ELSE LET before == after[i - 1]
                 IN  before
                     \cup {[set |-> addBreakpoint(t.set, b), inserted |-> t.inserted \cup {b}] :
                               <<t, b>> \in {<<u, c>> \in before \X ranges :
                                                \A d \in u.inserted : ~Overlap(c, d)}}
                     \cup {[set |-> removeBreakpoint(t.set, b), inserted |-> t.inserted \ {b}] :
                               t \in before, b \in ranges}
    IN  after[n]

\* The table answers the accesses as the set of breakpoints would.
AnswersExactly(t, accesses) ==
    \A access \in accesses :
        queryBreakpoint(t.set, access.start, access.end - access.start + 1, access.type) <=>
            \E b \in t.inserted : Overlap(b, access) /\ b.type \in Stops(access.type)

=============================================================================
