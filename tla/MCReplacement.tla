--------------------------- MODULE MCReplacement ---------------------------
EXTENDS Replacement

\* The state up to an order-preserving change of times: the policies compare
\* load times and nothing else, and do not read those of pages not resident.
\* Time 0 is kept apart, since duplicatePage sets it.
MCView ==
    LET Times == {pageTable[v].load_time : v \in {u \in Page : pageTable[u].valid}}
        Rank(t) == Cardinality({u \in Times \ {0} : u < t}) + (IF t = 0 THEN 0 ELSE 1)
    IN  <<options, wSetSize, wssRefreshCounter, lastRef, Rank(totalTicks),
          [v \in Page |-> [pageTable[v] EXCEPT
              !.load_time = IF pageTable[v].valid THEN Rank(@) ELSE 0,
              !.use = @ /\ pageTable[v].valid,
              !.dirty = @ /\ pageTable[v].valid]]>>

=============================================================================
