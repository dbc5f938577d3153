---------------------------- MODULE MCFileSystem ----------------------------
EXTENDS FileSystem

Symmetry == Permutations(Name)

\* The state without what unused directory entries still hold, which nothing
\* reads but for the name of the entry that can be written by half, and without
\* what free sectors hold, which only shows as the bytes a new file starts with:
\* of those, one case is explored.
MCView ==
    LET Clean(table) == [i \in DOMAIN table |->
            IF table[i].inUse THEN table[i]
            ELSE IF i = SplitEntry THEN [inUse |-> FALSE, name |-> table[i].name]
            ELSE [inUse |-> FALSE]]
        Changing == op.kind \in {"create", "remove"}
        Marked == freeMap \cup UNION {SectorsOf(name) : name \in Names}
                          \cup (IF Changing THEN op.map ELSE {})
    IN  <<freeMap, Clean(directory), [s \in Marked |-> block[s]], FDTable,
          IF Changing THEN [op EXCEPT !.table = Clean(@)] ELSE op, unlinked>>

=============================================================================
