------------------------------- MODULE Files -------------------------------
(***************************************************************************)
(* What the file system promises: named files of fixed length, each its    *)
(* own sequence of bytes.  A new file holds arbitrary bytes.               *)
(***************************************************************************)
EXTENDS Naturals

CONSTANTS Name, Byte, Sizes

VARIABLE files    \* the contents of each file there is, by name

Contents == UNION {[1 .. n -> Byte] : n \in Sizes}

Init == files = <<>>

Same(names) == \A m \in names : files'[m] = files[m]

Create(name) ==
    /\ name \notin DOMAIN files
    /\ DOMAIN files' = DOMAIN files \cup {name}
    /\ files'[name] \in Contents
    /\ Same(DOMAIN files)

Remove(name) ==
    /\ name \in DOMAIN files
    /\ DOMAIN files' = DOMAIN files \ {name}
    /\ Same(DOMAIN files')

\* Some bytes of one file change, and not its length.
Write(name) ==
    /\ name \in DOMAIN files
    /\ DOMAIN files' = DOMAIN files
    /\ files'[name] \in [DOMAIN files[name] -> Byte]
    /\ Same(DOMAIN files \ {name})

Next == \E name \in Name : Create(name) \/ Remove(name) \/ Write(name)

Spec == Init /\ [][Next]_files

=============================================================================
