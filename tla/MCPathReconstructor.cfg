\* The walk with concurrent guest lookups/forgets, cancellation and I/O
\* errors, two walks in a row.  The walk may end and the guest go idle, so
\* deadlock is not an error.
CONSTANTS
    r = r  a = a  x = x  h = h  b = b
    Nodes <- MCNodes
    Root = r
    Dirs <- MCDirs
    Entries <- MCEntries
    MaxRefs = 1
    MaxWalks = 2
    Faults = TRUE
SPECIFICATION Spec
INVARIANT TypeOK RefsAccounted NoSyntheticLeak CompleteWhenOk 
CHECK_DEADLOCK FALSE
