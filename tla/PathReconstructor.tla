-------------------------- MODULE PathReconstructor --------------------------
(***************************************************************************)
(* The preserialization walk (PathReconstructor::execute, recurse_from and *)
(* discover in passthrough/device_state/preserialization.rs), running      *)
(* concurrently with guest lookups and forgets on the inode store.         *)
(*                                                                         *)
(* The shared directory is a fixed tree given by Entries: the names each   *)
(* directory lists ("." and ".." are skipped by discover and are not       *)
(* modelled).  A file may be listed in two directories (a hard link).  A   *)
(* record of the inode store is a node with a positive reference count rc; *)
(* a strong reference is one unit of rc.  A record's migration_info is     *)
(* annot: "none", "root" (InodeLocation::RootNode) or the parent node of   *)
(* an InodeLocation::Path, which holds a strong reference to that parent.  *)
(* Dropping the last reference evicts the record, which drops its          *)
(* migration_info and with it the reference to the parent (Release: all   *)
(* the records whose count reaches zero, directly or through a child's    *)
(* eviction, go at once).                                                  *)
(* Filenames and file handles are not modelled; every error a `?` in the   *)
(* walk can return is the one nondeterministic WalkFault.                  *)
(***************************************************************************)
EXTENDS Naturals, Sequences, FiniteSets

CONSTANTS
    Nodes,      \* the inodes of the shared directory
    Root,       \* the shared directory itself (fuse::ROOT_ID)
    Dirs,       \* the directories among Nodes
    Entries,    \* Entries[d]: the nodes directory d lists
    MaxRefs,    \* bound on the guest's lookup count of one inode
    MaxWalks,   \* bound on the number of walks started one after the other
    Faults      \* whether I/O and UTF-8 errors are explored

ASSUME TreeAssumption ==
    /\ IsFiniteSet(Nodes)
    /\ Root \in Dirs /\ Dirs \subseteq Nodes
    /\ Entries \in [Dirs -> SUBSET (Nodes \ {Root})]
    /\ \A d \in Dirs \ {Root} : \E p \in Dirs : d \in Entries[p]
    /\ {"none", "root"} \cap Nodes = {}

\* The shared directory is a rooted tree: desc[d] is what lies below d, and
\* every inode lies below the root.
ASSUME ReachAssumption ==
    \E desc \in [Dirs -> SUBSET Nodes] :
        /\ \A d \in Dirs : desc[d] = Entries[d] \cup UNION {desc[c] : c \in Entries[d] \cap Dirs}
        /\ Nodes \ {Root} \subseteq desc[Root]
ASSUME BoundsAssumption == MaxRefs \in Nat \ {0} /\ MaxWalks \in Nat \ {0}
ASSUME FaultsAssumption == Faults \in BOOLEAN

\* A record's migration_info: None, InodeLocation::RootNode, or the parent
\* of an InodeLocation::Path.
Locations == {"none", "root"} \cup Nodes

Terminal == {"ok", "failed", "cancelled"}
PCs == {"execute", "pop", "entries", "insert"} \cup Terminal

VARIABLES
    rc,      \* rc[n]: strong references to n's record; 0 = not in the store
    guest,   \* guest[n]: the guest's lookup count of n
    annot,   \* annot[n]: n's migration_info
    stack,   \* remaining_dirs: strong references still to be visited
    cur,     \* inode_ref, the directory being read (held in "entries"/"insert")
    todo,    \* entries of cur not yet discovered
    pend,    \* the directory discover is about to insert synthetically
    pc,      \* where the walk is
    cancel,  \* the walk's cancel flag
    walks    \* walks started so far

vars == <<rc, guest, annot, stack, cur, todo, pend, pc, cancel, walks>>
walkVars == <<stack, cur, todo, pend, pc, cancel, walks>>

-----------------------------------------------------------------------------
(* Reference counting of the inode store.                                  *)

\* References to drop, as a count per node.
One(n) == [m \in Nodes |-> IF m = n THEN 1 ELSE 0]

\* The counts after dropping D[m] references to each m, when the records E
\* are evicted: each evicted record's Path annotation drops one more
\* reference to its parent.
Remaining(r0, a, D, E) ==
    [m \in Nodes |-> r0[m] - D[m] - Cardinality({c \in E : a[c] = m})]

\* Dropping references D from counts r0 with annotations a (each
\* StrongInodeReference::drop, and the drops the evictions cause): exactly
\* the records whose count reaches zero are evicted, and an evicted record
\* loses its migration_info with it.
Release(r0, a, D) ==
    \E E \in SUBSET Nodes :
        /\ \A m \in Nodes : m \in E <=> r0[m] > 0 /\ Remaining(r0, a, D, E)[m] <= 0
        /\ rc' = Remaining(r0, a, D, E)
        /\ annot' = [m \in Nodes |-> IF m \in E THEN "none" ELSE a[m]]

Occurrences(s, n) == Cardinality({i \in 1..Len(s) : s[i] = n})

\* The references the walk holds, per node: inode_ref while a directory is
\* read, and remaining_dirs.
Held == [m \in Nodes |-> Occurrences(stack, m)
                          + IF pc \in {"entries", "insert"} /\ cur = m THEN 1 ELSE 0]

Push(d) == Append(stack, d)

\* recurse_from returns early: every reference it holds is dropped.
Abort(outcome) ==
    /\ Release(rc, annot, Held)
    /\ stack' = <<>>
    /\ pc' = outcome
    /\ UNCHANGED <<guest, cur, todo, pend, cancel, walks>>

-----------------------------------------------------------------------------
TypeOK ==
    /\ rc \in [Nodes -> Nat]
    /\ guest \in [Nodes -> 0..MaxRefs]
    /\ annot \in [Nodes -> Locations]
    /\ stack \in Seq(Dirs)
    /\ cur \in Dirs /\ pend \in Dirs
    /\ todo \subseteq Nodes
    /\ pc \in PCs
    /\ cancel \in BOOLEAN
    /\ walks \in 1..MaxWalks

\* A fresh process with the guest's lookups in its store and no walk run
\* yet: the root is tracked exactly when the filesystem is mounted.
Init ==
    /\ guest \in {g \in [Nodes -> 0..MaxRefs] :
                    g[Root] <= 1 /\ (g[Root] = 0 => \A n \in Nodes : g[n] = 0)}
    /\ rc = guest
    /\ annot = [n \in Nodes |-> "none"]
    /\ stack = <<>> /\ cur = Root /\ todo = {} /\ pend = Root
    /\ pc = "execute" /\ cancel = FALSE /\ walks = 1

-----------------------------------------------------------------------------
(* The walk.                                                               *)

\* execute: get_strong(ROOT_ID); annotate the root; recurse from it.
execute ==
    /\ pc = "execute"
    /\ \/ /\ rc[Root] = 0
          /\ pc' = "ok"
          /\ UNCHANGED <<rc, annot, stack>>
       \/ /\ rc[Root] > 0
          /\ rc' = [rc EXCEPT ![Root] = @ + 1]
          /\ annot' = [annot EXCEPT ![Root] = "root"]
          /\ stack' = <<Root>>
          /\ pc' = "pop"
    /\ UNCHANGED <<guest, cur, todo, pend, cancel, walks>>

\* while let Some(inode_ref) = remaining_dirs.pop(): the reference moves
\* from the stack to inode_ref; no directory left ends the walk.
Pop ==
    /\ pc = "pop"
    /\ \/ /\ stack = <<>>
          /\ pc' = "ok"
          /\ UNCHANGED <<stack, cur, todo>>
       \/ /\ stack # <<>>
          /\ cur' = stack[Len(stack)]
          /\ stack' = SubSeq(stack, 1, Len(stack) - 1)
          /\ todo' = Entries[stack[Len(stack)]]
          /\ pc' = "entries"
    /\ UNCHANGED <<rc, guest, annot, pend, cancel, walks>>

\* Mutant: inode_ref is never dropped.
EndDir_keep ==
    /\ pc = "entries" /\ todo = {}
    /\ pc' = "pop"
    /\ UNCHANGED <<rc, annot, guest, stack, cur, todo, pend, cancel, walks>>

\* All entries read: inode_ref is dropped at the end of the iteration.
EndDir ==
    /\ pc = "entries" /\ todo = {}
    /\ Release(rc, annot, One(cur))
    /\ pc' = "pop"
    /\ UNCHANGED <<guest, stack, cur, todo, pend, cancel, walks>>

\* The cancel flag, polled before each entry.
CancelWalk(e) ==
    /\ pc = "entries" /\ e \in todo /\ cancel
    /\ Abort("cancelled")

\* claim_inode's reference to e and the clone of cur's for the annotation
\* (two references to cur if a directory lists itself).
ClaimRc(e) == [m \in Nodes |-> rc[m] + One(cur)[m] + One(e)[m]]

ClaimAnnot(e) == [annot EXCEPT ![e] = cur]

\* The parent reference of e's previous Path annotation.
OldParent(e) == [m \in Nodes |-> IF annot[e] = m THEN 1 ELSE 0]

\* Mutant: a claimed non-directory's reference is kept.
discover_claimed_leak(e) ==
    /\ Release(ClaimRc(e), ClaimAnnot(e), OldParent(e))
    /\ stack' = IF e \in Dirs THEN Push(e) ELSE stack

\* discover, claim_inode succeeded: the record gets a Path annotation with a
\* clone of the parent reference (dropping the one it had), and a directory
\* is returned to be pushed; a non-directory's claimed reference is dropped.
discover_claimed(e) ==
    /\ Release(ClaimRc(e), ClaimAnnot(e),
               IF e \in Dirs THEN OldParent(e)
                            ELSE [m \in Nodes |-> OldParent(e)[m] + One(e)[m]])
    /\ stack' = IF e \in Dirs THEN Push(e) ELSE stack

\* discover for entry e of cur.  An unknown directory is inserted in a
\* second step (Insert), so that a guest request can run in between.
discover(e) ==
    /\ pc = "entries" /\ e \in todo /\ ~cancel
    /\ todo' = todo \ {e}
    /\ \/ /\ rc[e] > 0
          /\ discover_claimed(e)
          /\ UNCHANGED <<pend, pc>>
       \/ /\ rc[e] = 0 /\ e \notin Dirs
          /\ UNCHANGED <<rc, annot, stack, pend, pc>>
       \/ /\ rc[e] = 0 /\ e \in Dirs
          /\ pend' = e /\ pc' = "insert"
          /\ UNCHANGED <<rc, annot, stack>>
    /\ UNCHANGED <<guest, cur, cancel, walks>>

\* Mutant: get_or_insert overwrites a record inserted meanwhile.
Insert_always_new ==
    /\ pc = "insert"
    /\ rc' = [rc EXCEPT ![pend] = 1, ![cur] = @ + 1]
    /\ annot' = [annot EXCEPT ![pend] = cur]
    /\ stack' = Push(pend)
    /\ pc' = "entries"
    /\ UNCHANGED <<guest, cur, todo, pend, cancel, walks>>

\* Mutant: the synthetic directory is inserted but not pushed.
Insert_no_push ==
    /\ pc = "insert"
    /\ \/ /\ rc[pend] = 0
          /\ rc' = [rc EXCEPT ![pend] = 1, ![cur] = @ + 1]
          /\ annot' = [annot EXCEPT ![pend] = cur]
       \/ /\ rc[pend] > 0
          /\ rc' = [rc EXCEPT ![pend] = @ + 1]
          /\ UNCHANGED annot
    /\ pc' = "entries"
    /\ UNCHANGED <<guest, stack, cur, todo, pend, cancel, walks>>

\* get_or_insert of the synthetic record (refcount 1, annotated with a clone
\* of the parent reference); if a record for it was inserted meanwhile, that
\* one is returned with one more reference and the new record is dropped.
Insert ==
    /\ pc = "insert"
    /\ \/ /\ rc[pend] = 0
          /\ rc' = [rc EXCEPT ![pend] = 1, ![cur] = @ + 1]
          /\ annot' = [annot EXCEPT ![pend] = cur]
       \/ /\ rc[pend] > 0
          /\ rc' = [rc EXCEPT ![pend] = @ + 1]
          /\ UNCHANGED annot
    /\ stack' = Push(pend)
    /\ pc' = "entries"
    /\ UNCHANGED <<guest, cur, todo, pend, cancel, walks>>

\* Any `?` of the walk: open_file, ReadDir, UTF-8, open_relative_to, statx,
\* file handles, make_file_handle_openable, get_or_insert.
WalkFault ==
    /\ Faults
    /\ pc \in {"pop", "entries", "insert"}
    /\ pc = "pop" => stack # <<>>
    /\ Abort("failed")

\* execute's file handle of the root (migration_verify_handles) fails.
RootFault ==
    /\ Faults /\ pc = "execute" /\ rc[Root] > 0
    /\ pc' = "failed"
    /\ UNCHANGED <<rc, guest, annot, stack, cur, todo, pend, cancel, walks>>

-----------------------------------------------------------------------------
(* The environment.                                                        *)

\* Mutant: a record created by a lookup gets no migration_info.
Lookup_unannotated(n) ==
    /\ guest[n] < MaxRefs
    /\ \E p \in Dirs : n \in Entries[p] /\ guest[p] > 0
    /\ guest' = [guest EXCEPT ![n] = @ + 1]
    /\ rc' = [rc EXCEPT ![n] = @ + 1]
    /\ UNCHANGED annot
    /\ UNCHANGED walkVars

\* A FUSE lookup of n through a directory p the guest holds.  An existing
\* record gets one more reference.  Every state of this model lies in a
\* prepare_serialization phase, so a new record is created with the
\* migration_info of InodeMigrationInfo::new: a Path whose parent is a
\* clone of p's reference; its construction (a file handle under
\* migration_verify_handles) may fail, and the failed lookup changes no
\* state of this model.
Lookup(n) ==
    /\ guest[n] < MaxRefs
    /\ \E p \in Dirs :
          /\ n \in Entries[p] /\ guest[p] > 0
          /\ \/ /\ rc[n] > 0
                /\ rc' = [rc EXCEPT ![n] = @ + 1]
                /\ UNCHANGED annot
             \/ /\ rc[n] = 0
                /\ rc' = [m \in Nodes |-> rc[m] + One(n)[m] + One(p)[m]]
                /\ annot' = [annot EXCEPT ![n] = p]
    /\ guest' = [guest EXCEPT ![n] = @ + 1]
    /\ UNCHANGED walkVars

\* A FUSE forget of n.
Forget(n) ==
    /\ n # Root /\ guest[n] > 0
    /\ guest' = [guest EXCEPT ![n] = @ - 1]
    /\ Release(rc, annot, One(n))
    /\ UNCHANGED walkVars

\* acked_features / set_device_state_fd(LOAD) set the cancel flag.
Cancel ==
    /\ pc \notin Terminal /\ ~cancel
    /\ cancel' = TRUE
    /\ UNCHANGED <<rc, guest, annot, stack, cur, todo, pend, pc, walks>>

\* A new walk with a fresh cancel flag after the last one ended.
Restart ==
    /\ pc \in Terminal /\ walks < MaxWalks
    /\ pc' = "execute" /\ cancel' = FALSE /\ walks' = walks + 1
    /\ UNCHANGED <<rc, guest, annot, stack, cur, todo, pend>>

WalkStep ==
    \/ execute \/ RootFault \/ Pop \/ EndDir \/ Insert \/ WalkFault
    \/ \E e \in Nodes : discover(e) \/ CancelWalk(e)

Next ==
    \/ WalkStep
    \/ \E n \in Nodes : Lookup(n) \/ Forget(n)
    \/ Cancel \/ Restart

Spec == Init /\ [][Next]_vars

-----------------------------------------------------------------------------
(* Properties.                                                             *)

\* Every strong reference is accounted for: a record's count is the guest's
\* lookups, the Path annotations naming it as parent, and the references
\* recurse_from holds (discover's clone/claim/insert bookkeeping).
RefsAccounted ==
    \A n \in Nodes :
        rc[n] = guest[n] + Cardinality({m \in Nodes : rc[m] > 0 /\ annot[m] = n})
                + Held[n]

\* Once a walk has returned, the store holds no record that is neither
\* looked up by the guest nor the parent of an annotated record: the
\* synthetic directories discover inserted and that nothing below them
\* needed are gone again (comment of discover, preserialization.rs).
NoSyntheticLeak ==
    pc \in Terminal =>
        \A n \in Nodes : rc[n] > 0 =>
            guest[n] > 0 \/ \E m \in Nodes : rc[m] > 0 /\ annot[m] = n

\* A walk that returned Ok has annotated every record in the inode store,
\* whatever guest lookups and forgets ran beside it (responsibility of the
\* Path Reconstructor, spec section 4.3; round-trip of section 8).
CompleteWhenOk ==
    pc = "ok" => \A n \in Nodes : rc[n] > 0 => annot[n] # "none"

\* After a walk returned Ok, the parent of every Path annotation is itself
\* annotated, so serialization can build a path for it.
PathComplete ==
    pc = "ok" =>
        \A m \in Nodes : rc[m] > 0 /\ annot[m] \in Nodes => annot[annot[m]] # "none"

=============================================================================
