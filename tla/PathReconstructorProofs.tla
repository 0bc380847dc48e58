----------------------- MODULE PathReconstructorProofs -----------------------
(***************************************************************************)
(* Proofs about the preserialization walk (PathReconstructor): the         *)
(* reference accounting of the inode store holds in every reachable state, *)
(* a returned walk leaves no synthetic record behind, and a walk that      *)
(* returned Ok has annotated every record in the store, and the parent of *)
(* every Path annotation.                                                  *)
(***************************************************************************)
EXTENDS PathReconstructor, FiniteSetTheorems, SequenceTheorems, TLAPS

\* The records whose Path annotation holds a reference to n.
Kids(r, a, n) == {m \in Nodes : r[m] > 0 /\ a[m] = n}

\* What lies below each directory (ReachAssumption).
Desc ==
    CHOOSE desc \in [Dirs -> SUBSET Nodes] :
        /\ \A d \in Dirs : desc[d] = Entries[d] \cup UNION {desc[c] : c \in Entries[d] \cap Dirs}
        /\ Nodes \ {Root} \subseteq desc[Root]

\* The nodes S and everything below the directories among them.
Below(S) == S \cup UNION {Desc[d] : d \in S \cap Dirs}

\* The entries of the directories on a stack.
StackEntries(s) == UNION {Entries[s[i]] : i \in 1..Len(s)}

\* The entries the walk has still to discover: cur's remaining entries,
\* those of the directories on the stack, and those of the directory
\* Insert is about to push.
Pending ==
    (IF pc \in {"entries", "insert"} THEN todo ELSE {})
    \cup StackEntries(stack)
    \cup (IF pc = "insert" THEN Entries[pend] ELSE {})

\* Between walks, and before a walk has pushed the root, the stack is empty.
Idle == pc \in Terminal \cup {"execute"} => stack = <<>>

\* The guest holds nothing unless it holds the root: Forget never forgets it.
GuestRooted == guest[Root] = 0 => \A n \in Nodes : guest[n] = 0

\* Evicted records have no migration_info.
Evicted == \A n \in Nodes : rc[n] = 0 => annot[n] = "none"

\* The root never has a Path annotation.
RootUnannotated == annot[Root] \notin Nodes

\* The walk never discovers the root: no directory lists it.
RootNotEntry == Root \notin todo /\ (pc = "insert" => pend # Root)

\* A guest that never looked up the root never looked up anything, and
\* then nothing is in the store.
Dead == guest[Root] = 0 => \A n \in Nodes : rc[n] = 0

\* Once a walk has pushed the root, every record in the store is annotated
\* already or still lies below an entry to discover.
Covered ==
    pc \in {"pop", "entries", "insert", "ok"} =>
        \A n \in Nodes : rc[n] > 0 => annot[n] # "none" \/ n \in Below(Pending)

\* The inductive invariant.
IInv ==
    /\ TypeOK
    /\ RefsAccounted
    /\ Idle
    /\ GuestRooted
    /\ Evicted
    /\ RootUnannotated
    /\ RootNotEntry
    /\ Dead
    /\ Covered

-----------------------------------------------------------------------------
(* Release.                                                                *)

\* The annotations after Release evicts E.
Evict(a, E) == [m \in Nodes |-> IF m \in E THEN "none" ELSE a[m]]

LEMMA KidsFinite ==
    ASSUME NEW r, NEW a, NEW n
    PROVE  IsFiniteSet(Kids(r, a, n)) /\ Cardinality(Kids(r, a, n)) \in Nat
<1>1. IsFiniteSet(Kids(r, a, n))
  BY TreeAssumption, FS_Subset DEF Kids
<1>. QED  BY <1>1, FS_CardinalityType

\* One more Path annotation pointing at q adds one to q's count of kids.
LEMMA KidAdded ==
    ASSUME NEW r, NEW a, NEW q, NEW k, k \notin Kids(r, a, q)
    PROVE  Cardinality(Kids(r, a, q) \cup {k}) = Cardinality(Kids(r, a, q)) + 1
BY KidsFinite, FS_AddElement

\* While any record holds a reference, the guest still holds the root.
LEMMA RootAlive ==
    ASSUME IInv, NEW x \in Nodes, rc[x] > 0
    PROVE  guest[Root] > 0
<1>1. guest[Root] # 0
  BY DEF IInv, Dead
<1>2. guest[Root] \in 0..MaxRefs
  BY TreeAssumption DEF IInv, TypeOK
<1>. QED  BY <1>1, <1>2, BoundsAssumption

\* Release keeps every reference accounted for: if the counts r0 are K plus
\* the Path annotations plus the drops D, then after Release the counts are
\* K plus the Path annotations of the records that remain, the evicted
\* records lose their migration_info and the others keep it.
LEMMA ReleaseAccounts ==
    ASSUME NEW r0 \in [Nodes -> Nat], NEW a \in [Nodes -> Locations],
           NEW D \in [Nodes -> Nat], NEW K \in [Nodes -> Nat],
           \A n \in Nodes : r0[n] = K[n] + Cardinality(Kids(r0, a, n)) + D[n],
           \A n \in Nodes : r0[n] = 0 => a[n] = "none",
           NEW E \in SUBSET Nodes,
           \A m \in Nodes : m \in E <=> r0[m] > 0 /\ Remaining(r0, a, D, E)[m] <= 0
    PROVE  LET r1 == Remaining(r0, a, D, E)
               a1 == Evict(a, E)
           IN  /\ r1 \in [Nodes -> Nat]
               /\ a1 \in [Nodes -> Locations]
               /\ \A n \in Nodes : r1[n] = K[n] + Cardinality(Kids(r1, a1, n))
               /\ \A n \in Nodes : r1[n] = 0 => a1[n] = "none"
               /\ \A n \in Nodes : r1[n] > 0 => a1[n] = a[n]
<1> DEFINE r1 == Remaining(r0, a, D, E)
           a1 == Evict(a, E)
           C(n) == {c \in E : a[c] = n}
<1>1. \A n \in Nodes : IsFiniteSet(C(n)) /\ Cardinality(C(n)) \in Nat
  <2>. SUFFICES ASSUME NEW n \in Nodes PROVE IsFiniteSet(C(n))
    BY FS_CardinalityType
  <2>. QED  BY TreeAssumption, FS_Subset
<1>2. \A m \in Nodes : r1[m] = r0[m] - D[m] - Cardinality(C(m))
  BY DEF Remaining
<1>3. \A n \in Nodes : C(n) = Kids(r0, a, n) \cap E
  BY DEF Kids
<1>4. \A m \in Nodes \ E : r1[m] > 0 <=> r0[m] > 0
  <2>. SUFFICES ASSUME NEW m \in Nodes \ E PROVE r1[m] > 0 <=> r0[m] > 0
    OBVIOUS
  <2>1. ~(r0[m] > 0 /\ r1[m] <= 0)
    OBVIOUS
  <2>2. r1[m] = r0[m] - D[m] - Cardinality(C(m)) /\ Cardinality(C(m)) \in Nat
    BY <1>1, <1>2
  <2>. QED  BY <2>1, <2>2
<1>5. \A n \in Nodes : Kids(r1, a1, n) = Kids(r0, a, n) \ E
  <2>. SUFFICES ASSUME NEW n \in Nodes, NEW m \in Nodes
                PROVE  (r1[m] > 0 /\ a1[m] = n) <=> (m \in Kids(r0, a, n) \ E)
    BY DEF Kids
  <2>1. CASE m \in E
    BY <2>1, TreeAssumption DEF Evict, Kids
  <2>2. CASE m \notin E
    BY <2>2, <1>4 DEF Evict, Kids
  <2>. QED  BY <2>1, <2>2
<1>6. \A n \in Nodes :
        Cardinality(Kids(r1, a1, n))
          = Cardinality(Kids(r0, a, n)) - Cardinality(Kids(r0, a, n) \cap E)
  <2>. SUFFICES ASSUME NEW n \in Nodes
                PROVE  Cardinality(Kids(r0, a, n) \ E)
                         = Cardinality(Kids(r0, a, n)) - Cardinality(Kids(r0, a, n) \cap E)
    BY <1>5
  <2>. QED  BY KidsFinite, FS_Difference
<1>7. \A n \in Nodes : r1[n] = K[n] + Cardinality(Kids(r1, a1, n))
  <2>. SUFFICES ASSUME NEW n \in Nodes PROVE r1[n] = K[n] + Cardinality(Kids(r1, a1, n))
    OBVIOUS
  <2>1. r1[n] = r0[n] - D[n] - Cardinality(Kids(r0, a, n) \cap E)
    BY <1>2, <1>3
  <2>2. r0[n] = K[n] + Cardinality(Kids(r0, a, n)) + D[n]
    OBVIOUS
  <2>3. Cardinality(Kids(r0, a, n) \cap E) \in Nat
    BY <1>1, <1>3
  <2>4. Cardinality(Kids(r1, a1, n))
          = Cardinality(Kids(r0, a, n)) - Cardinality(Kids(r0, a, n) \cap E)
    BY <1>6
  <2>5. Cardinality(Kids(r0, a, n)) \in Nat /\ K[n] \in Nat /\ D[n] \in Nat
    BY KidsFinite
  <2>. QED  BY <2>1, <2>2, <2>3, <2>4, <2>5
<1>8. r1 \in [Nodes -> Nat]
  <2>1. \A n \in Nodes : r1[n] \in Nat
    BY <1>7, KidsFinite
  <2>. QED  BY <2>1 DEF Remaining
<1>9. a1 \in [Nodes -> Locations]
  BY DEF Evict, Locations
<1>10. \A n \in Nodes : r1[n] = 0 => a1[n] = "none"
  BY <1>1, <1>2 DEF Evict
<1>11. \A n \in Nodes : r1[n] > 0 => a1[n] = a[n]
  BY <1>8 DEF Evict
<1>. QED  BY <1>7, <1>8, <1>9, <1>10, <1>11

-----------------------------------------------------------------------------
(* The references on the stack.                                            *)

LEMMA OccurrencesFinite ==
    ASSUME NEW X, NEW s \in Seq(X), NEW m
    PROVE  IsFiniteSet({i \in 1..Len(s) : s[i] = m})
           /\ Occurrences(s, m) \in Nat
<1>1. IsFiniteSet({i \in 1..Len(s) : s[i] = m})
  BY FS_Interval, FS_Subset
<1>. QED  BY <1>1, FS_CardinalityType DEF Occurrences

LEMMA OccurrencesEmpty ==
    ASSUME NEW m
    PROVE  Occurrences(<<>>, m) = 0
BY FS_EmptySet DEF Occurrences

\* execute's remaining_dirs = vec![root]: one reference to the root.
LEMMA OccurrencesSingleton ==
    ASSUME NEW d, NEW m
    PROVE  Occurrences(<<d>>, m) = IF d = m THEN 1 ELSE 0
<1>1. {i \in 1..Len(<<d>>) : <<d>>[i] = m} = IF d = m THEN {1} ELSE {}
  OBVIOUS
<1>. QED  BY <1>1, FS_Singleton, FS_EmptySet DEF Occurrences

\* remaining_dirs.push(d) holds one more reference to d.
LEMMA OccurrencesPush ==
    ASSUME NEW X, NEW s \in Seq(X), NEW d \in X, NEW m
    PROVE  Occurrences(Append(s, d), m) = Occurrences(s, m) + (IF d = m THEN 1 ELSE 0)
<1> DEFINE S0 == {i \in 1..Len(s) : s[i] = m}
           S1 == {i \in 1..Len(Append(s, d)) : Append(s, d)[i] = m}
<1>1. S1 = S0 \cup (IF d = m THEN {Len(s) + 1} ELSE {})
  OBVIOUS
<1>0. Occurrences(Append(s, d), m) = Cardinality(S1) /\ Occurrences(s, m) = Cardinality(S0)
  BY DEF Occurrences
<1>2. IsFiniteSet(S0) /\ Cardinality(S0) \in Nat /\ Len(s) + 1 \notin S0
  <2>1. IsFiniteSet(S0)
    BY FS_Interval, FS_Subset
  <2>. QED  BY <2>1, FS_CardinalityType
<1>3. CASE d = m
  <2>1. Cardinality(S0 \cup {Len(s) + 1}) = Cardinality(S0) + 1
    BY <1>2, FS_AddElement
  <2>. QED  BY <1>0, <1>1, <1>3, <2>1
<1>4. CASE d # m
  <2>1. S1 = S0
    BY <1>1, <1>4
  <2>2. Cardinality(S1) = Cardinality(S0)
    BY <2>1, Zenon
  <2>. HIDE DEF S0, S1
  <2>. QED  BY <1>0, <2>2, <1>2, <1>4
<1>. QED  BY <1>3, <1>4

\* remaining_dirs.pop() takes the reference of the last directory.
LEMMA OccurrencesPop ==
    ASSUME NEW X, NEW s \in Seq(X), s # <<>>, NEW m
    PROVE  Occurrences(s, m)
             = Occurrences(SubSeq(s, 1, Len(s) - 1), m) + (IF s[Len(s)] = m THEN 1 ELSE 0)
<1> DEFINE t == SubSeq(s, 1, Len(s) - 1)
           S0 == {i \in 1..Len(t) : t[i] = m}
           S1 == {i \in 1..Len(s) : s[i] = m}
<1>1. Len(s) \in Nat \ {0} /\ Len(t) = Len(s) - 1
  <2>1. Len(s) \in Nat \ {0}
    BY EmptySeq, LenProperties
  <2>. QED  BY <2>1
<1>2. S1 = S0 \cup (IF s[Len(s)] = m THEN {Len(s)} ELSE {})
  BY <1>1
<1>0. Occurrences(s, m) = Cardinality(S1) /\ Occurrences(t, m) = Cardinality(S0)
  BY DEF Occurrences
<1>3. IsFiniteSet(S0) /\ Cardinality(S0) \in Nat /\ Len(s) \notin S0
  <2>1. IsFiniteSet(S0)
    <3>1. IsFiniteSet(1..Len(t))
      BY <1>1, FS_Interval
    <3>2. S0 \subseteq 1..Len(t)
      OBVIOUS
    <3>. QED  BY <3>1, <3>2, FS_Subset
  <2>2. Len(s) \notin S0
    BY <1>1
  <2>. QED  BY <2>1, <2>2, FS_CardinalityType
<1>4. CASE s[Len(s)] = m
  <2>1. Cardinality(S0 \cup {Len(s)}) = Cardinality(S0) + 1
    BY <1>3, FS_AddElement
  <2>. QED  BY <1>0, <1>2, <1>4, <2>1
<1>5. CASE s[Len(s)] # m
  <2>1. S1 = S0
    BY <1>2, <1>5
  <2>2. Cardinality(S1) = Cardinality(S0)
    BY <2>1, Zenon
  <2>. HIDE DEF S0, S1
  <2>. QED  BY <1>0, <2>2, <1>3, <1>5
<1>. QED  BY <1>4, <1>5

-----------------------------------------------------------------------------
(* The tree and the walk's pending entries.                                *)

LEMMA DescFacts ==
    /\ Desc \in [Dirs -> SUBSET Nodes]
    /\ \A d \in Dirs : Desc[d] = Entries[d] \cup UNION {Desc[c] : c \in Entries[d] \cap Dirs}
    /\ Nodes \ {Root} \subseteq Desc[Root]
BY ReachAssumption DEF Desc

\* What lies below a directory is what lies below its entries.
LEMMA DescBelow ==
    ASSUME NEW d \in Dirs
    PROVE  Desc[d] = Below(Entries[d])
BY DescFacts DEF Below

LEMMA StackEntriesEmpty == StackEntries(<<>>) = {}
BY DEF StackEntries

LEMMA StackEntriesPush ==
    ASSUME NEW s \in Seq(Dirs), NEW d \in Dirs
    PROVE  StackEntries(Append(s, d)) = StackEntries(s) \cup Entries[d]
<1>1. \A i \in 1..Len(s) : Append(s, d)[i] = s[i]
  OBVIOUS
<1>2. Append(s, d)[Len(s) + 1] = d /\ Len(Append(s, d)) = Len(s) + 1
  OBVIOUS
<1>3. 1..Len(Append(s, d)) = (1..Len(s)) \cup {Len(s) + 1}
  BY <1>2
<1>. QED  BY <1>1, <1>2, <1>3 DEF StackEntries

LEMMA StackEntriesPop ==
    ASSUME NEW s \in Seq(Dirs), s # <<>>
    PROVE  StackEntries(s)
             = StackEntries(SubSeq(s, 1, Len(s) - 1)) \cup Entries[s[Len(s)]]
<1> DEFINE t == SubSeq(s, 1, Len(s) - 1)
<1>1. Len(s) \in Nat \ {0} /\ Len(t) = Len(s) - 1
  BY EmptySeq
<1>2. \A i \in 1..Len(t) : t[i] = s[i]
  BY <1>1
<1>3. 1..Len(s) = (1..Len(t)) \cup {Len(s)}
  BY <1>1
<1>. QED  BY <1>1, <1>2, <1>3 DEF StackEntries

-----------------------------------------------------------------------------
(* The references the walk holds.                                          *)

LEMMA HeldType ==
    ASSUME TypeOK
    PROVE  /\ Held \in [Nodes -> Nat]
           /\ pc \in {"entries", "insert"} => Held[cur] >= 1
<1>1. \A m \in Nodes : Occurrences(stack, m) \in Nat
  BY OccurrencesFinite DEF TypeOK
<1>2. Held \in [Nodes -> Nat]
  BY <1>1 DEF Held
<1>3. pc \in {"entries", "insert"} => Held[cur] >= 1
  BY <1>1, TreeAssumption DEF TypeOK, Held
<1>. QED  BY <1>2, <1>3

\* With an empty stack and no directory being read the walk holds nothing.
LEMMA HeldIdle ==
    ASSUME stack = <<>>, pc \notin {"entries", "insert"}
    PROVE  Held = [m \in Nodes |-> 0]
BY OccurrencesEmpty DEF Held

-----------------------------------------------------------------------------
(* The initial state.                                                      *)

LEMMA InitIInv == Init => IInv
<1>. SUFFICES ASSUME Init PROVE IInv
  OBVIOUS
<1>1. Held = [m \in Nodes |-> 0]
  BY HeldIdle DEF Init
<1>2. \A n \in Nodes : Kids(rc, annot, n) = {}
  BY TreeAssumption DEF Init, Kids
<1>3. TypeOK
  <2>1. rc \in [Nodes -> Nat] /\ guest \in [Nodes -> 0..MaxRefs]
    BY DEF Init
  <2>2. annot \in [Nodes -> Locations]
    BY DEF Init, Locations
  <2>3. walks \in 1..MaxWalks
    BY BoundsAssumption DEF Init
  <2>4. stack \in Seq(Dirs) /\ cur \in Dirs /\ pend \in Dirs /\ pc \in PCs
    BY TreeAssumption DEF Init, PCs
  <2>. QED  BY <2>1, <2>2, <2>3, <2>4 DEF Init, TypeOK
<1>4. RefsAccounted
  <2>1. \A n \in Nodes : {m \in Nodes : rc[m] > 0 /\ annot[m] = n} = {}
    BY <1>2 DEF Kids
  <2>2. \A n \in Nodes : rc[n] = guest[n] /\ guest[n] \in Nat
    BY DEF Init
  <2>. QED  BY <1>1, <2>1, <2>2, FS_EmptySet DEF RefsAccounted
<1>5. Covered
  BY DEF Init, Covered
<1>6. Dead
  BY DEF Init, Dead
<1>. QED  BY <1>3, <1>4, <1>5, <1>6, TreeAssumption
          DEF Init, IInv, Idle, GuestRooted, Evicted, RootUnannotated, RootNotEntry

-----------------------------------------------------------------------------
(* The steps that release references.                                      *)

\* ReleaseAccounts for the step Release takes.
LEMMA ReleaseStep ==
    ASSUME NEW r0 \in [Nodes -> Nat], NEW a \in [Nodes -> Locations],
           NEW D \in [Nodes -> Nat], NEW K \in [Nodes -> Nat],
           \A n \in Nodes : r0[n] = K[n] + Cardinality(Kids(r0, a, n)) + D[n],
           \A n \in Nodes : r0[n] = 0 => a[n] = "none",
           Release(r0, a, D)
    PROVE  /\ rc' \in [Nodes -> Nat]
           /\ annot' \in [Nodes -> Locations]
           /\ \A n \in Nodes : rc'[n] = K[n] + Cardinality(Kids(rc', annot', n))
           /\ \A n \in Nodes : rc'[n] = 0 => annot'[n] = "none"
           /\ \A n \in Nodes : rc'[n] > 0 => annot'[n] = a[n]
           /\ \A n \in Nodes : rc'[n] <= r0[n]
<1>1. PICK E \in SUBSET Nodes :
        /\ \A m \in Nodes : m \in E <=> r0[m] > 0 /\ Remaining(r0, a, D, E)[m] <= 0
        /\ rc' = Remaining(r0, a, D, E)
        /\ annot' = Evict(a, E)
  BY DEF Release, Evict
<1>2. \A n \in Nodes : rc'[n] <= r0[n]
  <2>. SUFFICES ASSUME NEW n \in Nodes PROVE rc'[n] <= r0[n]
    OBVIOUS
  <2>1. IsFiniteSet({c \in E : a[c] = n})
    BY TreeAssumption, FS_Subset
  <2>2. Cardinality({c \in E : a[c] = n}) \in Nat
    BY <2>1, FS_CardinalityType
  <2>. QED  BY <1>1, <2>2 DEF Remaining
<1>. QED  BY <1>1, <1>2, ReleaseAccounts

\* The walk's references once it has returned.
LEMMA HeldAfterReturn ==
    ASSUME stack' = <<>>, pc' \notin {"entries", "insert"}
    PROVE  Held' = [m \in Nodes |-> 0]
<1>1. \A m \in Nodes : Occurrences(stack', m) = 0
  BY OccurrencesEmpty
<1>. QED  BY <1>1 DEF Held

\* RefsAccounted with the set of Path children named.
LEMMA AccountsKids ==
    RefsAccounted <=> \A n \in Nodes : rc[n] = guest[n] + Cardinality(Kids(rc, annot, n)) + Held[n]
BY DEF RefsAccounted, Kids

LEMMA AccountsKidsPrimed ==
    ASSUME \A n \in Nodes : rc'[n] = guest'[n] + Cardinality(Kids(rc', annot', n)) + Held'[n]
    PROVE  RefsAccounted'
BY DEF RefsAccounted, Kids

\* A step that keeps the root's lookups and only lowers counts keeps Dead.
LEMMA DeadShrink ==
    ASSUME Dead, guest'[Root] = guest[Root], rc' \in [Nodes -> Nat],
           \A n \in Nodes : rc'[n] <= rc[n]
    PROVE  Dead'
BY DEF Dead

\* A step that keeps what is pending, evicts records without touching the
\* annotations of the others and creates none keeps Covered.
LEMMA CoveredShrink ==
    ASSUME Covered,
           pc' \in {"pop", "entries", "insert", "ok"} => pc \in {"pop", "entries", "insert", "ok"},
           Below(Pending) \subseteq Below(Pending'),
           rc \in [Nodes -> Nat], rc' \in [Nodes -> Nat],
           \A n \in Nodes : rc'[n] <= rc[n],
           \A n \in Nodes : rc'[n] > 0 => annot'[n] = annot[n]
    PROVE  Covered'
<1>. SUFFICES ASSUME pc' \in {"pop", "entries", "insert", "ok"},
                     NEW n \in Nodes, rc'[n] > 0
              PROVE  annot'[n] # "none" \/ n \in Below(Pending')
  BY DEF Covered
<1>1. rc[n] > 0 /\ annot'[n] = annot[n]
  OBVIOUS
<1>. QED  BY <1>1 DEF Covered

\* recurse_from's early return drops everything the walk holds.
LEMMA AbortIInv ==
    ASSUME IInv, NEW o \in {"failed", "cancelled"}, Abort(o)
    PROVE  IInv'
<1>1. TypeOK /\ Held \in [Nodes -> Nat]
  BY HeldType DEF IInv
<1>2. /\ rc' \in [Nodes -> Nat]
      /\ annot' \in [Nodes -> Locations]
      /\ \A n \in Nodes : rc'[n] = guest[n] + Cardinality(Kids(rc', annot', n))
      /\ \A n \in Nodes : rc'[n] = 0 => annot'[n] = "none"
      /\ \A n \in Nodes : rc'[n] > 0 => annot'[n] = annot[n]
      /\ \A n \in Nodes : rc'[n] <= rc[n]
  <2>1. \A n \in Nodes : rc[n] = guest[n] + Cardinality(Kids(rc, annot, n)) + Held[n]
    BY AccountsKids DEF IInv
  <2>2. guest \in [Nodes -> Nat] /\ rc \in [Nodes -> Nat] /\ annot \in [Nodes -> Locations]
    BY <1>1 DEF TypeOK
  <2>3. Release(rc, annot, Held)
    BY DEF Abort
  <2>4. \A n \in Nodes : rc[n] = 0 => annot[n] = "none"
    BY DEF IInv, Evicted
  <2>. QED  BY <1>1, <2>1, <2>2, <2>3, <2>4, ReleaseStep
<1>3. Held' = [m \in Nodes |-> 0]
  BY HeldAfterReturn DEF Abort
<1>4. TypeOK'
  BY <1>1, <1>2 DEF Abort, TypeOK, PCs, Terminal
<1>5. RefsAccounted'
  <2>1. \A n \in Nodes : Cardinality(Kids(rc', annot', n)) \in Nat
    BY KidsFinite
  <2>2. SUFFICES ASSUME NEW n \in Nodes
                 PROVE  rc'[n] = guest'[n] + Cardinality(Kids(rc', annot', n)) + Held'[n]
    BY DEF RefsAccounted, Kids
  <2>3. guest'[n] = guest[n] /\ guest[n] \in Nat /\ Held'[n] = 0
    BY <1>1, <1>3 DEF Abort, TypeOK
  <2>. QED  BY <1>2, <2>1, <2>3
<1>6. RootUnannotated'
  BY <1>2, TreeAssumption DEF IInv, RootUnannotated
<1>7. Dead'
  BY <1>2, DeadShrink DEF Abort, IInv
<1>. QED  BY <1>2, <1>4, <1>5, <1>6, <1>7
          DEF Abort, IInv, Idle, GuestRooted, Evicted, RootNotEntry, Covered, Terminal

\* The end of a directory's iteration drops inode_ref.
LEMMA EndDirIInv ==
    ASSUME IInv, EndDir
    PROVE  IInv'
<1>1. TypeOK /\ Held \in [Nodes -> Nat] /\ Held[cur] >= 1 /\ cur \in Nodes
  BY HeldType, TreeAssumption DEF IInv, EndDir, TypeOK
<1> DEFINE K == [m \in Nodes |-> guest[m] + Held[m] - One(cur)[m]]
<1>2. K \in [Nodes -> Nat] /\ One(cur) \in [Nodes -> Nat]
  BY <1>1 DEF TypeOK, One
<1>3. /\ rc' \in [Nodes -> Nat]
      /\ annot' \in [Nodes -> Locations]
      /\ \A n \in Nodes : rc'[n] = K[n] + Cardinality(Kids(rc', annot', n))
      /\ \A n \in Nodes : rc'[n] = 0 => annot'[n] = "none"
      /\ \A n \in Nodes : rc'[n] > 0 => annot'[n] = annot[n]
      /\ \A n \in Nodes : rc'[n] <= rc[n]
  <2>1. \A n \in Nodes : rc[n] = K[n] + Cardinality(Kids(rc, annot, n)) + One(cur)[n]
    <3>1. \A n \in Nodes : rc[n] = guest[n] + Cardinality(Kids(rc, annot, n)) + Held[n]
      BY AccountsKids DEF IInv
    <3>. QED  BY <1>1, <3>1, KidsFinite DEF TypeOK, One
  <2>2. rc \in [Nodes -> Nat] /\ annot \in [Nodes -> Locations]
    BY <1>1 DEF TypeOK
  <2>3. Release(rc, annot, One(cur))
    BY DEF EndDir
  <2>4. \A m \in Nodes : rc[m] = 0 => annot[m] = "none"
    BY DEF IInv, Evicted
  <2>. HIDE DEF K
  <2>. QED  BY <1>2, <2>1, <2>2, <2>3, <2>4, ReleaseStep
<1>4. Held' = [m \in Nodes |-> Held[m] - One(cur)[m]]
  <2>1. \A m \in Nodes : Occurrences(stack, m) \in Nat
    BY <1>1, OccurrencesFinite DEF TypeOK
  <2>. QED  BY <2>1 DEF EndDir, Held, One
<1>5. TypeOK'
  BY <1>1, <1>3 DEF EndDir, TypeOK, PCs
<1>6. RefsAccounted'
  <2>1. \A n \in Nodes : rc'[n] = guest'[n] + Cardinality(Kids(rc', annot', n)) + Held'[n]
    BY <1>1, <1>3, <1>4, KidsFinite DEF EndDir, TypeOK, One
  <2>. QED  BY <2>1, AccountsKidsPrimed
<1>7. RootUnannotated'
  BY <1>3, TreeAssumption DEF IInv, RootUnannotated
<1>8. Covered'
  <2>1. Pending' = Pending
    BY DEF EndDir, Pending
  <2>. QED  BY <1>1, <1>3, <2>1, CoveredShrink DEF EndDir, IInv, TypeOK
<1>9. Dead'
  BY <1>3, DeadShrink DEF EndDir, IInv
<1>. QED  BY <1>3, <1>5, <1>6, <1>7, <1>8, <1>9
          DEF EndDir, IInv, Idle, GuestRooted, Evicted, RootNotEntry, Terminal

\* A FUSE forget drops one of the guest's references.
LEMMA ForgetIInv ==
    ASSUME IInv, NEW n \in Nodes, Forget(n)
    PROVE  IInv'
<1>1. TypeOK /\ Held \in [Nodes -> Nat] /\ guest[n] >= 1
  BY HeldType DEF IInv, Forget, TypeOK
<1> DEFINE K == [m \in Nodes |-> guest[m] - One(n)[m] + Held[m]]
<1>2. K \in [Nodes -> Nat] /\ One(n) \in [Nodes -> Nat]
  BY <1>1 DEF TypeOK, One
<1>3. /\ rc' \in [Nodes -> Nat]
      /\ annot' \in [Nodes -> Locations]
      /\ \A m \in Nodes : rc'[m] = K[m] + Cardinality(Kids(rc', annot', m))
      /\ \A m \in Nodes : rc'[m] = 0 => annot'[m] = "none"
      /\ \A m \in Nodes : rc'[m] > 0 => annot'[m] = annot[m]
      /\ \A m \in Nodes : rc'[m] <= rc[m]
  <2>1. \A m \in Nodes : rc[m] = K[m] + Cardinality(Kids(rc, annot, m)) + One(n)[m]
    <3>1. \A m \in Nodes : rc[m] = guest[m] + Cardinality(Kids(rc, annot, m)) + Held[m]
      BY AccountsKids DEF IInv
    <3>. QED  BY <1>1, <3>1, KidsFinite DEF TypeOK, One
  <2>2. rc \in [Nodes -> Nat] /\ annot \in [Nodes -> Locations]
    BY <1>1 DEF TypeOK
  <2>3. Release(rc, annot, One(n))
    BY DEF Forget
  <2>4. \A m \in Nodes : rc[m] = 0 => annot[m] = "none"
    BY DEF IInv, Evicted
  <2>. HIDE DEF K
  <2>. QED  BY <1>2, <2>1, <2>2, <2>3, <2>4, ReleaseStep
<1>4. Held' = Held
  BY DEF Forget, walkVars, Held
<1>5. TypeOK'
  <2>1. guest' \in [Nodes -> 0..MaxRefs]
    BY <1>1, BoundsAssumption DEF Forget, TypeOK
  <2>. QED  BY <1>1, <1>3, <2>1 DEF Forget, walkVars, TypeOK
<1>6. RefsAccounted'
  <2>1. \A m \in Nodes : rc'[m] = guest'[m] + Cardinality(Kids(rc', annot', m)) + Held'[m]
    BY <1>1, <1>3, <1>4, KidsFinite DEF Forget, TypeOK, One
  <2>. QED  BY <2>1, AccountsKidsPrimed
<1>7. RootUnannotated'
  BY <1>3, TreeAssumption DEF IInv, RootUnannotated
<1>8. GuestRooted'
  BY <1>1 DEF Forget, IInv, GuestRooted, TypeOK
<1>9. Covered'
  <2>1. Pending' = Pending
    BY DEF Forget, walkVars, Pending
  <2>. QED  BY <1>1, <1>3, <2>1, CoveredShrink DEF Forget, walkVars, IInv, TypeOK
<1>10. Dead'
  BY <1>3, DeadShrink DEF Forget, IInv
<1>. QED  BY <1>3, <1>5, <1>6, <1>7, <1>8, <1>9, <1>10
          DEF Forget, walkVars, IInv, Idle, Evicted, RootNotEntry

\* A FUSE lookup adds one of the guest's references; a new record comes
\* with a Path annotation holding a reference to the directory looked in.
LEMMA LookupIInv ==
    ASSUME IInv, NEW n \in Nodes, Lookup(n)
    PROVE  IInv'
<1>1. TypeOK /\ n # Root
  BY TreeAssumption DEF IInv, Lookup
<1>2. PICK p \in Dirs :
        /\ n \in Entries[p] /\ guest[p] > 0
        /\ \/ /\ rc[n] > 0
              /\ rc' = [rc EXCEPT ![n] = @ + 1]
              /\ UNCHANGED annot
           \/ /\ rc[n] = 0
              /\ rc' = [m \in Nodes |-> rc[m] + One(n)[m] + One(p)[m]]
              /\ annot' = [annot EXCEPT ![n] = p]
  BY DEF Lookup
<1>3. Held' = Held /\ Pending' = Pending /\ pc' = pc
  BY DEF Lookup, walkVars, Held, Pending
<1>4. guest' = [guest EXCEPT ![n] = @ + 1] /\ guest[n] < MaxRefs
  BY DEF Lookup
<1>5. \A x \in Nodes : rc[x] = guest[x] + Cardinality(Kids(rc, annot, x)) + Held[x]
  BY AccountsKids DEF IInv
<1>6. \A x \in Nodes : Cardinality(Kids(rc, annot, x)) \in Nat /\ guest[x] \in Nat /\ Held[x] \in Nat
  BY <1>1, KidsFinite, HeldType DEF TypeOK
<1>7. p \in Nodes /\ rc[p] > 0 /\ guest[Root] > 0
  <2>1. p \in Nodes
    BY TreeAssumption
  <2>2. rc[p] > 0
    BY <1>2, <1>5, <1>6, <2>1
  <2>3. guest[Root] > 0
    <3>1. guest[Root] # 0
      BY <1>2, <2>1 DEF IInv, GuestRooted
    <3>2. guest[Root] \in 0..MaxRefs
      BY <1>1, TreeAssumption DEF TypeOK
    <3>. QED  BY <3>1, <3>2, BoundsAssumption
  <2>. QED  BY <2>1, <2>2, <2>3
<1>8. guest' \in [Nodes -> 0..MaxRefs] /\ guest'[Root] = guest[Root]
  BY <1>1, <1>4, BoundsAssumption DEF TypeOK
<1>9. GuestRooted' /\ Dead'
  BY <1>1, <1>7, <1>8 DEF GuestRooted, Dead
<1>10. CASE rc[n] > 0
  <2>1. rc' = [rc EXCEPT ![n] = @ + 1] /\ annot' = annot
    BY <1>2, <1>10
  <2>2. \A x \in Nodes : Kids(rc', annot', x) = Kids(rc, annot, x)
    BY <1>1, <1>10, <2>1 DEF Kids, TypeOK
  <2>3. TypeOK'
    BY <1>1, <1>8, <2>1 DEF Lookup, walkVars, TypeOK
  <2>4. RefsAccounted'
    <3>. SUFFICES ASSUME NEW x \in Nodes
                  PROVE  rc'[x] = guest'[x] + Cardinality(Kids(rc', annot', x)) + Held'[x]
      BY AccountsKidsPrimed
    <3>1. rc'[x] = rc[x] + (IF x = n THEN 1 ELSE 0) /\ guest'[x] = guest[x] + (IF x = n THEN 1 ELSE 0)
      BY <1>1, <1>4, <2>1 DEF TypeOK
    <3>. QED  BY <1>3, <1>5, <1>6, <2>2, <3>1
  <2>5. Evicted' /\ Covered'
    <3>1. \A x \in Nodes : (rc'[x] > 0 <=> rc[x] > 0) /\ (rc'[x] = 0 <=> rc[x] = 0)
      BY <1>1, <1>10, <2>1 DEF TypeOK
    <3>. QED  BY <1>3, <2>1, <3>1 DEF IInv, Evicted, Covered
  <2>. QED  BY <1>9, <2>1, <2>3, <2>4, <2>5
           DEF Lookup, walkVars, IInv, Idle, RootUnannotated, RootNotEntry
<1>11. CASE rc[n] = 0
  <2>1. rc' = [m \in Nodes |-> rc[m] + One(n)[m] + One(p)[m]] /\ annot' = [annot EXCEPT ![n] = p]
    BY <1>2, <1>11
  <2>2. n # p /\ annot[n] = "none" /\ guest[n] = 0 /\ Held[n] = 0
    <3>1. n # p
      BY <1>7, <1>11
    <3>2. annot[n] = "none"
      BY <1>11 DEF IInv, Evicted
    <3>3. guest[n] = 0 /\ Held[n] = 0
      BY <1>5, <1>6, <1>11
    <3>. QED  BY <3>1, <3>2, <3>3
  <2>3. /\ rc \in [Nodes -> Nat] /\ rc' \in [Nodes -> Nat]
        /\ \A x \in Nodes : rc'[x] = rc[x] + (IF x = n THEN 1 ELSE 0) + (IF x = p THEN 1 ELSE 0)
    BY <1>1, <2>1 DEF One, TypeOK
  <2>4. \A x \in Nodes : Kids(rc', annot', x) = Kids(rc, annot, x) \cup (IF x = p THEN {n} ELSE {})
    <3>. SUFFICES ASSUME NEW x \in Nodes, NEW m \in Nodes
                  PROVE  m \in Kids(rc', annot', x) <=> m \in Kids(rc, annot, x) \cup (IF x = p THEN {n} ELSE {})
      BY DEF Kids
    <3>1. CASE m = n
      <4>1. rc'[n] > 0 /\ annot'[n] = p /\ ~(rc[n] > 0)
        <5>1. rc'[n] >= 1
          BY <1>11, <2>3
        <5>2. annot'[n] = p
          BY <1>1, <2>1 DEF TypeOK
        <5>. QED  BY <1>11, <2>3, <5>1, <5>2
      <4>2. m \in Kids(rc', annot', x) <=> x = p
        BY <3>1, <4>1 DEF Kids
      <4>3. m \notin Kids(rc, annot, x)
        BY <3>1, <4>1 DEF Kids
      <4>. QED  BY <3>1, <4>2, <4>3
    <3>2. CASE m # n
      <4>1. annot'[m] = annot[m]
        BY <1>1, <2>1, <3>2 DEF TypeOK
      <4>2. rc'[m] > 0 <=> rc[m] > 0
        BY <1>7, <2>3, <3>2
      <4>. QED  BY <3>2, <4>1, <4>2 DEF Kids
    <3>. QED  BY <3>1, <3>2
  <2>5. \A x \in Nodes : n \notin Kids(rc, annot, x)
    BY <1>11 DEF Kids
  <2>6. TypeOK'
    <3>1. rc' \in [Nodes -> Nat]
      BY <1>1, <2>1 DEF TypeOK, One
    <3>2. annot' \in [Nodes -> Locations]
      BY <1>1, <1>7, <2>1 DEF TypeOK, Locations
    <3>. QED  BY <1>1, <1>8, <3>1, <3>2 DEF Lookup, walkVars, TypeOK
  <2>7. RefsAccounted'
    <3>. SUFFICES ASSUME NEW x \in Nodes
                  PROVE  rc'[x] = guest'[x] + Cardinality(Kids(rc', annot', x)) + Held'[x]
      BY AccountsKidsPrimed
    <3>1. guest'[x] = guest[x] + (IF x = n THEN 1 ELSE 0)
      BY <1>1, <1>4 DEF TypeOK
    <3>2. CASE x = p
      <4>1. Cardinality(Kids(rc', annot', x)) = Cardinality(Kids(rc, annot, x)) + 1
        <5>1. Kids(rc', annot', x) = Kids(rc, annot, x) \cup {n}
          BY <2>4, <3>2
        <5>2. IsFiniteSet(Kids(rc, annot, x)) /\ n \notin Kids(rc, annot, x)
          BY <2>5, KidsFinite
        <5>3. Cardinality(Kids(rc, annot, x) \cup {n}) = Cardinality(Kids(rc, annot, x)) + 1
          BY <5>2, KidAdded
        <5>. QED  BY <5>1, <5>3
      <4>. QED  BY <1>3, <1>5, <1>6, <2>2, <2>3, <3>1, <3>2, <4>1
    <3>3. CASE x # p
      <4>1. Kids(rc', annot', x) = Kids(rc, annot, x)
        BY <2>4, <3>3
      <4>. QED  BY <1>3, <1>5, <1>6, <2>3, <3>1, <3>3, <4>1
    <3>. QED  BY <3>2, <3>3
  <2>8. Evicted'
    <3>. SUFFICES ASSUME NEW x \in Nodes, rc'[x] = 0 PROVE annot'[x] = "none"
      BY DEF Evicted
    <3>1. x # n /\ rc[x] = 0
      BY <1>1, <2>3 DEF TypeOK
    <3>. QED  BY <1>1, <2>1, <3>1 DEF IInv, Evicted, TypeOK
  <2>9. RootUnannotated'
    BY <1>1, <2>1 DEF IInv, RootUnannotated, TypeOK
  <2>10. Covered'
    <3>. SUFFICES ASSUME pc' \in {"pop", "entries", "insert", "ok"},
                         NEW x \in Nodes, rc'[x] > 0
                  PROVE  annot'[x] # "none" \/ x \in Below(Pending')
      BY DEF Covered
    <3>1. CASE x = n
      BY <1>1, <1>7, <2>1, <3>1, TreeAssumption DEF TypeOK
    <3>2. CASE x # n
      <4>1. rc[x] > 0 /\ annot'[x] = annot[x]
        <5>1. rc[x] > 0
          BY <1>7, <2>3, <3>2
        <5>2. annot'[x] = annot[x]
          BY <1>1, <2>1, <3>2 DEF TypeOK
        <5>. QED  BY <5>1, <5>2
      <4>. QED  BY <1>3, <4>1 DEF IInv, Covered
    <3>. QED  BY <3>1, <3>2
  <2>. QED  BY <1>9, <2>6, <2>7, <2>8, <2>9, <2>10
           DEF Lookup, walkVars, IInv, Idle, RootNotEntry
<1>. QED  BY <1>2, <1>10, <1>11

\* The cancel flag is set.
LEMMA CancelIInv ==
    ASSUME IInv, Cancel
    PROVE  IInv'
<1>1. Held' = Held /\ Pending' = Pending
  BY DEF Cancel, Held, Pending
<1>2. TypeOK' /\ RefsAccounted'
  BY <1>1 DEF Cancel, IInv, TypeOK, RefsAccounted
<1>. QED  BY <1>1, <1>2
          DEF Cancel, IInv, Idle, GuestRooted, Evicted, RootUnannotated, RootNotEntry, Dead,
              Covered

\* A walk that is over leaves the references alone when the next starts or
\* when the root's file handle fails.
LEMMA IdleStep ==
    ASSUME IInv, Restart \/ RootFault
    PROVE  IInv'
<1>1. stack = <<>> /\ stack' = <<>>
  BY DEF Restart, RootFault, IInv, Idle, Terminal
<1>2. pc \notin {"entries", "insert"} /\ pc' \notin {"entries", "insert"}
  BY DEF Restart, RootFault, Terminal
<1>3. Held' = Held
  <2>1. Held = [m \in Nodes |-> 0]
    BY <1>1, <1>2, HeldIdle
  <2>2. Held' = [m \in Nodes |-> 0]
    BY <1>1, <1>2, HeldAfterReturn
  <2>. QED  BY <2>1, <2>2
<1>4. TypeOK'
  <2>1. walks' \in 1..MaxWalks /\ pc' \in PCs
    BY BoundsAssumption DEF Restart, RootFault, IInv, TypeOK, PCs, Terminal
  <2>. QED  BY <2>1 DEF Restart, RootFault, IInv, TypeOK
<1>5. RefsAccounted'
  BY <1>3 DEF Restart, RootFault, IInv, RefsAccounted
<1>. QED  BY <1>1, <1>4, <1>5
          DEF Restart, RootFault, IInv, Idle, GuestRooted, Evicted, RootUnannotated,
              RootNotEntry, Dead, Covered, Terminal

-----------------------------------------------------------------------------
(* The walk.                                                               *)

\* execute: the root is claimed, annotated RootNode and pushed, or the
\* filesystem is not mounted and there is nothing to walk.
LEMMA ExecuteIInv ==
    ASSUME IInv, execute
    PROVE  IInv'
<1>1. TypeOK /\ stack = <<>> /\ Root \in Nodes
  BY TreeAssumption DEF IInv, Idle, execute, Terminal
<1>2. Held = [m \in Nodes |-> 0]
  BY <1>1, HeldIdle DEF execute
<1>3. \A x \in Nodes : rc[x] = guest[x] + Cardinality(Kids(rc, annot, x)) + Held[x]
  BY AccountsKids DEF IInv
<1>4. CASE rc[Root] = 0
  <2>1. UNCHANGED <<rc, annot, stack>> /\ pc' = "ok"
    BY <1>4 DEF execute
  <2>2. Held' = Held
    BY <1>1, <1>2, <2>1, HeldAfterReturn
  <2>3. \A n \in Nodes : guest[n] = 0
    <3>1. guest[Root] = 0
      BY <1>1, <1>3, <1>4, <1>2, KidsFinite DEF TypeOK
    <3>. QED  BY <3>1 DEF IInv, GuestRooted
  <2>4. TypeOK' /\ RefsAccounted'
    <3>1. TypeOK'
      BY <2>1 DEF execute, IInv, TypeOK, PCs, Terminal
    <3>2. \A x \in Nodes : Kids(rc', annot', x) = Kids(rc, annot, x)
      BY <2>1 DEF Kids
    <3>3. RefsAccounted'
      BY <1>3, <2>1, <2>2, <3>2, AccountsKidsPrimed DEF execute
    <3>. QED  BY <3>1, <3>3
  <2>5. Covered'
    <3>1. \A n \in Nodes : rc[n] = 0
      BY <1>1, <2>3 DEF IInv, Dead
    <3>. QED  BY <2>1, <3>1 DEF Covered
  <2>. QED  BY <2>1, <2>4, <2>5
           DEF execute, IInv, Idle, GuestRooted, Evicted, RootUnannotated, RootNotEntry, Dead
<1>5. CASE rc[Root] > 0
  <2>1. /\ rc' = [rc EXCEPT ![Root] = @ + 1]
        /\ annot' = [annot EXCEPT ![Root] = "root"]
        /\ stack' = <<Root>> /\ pc' = "pop"
    BY <1>5 DEF execute
  <2>2. stack' = Append(<<>>, Root) /\ <<>> \in Seq(Dirs) /\ Root \in Dirs
    BY <2>1, TreeAssumption
  <2>3. Held' = [m \in Nodes |-> IF m = Root THEN 1 ELSE 0]
    <3>1. \A m \in Nodes : Occurrences(stack', m) = IF Root = m THEN 1 ELSE 0
      <4>. SUFFICES ASSUME NEW m \in Nodes
                    PROVE  Occurrences(stack', m) = IF Root = m THEN 1 ELSE 0
        OBVIOUS
      <4>. QED  BY <2>1, OccurrencesSingleton
    <3>. QED  BY <2>1, <3>1 DEF Held
  <2>4. \A x \in Nodes : Kids(rc', annot', x) = Kids(rc, annot, x)
    BY <1>1, <1>5, <2>1, TreeAssumption DEF IInv, RootUnannotated, Kids, TypeOK
  <2>5. TypeOK'
    BY <1>1, <2>1, <2>2 DEF execute, TypeOK, PCs, Locations
  <2>6. RefsAccounted'
    <3>1. \A x \in Nodes : rc'[x] = guest'[x] + Cardinality(Kids(rc', annot', x)) + Held'[x]
      <4>. SUFFICES ASSUME NEW x \in Nodes
                    PROVE  rc'[x] = guest'[x] + Cardinality(Kids(rc', annot', x)) + Held'[x]
        OBVIOUS
      <4>1. Cardinality(Kids(rc, annot, x)) \in Nat /\ guest[x] \in Nat
        BY <1>1, KidsFinite DEF TypeOK
      <4>2. rc'[x] = rc[x] + (IF x = Root THEN 1 ELSE 0) /\ guest'[x] = guest[x]
        BY <1>1, <2>1 DEF execute, TypeOK
      <4>. QED  BY <1>2, <1>3, <2>3, <2>4, <4>1, <4>2
    <3>. QED  BY <3>1, AccountsKidsPrimed
  <2>7. Evicted' /\ RootUnannotated'
    BY <1>1, <2>1, TreeAssumption DEF IInv, Evicted, TypeOK, RootUnannotated
  <2>8. Covered'
    <3>. SUFFICES ASSUME NEW n \in Nodes, rc'[n] > 0
                  PROVE  annot'[n] # "none" \/ n \in Below(Pending')
      BY DEF Covered
    <3>1. Pending' = Entries[Root]
      BY <2>1, <2>2, StackEntriesPush, StackEntriesEmpty DEF Pending
    <3>2. CASE n = Root
      BY <1>1, <2>1, <3>2 DEF TypeOK
    <3>3. CASE n # Root
      <4>1. n \in Desc[Root]
        BY <3>3, DescFacts
      <4>2. Desc[Root] = Below(Entries[Root])
        BY DescBelow, TreeAssumption
      <4>. QED  BY <3>1, <4>1, <4>2
    <3>. QED  BY <3>2, <3>3
  <2>9. Dead'
    <3>1. guest[Root] > 0
      BY <1>1, <1>5, RootAlive
    <3>. QED  BY <3>1 DEF execute, Dead
  <2>. QED  BY <2>1, <2>5, <2>6, <2>7, <2>8, <2>9
           DEF execute, IInv, Idle, GuestRooted, RootNotEntry, Terminal
<1>. QED  BY <1>1, <1>4, <1>5 DEF TypeOK

\* Popping a directory moves its reference from the stack to inode_ref and
\* its entries to todo; an empty stack ends the walk.
LEMMA PopIInv ==
    ASSUME IInv, Pop
    PROVE  IInv'
<1>1. TypeOK /\ pc = "pop"
  BY DEF IInv, Pop
<1>2. Held' = Held /\ Pending' = Pending
  <2>1. CASE stack = <<>>
    <3>1. Held = [m \in Nodes |-> 0] /\ Held' = [m \in Nodes |-> 0]
      BY <1>1, <2>1, HeldIdle, HeldAfterReturn DEF Pop
    <3>2. Pending' = Pending
      BY <1>1, <2>1 DEF Pop, Pending
    <3>. QED  BY <3>1, <3>2
  <2>2. CASE stack # <<>>
    <3> DEFINE top == stack[Len(stack)]
               rest == SubSeq(stack, 1, Len(stack) - 1)
    <3>1. stack' = rest /\ cur' = top /\ todo' = Entries[top] /\ pc' = "entries"
      BY <2>2 DEF Pop
    <3>2. stack \in Seq(Dirs) /\ rest \in Seq(Dirs) /\ top \in Dirs
      BY <1>1, <2>2, EmptySeq DEF TypeOK
    <3>3. \A m \in Nodes : Occurrences(stack, m)
                             = Occurrences(rest, m) + (IF top = m THEN 1 ELSE 0)
      BY <3>2, <2>2, OccurrencesPop
    <3>4. Held' = Held
      <4>1. \A m \in Nodes : Occurrences(rest, m) \in Nat
        BY <3>2, OccurrencesFinite
      <4>. QED  BY <1>1, <3>1, <3>3, <4>1 DEF Held
    <3>5. StackEntries(stack) = StackEntries(rest) \cup Entries[top]
      BY <3>2, <2>2, StackEntriesPop
    <3>6. Pending' = Pending
      BY <1>1, <3>1, <3>5 DEF Pending
    <3>. QED  BY <3>4, <3>6
  <2>. QED  BY <2>1, <2>2
<1>3. TypeOK' /\ RootNotEntry'
  <2>1. CASE stack = <<>>
    BY <1>1, <2>1 DEF Pop, IInv, TypeOK, PCs, Terminal, RootNotEntry
  <2>2. CASE stack # <<>>
    <3>1. stack[Len(stack)] \in Dirs /\ SubSeq(stack, 1, Len(stack) - 1) \in Seq(Dirs)
      BY <1>1, <2>2, EmptySeq DEF TypeOK
    <3>2. Entries[stack[Len(stack)]] \subseteq Nodes \ {Root}
      BY <3>1, TreeAssumption
    <3>. QED  BY <1>1, <2>2, <3>1, <3>2 DEF Pop, TypeOK, PCs, RootNotEntry
  <2>. QED  BY <2>1, <2>2
<1>4. RefsAccounted'
  BY <1>2 DEF Pop, IInv, RefsAccounted
<1>5. Covered'
  BY <1>2 DEF Pop, IInv, Covered
<1>. QED  BY <1>3, <1>4, <1>5
          DEF Pop, IInv, Idle, GuestRooted, Evicted, RootUnannotated, Dead, Terminal

\* Insert: the synthetic record (or the one a guest lookup created
\* meanwhile) gets one more reference, which is pushed.
LEMMA InsertIInv ==
    ASSUME IInv, Insert
    PROVE  IInv'
<1>1. TypeOK /\ pc = "insert" /\ pend \in Nodes /\ cur \in Nodes /\ pend # Root
  BY TreeAssumption DEF IInv, Insert, TypeOK, RootNotEntry
<1>2. Held \in [Nodes -> Nat] /\ Held[cur] >= 1
  BY <1>1, HeldType
<1>3. \A x \in Nodes : rc[x] = guest[x] + Cardinality(Kids(rc, annot, x)) + Held[x]
  BY AccountsKids DEF IInv
<1>4. Held' = [m \in Nodes |-> Held[m] + (IF m = pend THEN 1 ELSE 0)]
  <2>1. \A m \in Nodes : Occurrences(stack', m)
                           = Occurrences(stack, m) + (IF pend = m THEN 1 ELSE 0)
    BY <1>1, OccurrencesPush DEF Insert, Push, TypeOK
  <2>2. \A m \in Nodes : Occurrences(stack, m) \in Nat
    BY <1>1, OccurrencesFinite DEF TypeOK
  <2>. QED  BY <2>1, <2>2, <1>1 DEF Insert, Held
<1>5. Pending' = Pending
  <2>1. StackEntries(stack') = StackEntries(stack) \cup Entries[pend]
    BY <1>1, StackEntriesPush DEF Insert, Push, TypeOK
  <2>. QED  BY <1>1, <2>1 DEF Insert, Pending
<1>6. \A x \in Nodes : Cardinality(Kids(rc, annot, x)) \in Nat /\ guest[x] \in Nat
  BY <1>1, KidsFinite DEF TypeOK
<1>9. rc[cur] >= 1 /\ rc[pend] \in Nat
  <2>1. rc[cur] = guest[cur] + Cardinality(Kids(rc, annot, cur)) + Held[cur]
    BY <1>1, <1>3
  <2>. QED  BY <1>1, <1>2, <1>6, <2>1 DEF TypeOK
<1>10. Dead'
  <2>0. rc[cur] > 0
    BY <1>1, <1>9 DEF TypeOK
  <2>1. guest[Root] > 0
    BY <1>1, <2>0, RootAlive
  <2>2. guest' = guest
    BY DEF Insert
  <2>. QED  BY <2>1, <2>2 DEF Dead
<1>7. CASE rc[pend] = 0
  <2>1. pend # cur /\ guest[pend] = 0 /\ Kids(rc, annot, pend) = {} /\ annot[pend] = "none"
    <3>1. Cardinality(Kids(rc, annot, pend)) = 0 /\ guest[pend] = 0
      <4>1. rc[pend] = guest[pend] + Cardinality(Kids(rc, annot, pend)) + Held[pend]
        BY <1>1, <1>3
      <4>2. Cardinality(Kids(rc, annot, pend)) \in Nat /\ guest[pend] \in Nat
            /\ Held[pend] \in Nat
        BY <1>1, <1>2, <1>6
      <4>. QED  BY <4>1, <4>2, <1>7
    <3>2. Kids(rc, annot, pend) = {}
      BY <3>1, KidsFinite, FS_EmptySet
    <3>3. pend # cur
      BY <1>7, <1>9
    <3>. QED  BY <3>1, <3>2, <3>3, <1>1, <1>7 DEF IInv, Evicted
  <2>2. /\ rc' = [rc EXCEPT ![pend] = 1, ![cur] = @ + 1]
        /\ annot' = [annot EXCEPT ![pend] = cur]
    BY <1>7 DEF Insert
  <2>3. \A x \in Nodes :
          Kids(rc', annot', x) = Kids(rc, annot, x) \cup (IF x = cur THEN {pend} ELSE {})
    <3>. SUFFICES ASSUME NEW x \in Nodes
                  PROVE  Kids(rc', annot', x) = Kids(rc, annot, x) \cup (IF x = cur THEN {pend} ELSE {})
      OBVIOUS
    <3>1. \A m \in Nodes : (rc'[m] > 0 /\ annot'[m] = x)
                            <=> (m \in Kids(rc, annot, x) \/ (x = cur /\ m = pend))
      <4>. SUFFICES ASSUME NEW m \in Nodes
                    PROVE  (rc'[m] > 0 /\ annot'[m] = x)
                             <=> (m \in Kids(rc, annot, x) \/ (x = cur /\ m = pend))
        OBVIOUS
      <4>1. CASE m = pend
        <5>1. rc'[pend] = 1 /\ annot'[pend] = cur
          BY <1>1, <2>1, <2>2 DEF TypeOK
        <5>2. pend \notin Kids(rc, annot, x)
          BY <1>7 DEF Kids
        <5>. QED  BY <5>1, <5>2, <4>1
      <4>2. CASE m = cur
        BY <1>1, <1>9, <2>1, <2>2, <4>2 DEF Kids, TypeOK
      <4>3. CASE m # pend /\ m # cur
        BY <1>1, <2>2, <4>3 DEF Kids, TypeOK
      <4>. QED  BY <4>1, <4>2, <4>3
    <3>2. CASE x = cur
      BY <1>1, <3>1, <3>2 DEF Kids
    <3>3. CASE x # cur
      BY <3>1, <3>3 DEF Kids
    <3>. QED  BY <3>2, <3>3
  <2>4. \A x \in Nodes :
          Cardinality(Kids(rc', annot', x))
            = Cardinality(Kids(rc, annot, x)) + (IF x = cur THEN 1 ELSE 0)
    <3>. SUFFICES ASSUME NEW x \in Nodes
                  PROVE  Cardinality(Kids(rc', annot', x))
                           = Cardinality(Kids(rc, annot, x)) + (IF x = cur THEN 1 ELSE 0)
      OBVIOUS
    <3>1. pend \notin Kids(rc, annot, x)
      BY <1>7 DEF Kids
    <3>2. CASE x = cur
      BY <2>3, <3>1, <3>2, KidsFinite, FS_AddElement
    <3>3. CASE x # cur
      <4>1. Kids(rc', annot', x) = Kids(rc, annot, x)
        BY <2>3, <3>3
      <4>. QED  BY <4>1, <3>3, <1>6
    <3>. QED  BY <3>2, <3>3
  <2>5. RefsAccounted'
    <3>1. \A x \in Nodes : rc'[x] = guest'[x] + Cardinality(Kids(rc', annot', x)) + Held'[x]
      <4>. SUFFICES ASSUME NEW x \in Nodes
                    PROVE  rc'[x] = guest'[x] + Cardinality(Kids(rc', annot', x)) + Held'[x]
        OBVIOUS
      <4>1. rc'[x] = rc[x] + (IF x = pend THEN 1 ELSE 0) + (IF x = cur THEN 1 ELSE 0)
        BY <1>1, <1>7, <2>1, <2>2 DEF TypeOK
      <4>2. Held'[x] = Held[x] + (IF x = pend THEN 1 ELSE 0) /\ Held[x] \in Nat
        BY <1>2, <1>4
      <4>3. guest'[x] = guest[x]
        BY DEF Insert
      <4>. QED  BY <1>3, <1>6, <2>4, <4>1, <4>2, <4>3
    <3>. QED  BY <3>1, AccountsKidsPrimed
  <2>6. TypeOK' /\ Evicted' /\ RootUnannotated'
    <3>1. TypeOK'
      BY <1>1, <1>7, <1>9, <2>2 DEF Insert, Push, IInv, TypeOK, PCs, Locations
    <3>2. Evicted'
      <4>. SUFFICES ASSUME NEW x \in Nodes, rc'[x] = 0 PROVE annot'[x] = "none"
        BY DEF Evicted
      <4>1. x # pend /\ x # cur
        BY <1>1, <1>9, <2>1, <2>2 DEF TypeOK
      <4>2. rc[x] = 0 /\ annot'[x] = annot[x]
        BY <1>1, <2>2, <4>1 DEF TypeOK
      <4>. QED  BY <4>2 DEF IInv, Evicted
    <3>3. RootUnannotated'
      BY <1>1, <2>2 DEF IInv, TypeOK, RootUnannotated
    <3>. QED  BY <3>1, <3>2, <3>3
  <2>7. Covered'
    <3>. SUFFICES ASSUME NEW x \in Nodes, rc'[x] > 0
                  PROVE  annot'[x] # "none" \/ x \in Below(Pending')
      BY DEF Covered
    <3>1. CASE x = pend
      BY <1>1, <2>2, <3>1, TreeAssumption DEF TypeOK
    <3>2. CASE x # pend
      <4>1. rc[x] > 0 /\ annot'[x] = annot[x]
        BY <1>1, <1>9, <2>2, <3>2 DEF TypeOK
      <4>. QED  BY <1>1, <1>5, <4>1 DEF IInv, Covered
    <3>. QED  BY <3>1, <3>2
  <2>. QED  BY <2>5, <2>6, <2>7, <1>10
           DEF Insert, IInv, Idle, GuestRooted, RootNotEntry, Terminal
<1>8. CASE rc[pend] > 0
  <2>1. rc' = [rc EXCEPT ![pend] = @ + 1] /\ annot' = annot
    BY <1>8 DEF Insert
  <2>2. \A x \in Nodes : Kids(rc', annot', x) = Kids(rc, annot, x)
    BY <1>1, <1>8, <2>1 DEF Kids, TypeOK
  <2>3. RefsAccounted'
    <3>1. \A x \in Nodes : rc'[x] = guest'[x] + Cardinality(Kids(rc', annot', x)) + Held'[x]
      <4>. SUFFICES ASSUME NEW x \in Nodes
                    PROVE  rc'[x] = guest'[x] + Cardinality(Kids(rc', annot', x)) + Held'[x]
        OBVIOUS
      <4>1. rc'[x] = rc[x] + (IF x = pend THEN 1 ELSE 0)
        BY <1>1, <2>1 DEF TypeOK
      <4>2. Held'[x] = Held[x] + (IF x = pend THEN 1 ELSE 0) /\ Held[x] \in Nat
        BY <1>2, <1>4
      <4>3. guest'[x] = guest[x]
        BY DEF Insert
      <4>. QED  BY <1>3, <1>6, <2>2, <4>1, <4>2, <4>3
    <3>. QED  BY <3>1, AccountsKidsPrimed
  <2>4. TypeOK' /\ Evicted' /\ RootUnannotated'
    BY <1>1, <2>1 DEF Insert, Push, IInv, TypeOK, PCs, Evicted, RootUnannotated
  <2>5. Covered'
    <3>1. \A x \in Nodes : (rc'[x] > 0 <=> rc[x] > 0)
      BY <1>1, <1>8, <2>1 DEF TypeOK
    <3>. QED  BY <1>1, <1>5, <2>1, <3>1 DEF Insert, IInv, Covered
  <2>. QED  BY <2>3, <2>4, <2>5, <1>10
           DEF Insert, IInv, Idle, GuestRooted, RootNotEntry, Terminal
<1>. QED  BY <1>1, <1>7, <1>8 DEF TypeOK

\* discover's claim: e becomes a Path child of cur and stops being one of
\* its old parent; the other records keep their parents.
LEMMA ClaimKids ==
    ASSUME TypeOK, NEW e \in Nodes, rc[e] > 0, rc[cur] > 0, cur \in Nodes
    PROVE  \A n \in Nodes :
             Cardinality(Kids(ClaimRc(e), ClaimAnnot(e), n)) + OldParent(e)[n]
               = Cardinality(Kids(rc, annot, n)) + One(cur)[n]
<1>. SUFFICES ASSUME NEW n \in Nodes
              PROVE  Cardinality(Kids(ClaimRc(e), ClaimAnnot(e), n)) + OldParent(e)[n]
                       = Cardinality(Kids(rc, annot, n)) + One(cur)[n]
  OBVIOUS
<1> DEFINE K0 == Kids(rc, annot, n)
           K1 == Kids(ClaimRc(e), ClaimAnnot(e), n)
<1>0. \A m \in Nodes : ClaimRc(e)[m] = rc[m] + (IF m = cur THEN 1 ELSE 0) + (IF m = e THEN 1 ELSE 0)
  BY DEF ClaimRc, One
<1>1. \A m \in Nodes : ClaimRc(e)[m] > 0 <=> rc[m] > 0
  <2>. SUFFICES ASSUME NEW m \in Nodes PROVE ClaimRc(e)[m] > 0 <=> rc[m] > 0
    OBVIOUS
  <2>1. rc[m] \in Nat
    BY DEF TypeOK
  <2>. QED  BY <1>0, <2>1
<1>2. \A m \in Nodes : ClaimAnnot(e)[m] = IF m = e THEN cur ELSE annot[m]
  BY DEF ClaimAnnot, TypeOK
<1>3. K1 = (K0 \ {e}) \cup (IF n = cur THEN {e} ELSE {})
  BY <1>1, <1>2 DEF Kids
<1>4. e \in K0 <=> annot[e] = n
  BY DEF Kids
<1>5. IsFiniteSet(K0) /\ Cardinality(K0) \in Nat
  BY KidsFinite
<1>6. /\ IsFiniteSet(K0 \ {e})
      /\ Cardinality(K0 \ {e}) = Cardinality(K0) - (IF annot[e] = n THEN 1 ELSE 0)
  BY <1>4, <1>5, FS_RemoveElement
<1>7. CASE n = cur
  <2>1. Cardinality((K0 \ {e}) \cup {e}) = Cardinality(K0 \ {e}) + 1
    BY <1>6, FS_AddElement
  <2>. QED  BY <1>3, <1>5, <1>6, <1>7, <2>1 DEF OldParent, One
<1>8. CASE n # cur
  <2>1. K1 = K0 \ {e}
    BY <1>3, <1>8
  <2>. QED  BY <2>1, <1>5, <1>6, <1>8 DEF OldParent, One
<1>. QED  BY <1>7, <1>8

\* A node below the pending entries other than e stays below them when e
\* is discovered, provided the entries of a directory e are still pending.
LEMMA BelowStep ==
    ASSUME NEW S, NEW T, NEW e, NEW n, n \in Below(S), n # e,
           S \ {e} \subseteq T,
           e \in S /\ e \in Dirs => Entries[e] \subseteq T
    PROVE  n \in Below(T)
<1>1. PICK y \in S : n = y \/ (y \in Dirs /\ n \in Desc[y])
  BY DEF Below
<1>2. CASE y # e
  BY <1>1, <1>2 DEF Below
<1>3. CASE y = e
  <2>1. e \in Dirs /\ n \in Desc[e]
    BY <1>1, <1>3
  <2>2. n \in Below(Entries[e])
    BY <2>1, DescBelow
  <2>. QED  BY <1>1, <1>3, <2>1, <2>2 DEF Below
<1>. QED  BY <1>2, <1>3

\* discover of entry e of cur: a known record is claimed (annotated with
\* cur, pushed if a directory, its reference dropped otherwise); an unknown
\* file is skipped; an unknown directory goes on to Insert.
LEMMA DiscoverIInv ==
    ASSUME IInv, NEW e \in Nodes, discover(e)
    PROVE  IInv'
<1>1. /\ TypeOK /\ pc = "entries" /\ e \in todo /\ e # Root
      /\ cur \in Dirs /\ cur \in Nodes
  BY TreeAssumption DEF IInv, discover, TypeOK, RootNotEntry
<1>2. Held \in [Nodes -> Nat] /\ Held[cur] >= 1
  BY <1>1, HeldType
<1>3. \A x \in Nodes : rc[x] = guest[x] + Cardinality(Kids(rc, annot, x)) + Held[x]
  BY AccountsKids DEF IInv
<1>4. \A x \in Nodes : Cardinality(Kids(rc, annot, x)) \in Nat /\ guest[x] \in Nat /\ rc[x] \in Nat
  BY <1>1, KidsFinite DEF TypeOK
<1>5. /\ todo' = todo \ {e}
      /\ UNCHANGED <<guest, cur, cancel, walks>>
  BY DEF discover
<1>6. Pending = todo \cup StackEntries(stack)
  BY <1>1 DEF Pending
<1>7. Covered
  BY DEF IInv
<1>10. Dead'
  <2>1. rc[cur] > 0
    BY <1>1, <1>2, <1>3, <1>4
  <2>2. guest[Root] > 0
    BY <1>1, <2>1, RootAlive
  <2>. QED  BY <1>5, <2>2 DEF Dead
<1>8. CASE rc[e] > 0
  <2>1. discover_claimed(e) /\ pend' = pend /\ pc' = pc
    BY <1>8 DEF discover
  <2> DEFINE r0 == ClaimRc(e)
             a0 == ClaimAnnot(e)
             Dd == IF e \in Dirs THEN OldParent(e)
                                ELSE [m \in Nodes |-> OldParent(e)[m] + One(e)[m]]
             K  == [m \in Nodes |-> guest[m] + Held[m] + (IF e \in Dirs THEN One(e)[m] ELSE 0)]
  <2>2. /\ r0 \in [Nodes -> Nat] /\ a0 \in [Nodes -> Locations]
        /\ Dd \in [Nodes -> Nat] /\ K \in [Nodes -> Nat]
    <3>1. r0 \in [Nodes -> Nat]
      BY <1>4 DEF ClaimRc, One
    <3>2. a0 \in [Nodes -> Locations]
      BY <1>1 DEF ClaimAnnot, TypeOK, Locations
    <3>3. Dd \in [Nodes -> Nat]
      BY DEF OldParent, One
    <3>4. K \in [Nodes -> Nat]
      BY <1>2, <1>4 DEF One
    <3>. QED  BY <3>1, <3>2, <3>3, <3>4
  <2>3. \A n \in Nodes : r0[n] = K[n] + Cardinality(Kids(r0, a0, n)) + Dd[n]
    <3>. SUFFICES ASSUME NEW n \in Nodes
                  PROVE  r0[n] = K[n] + Cardinality(Kids(r0, a0, n)) + Dd[n]
      OBVIOUS
    <3>1. Cardinality(Kids(r0, a0, n)) + OldParent(e)[n]
            = Cardinality(Kids(rc, annot, n)) + One(cur)[n]
      <4>1. rc[cur] > 0
        BY <1>1, <1>2, <1>3, <1>4
      <4>. QED  BY <1>1, <1>8, <4>1, ClaimKids
    <3>2. r0[n] = rc[n] + One(cur)[n] + One(e)[n]
      BY DEF ClaimRc
    <3>3. Cardinality(Kids(r0, a0, n)) \in Nat /\ Held[n] \in Nat
      BY <1>2, KidsFinite
    <3>. QED  BY <1>3, <1>4, <3>1, <3>2, <3>3 DEF OldParent, One
  <2>4. \A n \in Nodes : r0[n] = 0 => a0[n] = "none"
    BY <1>4, <1>8 DEF ClaimRc, ClaimAnnot, One, IInv, Evicted, TypeOK
  <2>5. /\ rc' \in [Nodes -> Nat]
        /\ annot' \in [Nodes -> Locations]
        /\ \A n \in Nodes : rc'[n] = K[n] + Cardinality(Kids(rc', annot', n))
        /\ \A n \in Nodes : rc'[n] = 0 => annot'[n] = "none"
        /\ \A n \in Nodes : rc'[n] > 0 => annot'[n] = a0[n]
        /\ \A n \in Nodes : rc'[n] <= r0[n]
    <3>1. Release(r0, a0, Dd) /\ stack' = IF e \in Dirs THEN Push(e) ELSE stack
      BY <2>1 DEF discover_claimed
    <3>. HIDE DEF r0, a0, Dd, K
    <3>. QED  BY <2>2, <2>3, <2>4, <3>1, ReleaseStep
  <2>6. stack' = IF e \in Dirs THEN Append(stack, e) ELSE stack
    BY <2>1 DEF discover_claimed, Push
  <2>7. \A m \in Nodes : Held'[m] = Held[m] + (IF e \in Dirs THEN One(e)[m] ELSE 0)
    <3>1. \A m \in Nodes : Occurrences(stack', m)
                             = Occurrences(stack, m) + (IF e \in Dirs THEN One(e)[m] ELSE 0)
      <4>. SUFFICES ASSUME NEW m \in Nodes
                    PROVE  Occurrences(stack', m)
                             = Occurrences(stack, m) + (IF e \in Dirs THEN One(e)[m] ELSE 0)
        OBVIOUS
      <4>1. CASE e \in Dirs
        <5>1. Occurrences(Append(stack, e), m) = Occurrences(stack, m) + (IF e = m THEN 1 ELSE 0)
          BY <1>1, <4>1, OccurrencesPush DEF TypeOK
        <5>. QED  BY <2>6, <4>1, <5>1 DEF One
      <4>2. CASE e \notin Dirs
        <5>1. stack' = stack /\ stack \in Seq(Dirs)
          BY <1>1, <2>6, <4>2 DEF TypeOK
        <5>2. Occurrences(stack, m) \in Nat
          BY <5>1, OccurrencesFinite
        <5>. QED  BY <5>1, <5>2, <4>2
      <4>. QED  BY <4>1, <4>2
    <3>2. \A m \in Nodes : Occurrences(stack, m) \in Nat
      BY <1>1, OccurrencesFinite DEF TypeOK
    <3>. SUFFICES ASSUME NEW m \in Nodes
                  PROVE  Held'[m] = Held[m] + (IF e \in Dirs THEN One(e)[m] ELSE 0)
      OBVIOUS
    <3>3. Held'[m] = Occurrences(stack', m) + (IF cur = m THEN 1 ELSE 0)
      BY <1>1, <1>5, <2>1 DEF Held
    <3>4. Held[m] = Occurrences(stack, m) + (IF cur = m THEN 1 ELSE 0)
      BY <1>1 DEF Held
    <3>5. One(e)[m] \in Nat
      BY DEF One
    <3>. QED  BY <3>1, <3>2, <3>3, <3>4, <3>5
  <2>8. RefsAccounted'
    <3>1. \A n \in Nodes : rc'[n] = guest'[n] + Cardinality(Kids(rc', annot', n)) + Held'[n]
      <4>. SUFFICES ASSUME NEW n \in Nodes
                    PROVE  rc'[n] = guest'[n] + Cardinality(Kids(rc', annot', n)) + Held'[n]
        OBVIOUS
      <4>1. rc'[n] = K[n] + Cardinality(Kids(rc', annot', n))
        BY <2>5
      <4>2. Held'[n] = Held[n] + (IF e \in Dirs THEN One(e)[n] ELSE 0)
        BY <2>7
      <4>3. K[n] = guest[n] + Held[n] + (IF e \in Dirs THEN One(e)[n] ELSE 0)
        OBVIOUS
      <4>4. guest'[n] = guest[n]
        BY <1>5
      <4>5. /\ guest[n] \in Nat /\ Held[n] \in Nat /\ One(e)[n] \in Nat
            /\ Cardinality(Kids(rc', annot', n)) \in Nat
        BY <1>2, <1>4, KidsFinite DEF One
      <4>. HIDE DEF K
      <4>. QED  BY <4>1, <4>2, <4>3, <4>4, <4>5
    <3>. QED  BY <3>1, AccountsKidsPrimed
  <2>9. TypeOK'
    <3>1. stack' \in Seq(Dirs) /\ todo' \subseteq Nodes
      BY <1>1, <1>5, <2>6 DEF TypeOK
    <3>. QED  BY <1>1, <1>5, <2>1, <2>5, <3>1 DEF discover, TypeOK
  <2>10. RootUnannotated' /\ Evicted'
    <3>1. Evicted'
      BY <2>5 DEF Evicted
    <3>2. a0[Root] = annot[Root] /\ Root \in Nodes
      BY <1>1, TreeAssumption DEF ClaimAnnot, TypeOK
    <3>3. RootUnannotated'
      BY <2>5, <3>2, TreeAssumption DEF IInv, RootUnannotated
    <3>. QED  BY <3>1, <3>3
  <2>11. Covered'
    <3>. SUFFICES ASSUME pc' \in {"pop", "entries", "insert", "ok"},
                         NEW n \in Nodes, rc'[n] > 0
                  PROVE  annot'[n] # "none" \/ n \in Below(Pending')
      BY DEF Covered
    <3>2. annot'[n] = a0[n]
      BY <2>5
    <3>3. CASE n = e
      BY <1>1, <3>2, <3>3, TreeAssumption DEF ClaimAnnot, TypeOK
    <3>4. CASE n # e
      <4>1. annot'[n] = annot[n]
        BY <1>1, <3>2, <3>4 DEF ClaimAnnot, TypeOK
      <4>6. rc[n] > 0
        <5>1. rc'[n] <= rc[n] + One(cur)[n] /\ rc'[n] \in Nat
          <6>1. rc'[n] <= r0[n] /\ rc'[n] \in Nat
            BY <2>5
          <6>2. r0[n] = rc[n] + One(cur)[n]
            BY <1>4, <3>4 DEF ClaimRc, One
          <6>. QED  BY <1>4, <6>1, <6>2 DEF One
        <5>2. rc[cur] > 0
          BY <1>1, <1>2, <1>3, <1>4
        <5>. QED  BY <1>4, <5>1, <5>2 DEF One
      <4>2. Pending' = (todo \ {e}) \cup StackEntries(stack')
        BY <1>5, <2>1, <1>1 DEF Pending
      <4>3. StackEntries(stack') = StackEntries(stack) \cup (IF e \in Dirs THEN Entries[e] ELSE {})
        BY <1>1, <2>6, StackEntriesPush DEF TypeOK
      <4>4. annot[n] # "none" \/ n \in Below(Pending)
        BY <1>1, <1>5, <1>7, <2>1, <4>6 DEF Covered
      <4>5. n \in Below(Pending) => n \in Below(Pending')
        BY <1>6, <3>4, <4>2, <4>3, BelowStep
      <4>. QED  BY <4>1, <4>4, <4>5
    <3>. QED  BY <3>3, <3>4
  <2>. QED  BY <2>1, <2>8, <2>9, <2>10, <2>11, <1>1, <1>5, <1>10
           DEF IInv, Idle, GuestRooted, RootNotEntry, Terminal
<1>9. CASE rc[e] = 0
  <2>1. guest[e] = 0
    <3>1. rc[e] = guest[e] + Cardinality(Kids(rc, annot, e)) + Held[e]
      BY <1>3
    <3>2. Cardinality(Kids(rc, annot, e)) \in Nat /\ guest[e] \in Nat /\ Held[e] \in Nat
      BY <1>2, <1>4
    <3>. QED  BY <1>9, <3>1, <3>2
  <2>2. UNCHANGED <<rc, annot, stack>> /\ pc' \in {"entries", "insert"}
    BY <1>9 DEF discover
  <2>3. Held' = Held
    BY <1>1, <1>5, <2>2 DEF Held
  <2>4. RefsAccounted'
    BY <1>5, <2>2, <2>3 DEF IInv, RefsAccounted
  <2>5. TypeOK' /\ RootNotEntry'
    <3>1. todo' \subseteq Nodes /\ Root \notin todo'
      BY <1>1, <1>5 DEF IInv, TypeOK, RootNotEntry
    <3>2. pend' \in Dirs /\ pc' \in PCs /\ (pc' = "insert" => pend' # Root)
      BY <1>1, <1>9, <2>2 DEF discover, TypeOK, PCs
    <3>3. TypeOK'
      BY <1>1, <1>5, <2>2, <3>1, <3>2 DEF IInv, TypeOK
    <3>. QED  BY <3>1, <3>2, <3>3 DEF RootNotEntry
  <2>6. Pending' = (todo \ {e}) \cup StackEntries(stack) \cup (IF e \in Dirs THEN Entries[e] ELSE {})
    BY <1>5, <1>9, <2>2 DEF discover, Pending
  <2>7. Covered'
    <3>. SUFFICES ASSUME pc' \in {"pop", "entries", "insert", "ok"},
                         NEW n \in Nodes, rc'[n] > 0
                  PROVE  annot'[n] # "none" \/ n \in Below(Pending')
      BY DEF Covered
    <3>1. n # e /\ annot'[n] = annot[n] /\ rc[n] > 0
      BY <1>9, <2>2
    <3>2. annot[n] # "none" \/ n \in Below(Pending)
      BY <1>1, <3>1, <1>7 DEF Covered
    <3>3. n \in Below(Pending) => n \in Below(Pending')
      BY <1>6, <2>6, <3>1, BelowStep
    <3>. QED  BY <3>1, <3>2, <3>3
  <2>. QED  BY <2>2, <2>4, <2>5, <2>7, <1>5, <1>10
           DEF IInv, Idle, GuestRooted, Evicted, RootUnannotated, Terminal
<1>. QED  BY <1>4, <1>8, <1>9, <1>1 DEF TypeOK

-----------------------------------------------------------------------------
(* The invariants.                                                         *)

\* IInv is inductive.
LEMMA NextIInv == IInv /\ [Next]_vars => IInv'
<1>. SUFFICES ASSUME IInv, [Next]_vars PROVE IInv'
  OBVIOUS
<1>1. CASE execute
  BY <1>1, ExecuteIInv
<1>2. CASE RootFault \/ Restart
  BY <1>2, IdleStep
<1>3. CASE Pop
  BY <1>3, PopIInv
<1>4. CASE EndDir
  BY <1>4, EndDirIInv
<1>5. CASE Insert
  BY <1>5, InsertIInv
<1>6. CASE WalkFault
  BY <1>6, AbortIInv DEF WalkFault
<1>7. CASE \E e \in Nodes : discover(e)
  BY <1>7, DiscoverIInv
<1>8. CASE \E e \in Nodes : CancelWalk(e)
  BY <1>8, AbortIInv DEF CancelWalk
<1>9. CASE \E n \in Nodes : Lookup(n)
  BY <1>9, LookupIInv
<1>10. CASE \E n \in Nodes : Forget(n)
  BY <1>10, ForgetIInv
<1>11. CASE Cancel
  BY <1>11, CancelIInv
<1>12. CASE UNCHANGED vars
  <2>1. Held' = Held /\ Pending' = Pending
    BY <1>12 DEF vars, Held, Pending
  <2>. QED  BY <1>12, <2>1
            DEF vars, IInv, TypeOK, RefsAccounted, Idle, GuestRooted, Evicted,
                RootUnannotated, RootNotEntry, Covered, Dead
<1>. QED  BY <1>1, <1>2, <1>3, <1>4, <1>5, <1>6, <1>7, <1>8, <1>9, <1>10, <1>11, <1>12
          DEF Next, WalkStep

THEOREM PathInductive == Spec => []IInv
BY InitIInv, NextIInv, PTL DEF Spec

\* Every state the walk and the guest reach is well typed (rc never drops
\* below zero: no StrongInodeReference is dropped twice).
THEOREM PathTypeCorrect == Spec => []TypeOK
BY PathInductive, PTL DEF IInv

\* Every strong reference of the inode store is accounted for by a guest
\* lookup, a Path annotation or a reference recurse_from holds, whatever
\* guest requests interleave with the walk.
THEOREM RefsAccountedInvariant == Spec => []RefsAccounted
BY PathInductive, PTL DEF IInv

\* A walk that has returned leaves no record that neither the guest nor an
\* annotation needs: discover's synthetic directories are gone again.
LEMMA LeakFree == IInv => NoSyntheticLeak
<1>. SUFFICES ASSUME IInv, pc \in Terminal, NEW n \in Nodes, rc[n] > 0
              PROVE  guest[n] > 0 \/ \E m \in Nodes : rc[m] > 0 /\ annot[m] = n
  BY DEF NoSyntheticLeak
<1>1. Held = [m \in Nodes |-> 0]
  BY HeldIdle DEF IInv, Idle, Terminal
<1>2. rc[n] = guest[n] + Cardinality(Kids(rc, annot, n))
  <2>1. rc[n] = guest[n] + Cardinality(Kids(rc, annot, n)) + Held[n]
    BY AccountsKids DEF IInv
  <2>2. Cardinality(Kids(rc, annot, n)) \in Nat /\ guest[n] \in Nat
    BY KidsFinite DEF IInv, TypeOK
  <2>. QED  BY <1>1, <2>1, <2>2
<1>3. CASE guest[n] > 0
  BY <1>3
<1>4. CASE guest[n] = 0
  <2>1. Cardinality(Kids(rc, annot, n)) # 0
    BY <1>2, <1>4
  <2>2. Kids(rc, annot, n) # {}
    BY <2>1, FS_EmptySet
  <2>. QED  BY <2>2 DEF Kids
<1>. QED  BY <1>3, <1>4 DEF IInv, TypeOK

THEOREM NoSyntheticLeakInvariant == Spec => []NoSyntheticLeak
BY PathInductive, LeakFree, PTL

\* A walk that returned Ok has annotated every record in the store, whatever
\* guest lookups and forgets ran beside it.
LEMMA Complete == IInv => CompleteWhenOk
<1>. SUFFICES ASSUME IInv, pc = "ok", NEW n \in Nodes, rc[n] > 0
              PROVE  annot[n] # "none"
  BY DEF CompleteWhenOk
<1>1. Pending = {}
  BY StackEntriesEmpty DEF IInv, Idle, Terminal, Pending
<1>2. annot[n] # "none" \/ n \in Below(Pending)
  BY DEF IInv, Covered
<1>. QED  BY <1>1, <1>2 DEF Below

THEOREM CompleteWhenOkInvariant == Spec => []CompleteWhenOk
BY PathInductive, Complete, PTL

\* The parent a Path annotation names holds a reference from it, so it is in
\* the store, and after an Ok walk annotated in turn.
LEMMA ParentsAnnotated == IInv => PathComplete
<1>. SUFFICES ASSUME IInv, pc = "ok", NEW m \in Nodes, rc[m] > 0, annot[m] \in Nodes
              PROVE  annot[annot[m]] # "none"
  BY DEF PathComplete
<1> DEFINE p == annot[m]
<1>1. m \in Kids(rc, annot, p)
  BY DEF Kids
<1>2. Cardinality(Kids(rc, annot, p)) > 0
  BY <1>1, KidsFinite, FS_EmptySet
<1>3. rc[p] = guest[p] + Cardinality(Kids(rc, annot, p)) + Held[p]
  BY AccountsKids DEF IInv
<1>4. guest[p] \in Nat /\ Held[p] \in Nat /\ Cardinality(Kids(rc, annot, p)) \in Nat
  BY HeldType, KidsFinite DEF IInv, TypeOK
<1>5. rc[p] > 0
  BY <1>2, <1>3, <1>4
<1>. QED  BY <1>5, Complete DEF CompleteWhenOk

\* After a walk returned Ok, every Path annotation's parent is annotated
\* too, so serialization can build each path up to the root.
THEOREM PathCompleteInvariant == Spec => []PathComplete
BY PathInductive, ParentsAnnotated, PTL

=============================================================================
