------------------------------- MODULE BPlusTree -------------------------------
(* index/b_plus_tree.cpp, include/index/index_iterator.h: what the methods of  *)
(* the tree do, as operators.  A tree is a record: the pages that exist,        *)
(* root_page_id_, the header page, the sizes that its pages get, and whether    *)
(* every assert has held.  A new page gets the least free id, as ids only tell  *)
(* pages apart.  The methods are split so that BPlusTreeLatches can cut them    *)
(* where a latch is taken.                                                      *)
EXTENDS BPlusTreePage, HeaderPage, FiniteSets

CONSTANTS
  Row,         \* the pairs <<key, value>> that may be inserted
  Sizes,       \* the max_size_ of leaf and internal pages a key type may have
  NotFound

Key == {e[1] : e \in Row}
IndexName == "index"
TableName == "table"

\* The code computes max_size_ from the page size; for each of its key sizes that
\* of a leaf is odd, and a full page has room for one entry more.
ASSUME SizesAssumption ==
  /\ \A s \in Sizes : s.leaf % 2 = 1 /\ s.leaf >= 3 /\ s.internal >= 3
  /\ \A k \in {4, 8, 16, 32, 64} :
       /\ LeafMaxSize(512, k) % 2 = 1 /\ LeafMaxSize(512, k) >= 3
       /\ 28 + (LeafMaxSize(512, k) + 1) * (k + 8) <= 512
       /\ InternalMaxSize(512, k) >= 3
       /\ 24 + (InternalMaxSize(512, k) + 1) * (k + 4) <= 512

\* The table has its record before the index (virtual_table.cpp:54).
EmptyTree(s) ==
  [pages |-> <<>>, root |-> INVALID_PAGE_ID, ok |-> TRUE, max |-> s,
   header |-> InsertRecord(<<>>, TableName, 1)]

\* The buffer pool's side.
NewPageId(t) == CHOOSE p \in 1 .. Cardinality(DOMAIN t.pages) + 1 :
                  /\ p \notin DOMAIN t.pages
                  /\ \A q \in 1 .. p - 1 : q \in DOMAIN t.pages
Put(t, p, page) ==
  [t EXCEPT !.pages = [q \in DOMAIN @ \cup {p} |-> IF q = p THEN page ELSE @[q]]]
DeletePages(t, ps) == [t EXCEPT !.pages = [q \in DOMAIN @ \ ps |-> @[q]]]
Assert_(t, cond) == [t EXCEPT !.ok = @ /\ cond]

IsEmpty(t) == t.root = INVALID_PAGE_ID

\* Mutant: the header page is not told.
SetRootOnly(t, p) == [t EXCEPT !.root = p]

\* UpdateRootPageId(), after root_page_id_ has been assigned.
SetRoot(t, p) ==
  [t EXCEPT !.root = p, !.header = UpdateRecord(@, IndexName, p)]
SetFirstRoot(t, p) ==
  [t EXCEPT !.root = p, !.header = InsertRecord(@, IndexName, p)]

\* The children of a page that has just received them.
Adopt(t, p, children) ==
  [t EXCEPT !.pages = [q \in DOMAIN @ |-> IF q \in children THEN [@[q] EXCEPT !.parent = p]
                                                            ELSE @[q]]]
Children(page) == {page.items[i].value : i \in 1 .. Len(page.items)}

RECURSIVE FindLeaf(_, _, _)
FindLeaf(t, p, key) ==
  IF t.pages[p].leaf THEN p ELSE FindLeaf(t, ChildFor(t.pages[p], key), key)

\* Lookup() asserts that a page it searches has two children.
RECURSIVE LookupsHold(_, _, _)
LookupsHold(t, p, key) ==
  t.pages[p].leaf \/ (GetSize(t.pages[p]) >= 2 /\ LookupsHold(t, ChildFor(t.pages[p], key), key))

RECURSIVE LeftmostLeaf(_, _)
LeftmostLeaf(t, p) == IF t.pages[p].leaf THEN p ELSE LeftmostLeaf(t, ValueAt(t.pages[p], 0))
--------------------------------------------------------------------------------
\* Insertion.
StartNewTree(t, key, value) ==
  LET p == NewPageId(t)
  IN  Put(SetFirstRoot(t, p), p, LeafInsert(LeafInit(INVALID_PAGE_ID, t.max.leaf), key, value))

\* Split(): half of the entries of p go to a new page; of an internal page the
\* children with them.
Split(t, p) ==
  LET old == t.pages[p]
      new == NewPageId(t)
      moved == IF old.leaf
               THEN LeafMoveHalfTo(old, LeafInit(old.parent, old.max), new)
               ELSE InternalMoveHalfTo(old, InternalInit(old.parent, old.max))
      after == Put(Put(t, p, moved.from), new, moved.to)
  IN  [id   |-> new,
       tree |-> IF old.leaf THEN after
                ELSE Adopt(Assert_(after, GetSize(old) = old.max + 1), new, Children(moved.to))]

RECURSIVE InsertIntoParent(_, _, _)
InsertIntoParent(t, old, new) ==
  LET key == KeyAt(t.pages[new], 0)
  IN  IF IsRootPage(t.pages[old])
      THEN LET root == NewPageId(t)
               page == PopulateNewRoot(InternalInit(INVALID_PAGE_ID, t.max.internal), old, key, new)
           IN  Adopt(SetRoot(Put(t, root, page), root), root, {old, new})
      ELSE LET parent == t.pages[old].parent
               page == InsertNodeAfter(t.pages[parent], old, key, new)
               after == Put(Adopt(Assert_(t, ValueIndex(t.pages[parent], old) >= 0), parent, {new}),
                            parent, page)
               split == Split(after, parent)
           IN  IF GetSize(page) > page.max
               THEN InsertIntoParent(split.tree, parent, split.id)
               ELSE after

\* InsertIntoLeaf(), once the leaf p is found and does not hold key.
InsertIntoLeaf(t, p, key, value) ==
  LET after == Put(t, p, LeafInsert(t.pages[p], key, value))
      split == Split(after, p)
  IN  IF GetSize(after.pages[p]) > after.pages[p].max
      THEN InsertIntoParent(split.tree, p, split.id)
      ELSE after
--------------------------------------------------------------------------------
\* Removal.

\* Whether p, after it has lost an entry, is to be merged or refilled.
Underflows(page) ==
  IF page.leaf THEN GetSize(page) < GetMinSize(page) ELSE GetSize(page) <= GetMinSize(page)

\* FindLeftSibling(): the left neighbour under the same parent, or the right one
\* of the first child.
Sibling(t, p) ==
  LET parent == t.pages[t.pages[p].parent]
      i == ValueIndex(parent, p)
  IN  ValueAt(parent, IF i = 0 THEN 1 ELSE i - 1)

\* Coalesce() of right into left, without what it may cause further up.
Coalesce(t, left, right) ==
  LET parent == t.pages[left].parent
      i == ValueIndex(t.pages[parent], right)
      l == t.pages[left]
      r == t.pages[right]
      merged == IF l.leaf THEN LeafMoveAllTo(r, l)
                ELSE InternalMoveAllTo(r, l, KeyAt(t.pages[parent], i))
      after == Put(Put(Put(t, left, merged), right, WithItems(r, <<>>)), parent,
                   WithItems(t.pages[parent], RemovedAt(t.pages[parent].items, i)))
  IN  IF l.leaf THEN after
      ELSE Adopt(Assert_(after, GetSize(merged) <= r.max), left, Children(r))

\* Mutant: the parent's key stays.
RedistributeKeepsKey(t, sibling, p) ==
  LET i == ValueIndex(t.pages[t.pages[p].parent], p)
      moved == IF i = 0 THEN MoveFirstToEndOf(t.pages[sibling], t.pages[p])
                        ELSE MoveLastToFrontOf(t.pages[sibling], t.pages[p])
      child == ValueAt(t.pages[sibling], IF i = 0 THEN 0 ELSE GetSize(t.pages[sibling]) - 1)
      after == Put(Put(t, sibling, moved.from), p, moved.to)
  IN  IF t.pages[p].leaf THEN after ELSE Adopt(after, p, {child})

\* Redistribute(): one entry from the sibling; the parent's key follows.
Redistribute(t, sibling, p) ==
  LET parent == t.pages[p].parent
      i == ValueIndex(t.pages[parent], p)
      moved == IF i = 0 THEN MoveFirstToEndOf(t.pages[sibling], t.pages[p])
                        ELSE MoveLastToFrontOf(t.pages[sibling], t.pages[p])
      child == ValueAt(t.pages[sibling], IF i = 0 THEN 0 ELSE GetSize(t.pages[sibling]) - 1)
      separator ==
        IF i = 0
        THEN SetKeyAt(t.pages[parent], ValueIndex(t.pages[parent], sibling), KeyAt(moved.from, 0))
        ELSE SetKeyAt(t.pages[parent], i, KeyAt(moved.to, 0))
      after == Put(Put(Put(t, sibling, moved.from), p, moved.to), parent, separator)
      size == GetSize(t.pages[p])
  IN  Assert_(IF t.pages[p].leaf THEN after ELSE Adopt(after, p, {child}),
              IF i = 0 THEN size + 1 <= t.pages[p].max ELSE size + 1 < t.pages[p].max)

AdjustRoot(t, p) ==
  LET page == t.pages[p]
      child == ValueAt(page, 0)
  IN  IF GetSize(page) = 1
      THEN [tree    |-> Adopt(SetRoot(Put(t, p, WithItems(page, <<>>)), child), INVALID_PAGE_ID, {child}),
            deleted |-> {p}]
      ELSE IF page.leaf
      THEN [tree    |-> Assert_(SetRoot(t, INVALID_PAGE_ID), GetSize(page) = 0),
            deleted |-> {p}]
      ELSE [tree |-> t, deleted |-> {}]

\* CoalesceOrRedistribute() of p with its sibling: the tree, the page that is
\* left over, and whether the parent is the next one to look at.
Rebalance(t, p, sibling) ==
  LET first == ValueIndex(t.pages[t.pages[p].parent], p) = 0
      left == IF first THEN p ELSE sibling
      right == IF first THEN sibling ELSE p
      merged == Coalesce(t, left, right)
  IN  IF GetSize(t.pages[p]) + GetSize(t.pages[sibling]) <= t.pages[p].max
      THEN [tree |-> merged, deleted |-> {right}, up |-> Underflows(merged.pages[t.pages[p].parent])]
      ELSE [tree |-> Redistribute(t, sibling, p), deleted |-> {}, up |-> FALSE]

RECURSIVE CoalesceOrRedistribute(_, _, _)
CoalesceOrRedistribute(t, p, deleted) ==
  IF IsRootPage(t.pages[p])
  THEN [AdjustRoot(t, p) EXCEPT !.deleted = @ \cup deleted]
  ELSE LET r == Rebalance(t, p, Sibling(t, p))
       IN  IF r.up
           THEN CoalesceOrRedistribute(r.tree, t.pages[p].parent, deleted \cup r.deleted)
           ELSE [tree |-> r.tree, deleted |-> deleted \cup r.deleted]

RemoveFromLeaf(t, p, key) == Put(t, p, RemoveAndDeleteRecord(t.pages[p], key))

\* Remove() of a tree that is not empty.
RemoveKey(t, key) ==
  LET p == FindLeaf(t, t.root, key)
      removed == RemoveFromLeaf(Assert_(t, LookupsHold(t, t.root, key)), p, key)
      r == CoalesceOrRedistribute(removed, p, {})
  IN  IF Underflows(removed.pages[p]) THEN DeletePages(r.tree, r.deleted) ELSE removed
--------------------------------------------------------------------------------
GetValueOf(t, key) ==
  IF IsEmpty(t) THEN NotFound
  ELSE LET page == t.pages[FindLeaf(t, t.root, key)]
       IN  IF Contains(page, key) THEN ValueAt(page, KeyIndex(page, key)) ELSE NotFound
--------------------------------------------------------------------------------
\* Check(): the test the tree comes with.  A page's keys and size, and the
\* interval of keys it reports to its parent.
RECURSIVE isPageCorr(_, _)
isPageCorr(t, p) ==
  LET page == t.pages[p]
      n == GetSize(page)
      child(i) == t.pages[ValueAt(page, i)]
  IN  /\ n \in GetMinSize(page) .. page.max
      /\ IF page.leaf
         THEN \A i \in 1 .. n - 1 : KeyAt(page, i - 1) <= KeyAt(page, i)
         ELSE /\ \A i \in 0 .. n - 1 : isPageCorr(t, ValueAt(page, i))
              /\ \A i \in 1 .. n - 1 :
                   /\ KeyAt(page, i) > KeyAt(child(i - 1), GetSize(child(i - 1)) - 1)
                   /\ KeyAt(page, i) <= KeyAt(child(i), 0)
                   /\ i > 1 => KeyAt(page, i - 1) < KeyAt(page, i)

\* Height of the subtree at p, or -1 if its leaves are not all equally deep.
RECURSIVE isBalanced(_, _)
isBalanced(t, p) ==
  LET page == t.pages[p]
      heights == {isBalanced(t, ValueAt(page, i)) : i \in 0 .. GetSize(page) - 1}
  IN  IF page.leaf THEN 0
      ELSE IF Cardinality(heights) = 1 /\ -1 \notin heights
      THEN 1 + CHOOSE h \in heights : TRUE
      ELSE -1

Check(t) == IsEmpty(t) \/ (isPageCorr(t, t.root) /\ isBalanced(t, t.root) >= 0)

\* What an iterator yields that stands at entry i of leaf p: the keys it passes
\* on its way, and NotFound where it stands behind the last entry of its leaf or
\* on a page that is gone.
RECURSIVE Scan(_, _, _)
Scan(t, p, i) ==
  IF p = INVALID_PAGE_ID THEN <<>>
  ELSE IF p \notin DOMAIN t.pages THEN <<NotFound>>
  ELSE LET page == t.pages[p]
       IN  <<IF i < GetSize(page) THEN KeyAt(page, i) ELSE NotFound>> \o
           (IF i + 1 >= GetSize(page) THEN Scan(t, page.next, 0) ELSE Scan(t, p, i + 1))

ScanAll(t) == IF IsEmpty(t) THEN <<>> ELSE Scan(t, LeftmostLeaf(t, t.root), 0)
ScanFrom(t, key) ==
  IF IsEmpty(t) THEN <<>>
  ELSE LET p == FindLeaf(t, t.root, key) IN Scan(t, p, KeyIndex(t.pages[p], key))
--------------------------------------------------------------------------------
\* The pages below p, p included, and the leaves among them from left to right.
RECURSIVE Subtree(_, _)
Subtree(t, p) ==
  {p} \cup IF t.pages[p].leaf THEN {} ELSE UNION {Subtree(t, c) : c \in Children(t.pages[p])}
RECURSIVE Leaves(_, _)
Leaves(t, p) ==
  LET page == t.pages[p]
      under[i \in 0 .. GetSize(page)] ==
        IF i = 0 THEN <<>> ELSE under[i - 1] \o Leaves(t, ValueAt(page, i - 1))
  IN  IF page.leaf THEN <<p>> ELSE under[GetSize(page)]

Pairs(page) == {<<page.items[i].key, page.items[i].value>> : i \in 1 .. Len(page.items)}
Contents(t) ==
  IF IsEmpty(t) THEN {}
  ELSE UNION {Pairs(t.pages[p]) : p \in {q \in Subtree(t, t.root) : t.pages[q].leaf}}

\* The keys below p lie between those of the separators above them, and every
\* child knows its parent.
RECURSIVE Within(_, _, _, _)
Within(t, p, low, high) ==
  LET page == t.pages[p]
      n == GetSize(page)
  IN  IF page.leaf
      THEN /\ \A i \in 0 .. n - 1 : low <= KeyAt(page, i) /\ KeyAt(page, i) < high
           /\ \A i \in 1 .. n - 1 : KeyAt(page, i - 1) < KeyAt(page, i)
      ELSE \A i \in 0 .. n - 1 :
             /\ t.pages[ValueAt(page, i)].parent = p
             /\ Within(t, ValueAt(page, i), IF i = 0 THEN low ELSE KeyAt(page, i),
                                            IF i = n - 1 THEN high ELSE KeyAt(page, i + 1))

\* A key above all others.
Top == 1 + CHOOSE k \in Key : \A j \in Key : j <= k

\* The pages that exist are those below the root, they know their parents, their
\* keys are in their places, and the leaves are chained in order.
Linked(t) ==
  IF IsEmpty(t) THEN DOMAIN t.pages = {}
  ELSE LET ls == Leaves(t, t.root)
       IN  /\ IsRootPage(t.pages[t.root])
           /\ Subtree(t, t.root) = DOMAIN t.pages
           /\ Within(t, t.root, ZeroKey, Top)
           /\ \A i \in 1 .. Len(ls) :
                t.pages[ls[i]].next = IF i = Len(ls) THEN INVALID_PAGE_ID ELSE ls[i + 1]

\* The numbers of a finite set in ascending order.
RECURSIVE Sorted(_)
Sorted(S) ==
  IF S = {} THEN <<>>
  ELSE LET least == CHOOSE k \in S : \A j \in S : k <= j IN <<least>> \o Sorted(S \ {least})
KeysFrom(t, key) == {e[1] : e \in {f \in Contents(t) : f[1] >= key}}
================================================================================
