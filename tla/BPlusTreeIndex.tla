----------------------------- MODULE BPlusTreeIndex -----------------------------
(* index/b_plus_tree_index.cpp over index/b_plus_tree.cpp, used by one thread:  *)
(* any sequence of calls.                                                       *)
EXTENDS BPlusTree

CONSTANT
  Fills        \* bounds on the calls: any, a set of rows that may be inserted at any
               \* time, or rest, rows to insert in this order before the other calls

VARIABLES
  tree,
  answer,      \* what the last call returned
  fill

vars == <<tree, answer, fill>>

Init ==
  /\ tree \in {EmptyTree(s) : s \in Sizes}
  /\ fill \in Fills
  /\ answer = NotFound

Insert(key, value) ==
  /\ tree.ok
  /\ IF IsEmpty(tree)
     THEN tree' = StartNewTree(tree, key, value) /\ answer' = TRUE
     ELSE LET p == FindLeaf(tree, tree.root, key)
              t == Assert_(tree, LookupsHold(tree, tree.root, key))
          IN  IF Contains(tree.pages[p], key)
              THEN tree' = t /\ answer' = FALSE
              ELSE tree' = InsertIntoLeaf(t, p, key, value) /\ answer' = TRUE

Remove(key) ==
  /\ tree.ok
  /\ tree' = IF IsEmpty(tree) THEN tree ELSE RemoveKey(tree, key)
  /\ answer' = NotFound

GetValue(key) ==
  /\ tree.ok
  /\ answer' = GetValueOf(tree, key)
  /\ UNCHANGED tree

Next ==
  \/ UNCHANGED fill /\ \E e \in fill.any : Insert(e[1], e[2])
  \/ /\ fill.rest # <<>>
     /\ Insert(Head(fill.rest)[1], Head(fill.rest)[2])
     /\ fill' = [fill EXCEPT !.rest = Tail(@)]
  \/ fill.rest = <<>> /\ UNCHANGED fill /\ \E key \in Key : Remove(key) \/ GetValue(key)

Spec == Init /\ [][Next]_vars
--------------------------------------------------------------------------------
\* The asserts of the page and tree methods hold after any sequence of calls: no
\* page is searched with one child, overfilled by a merge, or given an entry it
\* has no room for.
AssertsHold == tree.ok

\* "expose for test purpose": the tree's own Check() never finds fault with the
\* order of keys, the sizes or the depth.
CheckPasses == Check(tree)

\* Splits, merges and borrowing leave a search tree: every page below the root,
\* and no other, exists, knows its parent and holds keys between the separators
\* above it; and the leaves' next_page_id_ lead through all of them in order.
WellLinked == Linked(tree)

\* The unused first key of an internal page is its separator in the parent.
\* MoveFirstToEndOf() hands it on as a separator without looking at the parent.
FirstKeysAgree ==
  \A p \in DOMAIN tree.pages :
    LET page == tree.pages[p]
        parent == tree.pages[page.parent]
    IN  ~page.leaf /\ ~IsRootPage(page) => KeyAt(page, 0) = KeyAt(parent, ValueIndex(parent, p))

\* After any sequence of calls the tree is a B+ tree: the asserts held, Check()
\* passes, and links, separators and first keys agree.
TreeSound == AssertsHold /\ CheckPasses /\ WellLinked /\ FirstKeysAgree

\* "Call this method everytime root page id is changed": the header page never
\* names a page that is not the root.  It names none for a tree that was emptied
\* and filled again, since InsertRecord() leaves the old record alone.
HeaderNamesRoot ==
  GetRootId(tree.header, IndexName, INVALID_PAGE_ID) \in {tree.root, INVALID_PAGE_ID}

\* An iterator from Begin() or Begin(key) passes every key from there on, once and
\* in order; before them it stands behind the end of a leaf if that leaf has no
\* such key.
ScanComplete ==
  /\ ScanAll(tree) = Sorted(KeysFrom(tree, ZeroKey))
  /\ \A key \in Key :
       LET p == FindLeaf(tree, tree.root, key)
           behind == ~IsEmpty(tree) /\ KeyIndex(tree.pages[p], key) = GetSize(tree.pages[p])
       IN  ScanFrom(tree, key) =
             (IF behind THEN <<NotFound>> ELSE <<>>) \o Sorted(KeysFrom(tree, key))

\* The tree is a map with unique keys, and GetValue() and Insert() answer so.
Map == INSTANCE OrderedMap WITH map <- Contents(tree)
ImplementsMap == Map!MapSpec
================================================================================
