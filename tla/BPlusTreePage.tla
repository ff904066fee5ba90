---------------------------- MODULE BPlusTreePage ----------------------------
(* page/b_plus_tree_{page,leaf_page,internal_page}.cpp: the pages of the      *)
(* index as records.  items holds the first size_ entries of array, each a    *)
(* key with a value (leaf) or with the page id of a child (internal page);    *)
(* indices count from 0, as in the code.  A method that moves entries between *)
(* two pages gives both of them back.                                         *)
EXTENDS Integers, Sequences

INVALID_PAGE_ID == -1

\* What the zeroed memory of a new page holds where no key was written.
ZeroKey == 0

KeyAt(p, i) == p.items[i + 1].key
ValueAt(p, i) == p.items[i + 1].value
GetSize(p) == Len(p.items)
IsRootPage(p) == p.parent = INVALID_PAGE_ID

\* Init() of either kind.  max_size_ leaves room for one entry more than it says.
LeafInit(parent, max) ==
  [leaf |-> TRUE, parent |-> parent, next |-> INVALID_PAGE_ID, max |-> max, items |-> <<>>]
InternalInit(parent, max) ==
  [leaf |-> FALSE, parent |-> parent, next |-> INVALID_PAGE_ID, max |-> max, items |-> <<>>]

\* sizeof(BPlusTreePage) is 24, an entry has the key and 8 (RID) or 4 (page_id_t) bytes.
LeafMaxSize(pageSize, keySize) == (pageSize - 24) \div (keySize + 8) - 1
InternalMaxSize(pageSize, keySize) == (pageSize - 24) \div (keySize + 4) - 1

GetMinSize(p) ==
  IF IsRootPage(p) THEN (IF p.leaf THEN 1 ELSE 2) ELSE p.max \div 2

\* Mutant: the same margin for both kinds of pages.
IsSafeAlike(p, op) ==
  CASE op = "INSERT" -> GetSize(p) < p.max
    [] op = "DELETE" -> GetSize(p) >= GetMinSize(p) + 1
    [] OTHER -> FALSE

\* Whether an operation below p cannot change p's parent.
IsSafe(p, op) ==
  CASE op = "INSERT" -> GetSize(p) < p.max
    [] op = "DELETE" -> IF p.leaf THEN GetSize(p) >= GetMinSize(p) + 1
                                  ELSE GetSize(p) > GetMinSize(p) + 1
    [] OTHER -> FALSE

Take(s, n) == SubSeq(s, 1, n)
Drop(s, n) == SubSeq(s, n + 1, Len(s))
InsertedAt(s, i, e) == Take(s, i) \o <<e>> \o Drop(s, i)
RemovedAt(s, i) == Take(s, i) \o Drop(s, i + 1)
WithItems(p, s) == [p EXCEPT !.items = s]
------------------------------------------------------------------------------
\* Leaf pages.

\* The binary search: the first index whose key is not below key.
KeyIndex(p, key) ==
  LET search[l \in 0 .. GetSize(p), r \in -1 .. GetSize(p) - 1] ==
        LET mid == (l + r) \div 2
        IN  IF l > r THEN r + 1
            ELSE IF KeyAt(p, mid) >= key THEN search[l, mid - 1] ELSE search[mid + 1, r]
  IN  search[0, GetSize(p) - 1]

Contains(p, key) ==
  KeyIndex(p, key) < GetSize(p) /\ KeyAt(p, KeyIndex(p, key)) = key

LeafInsert(p, key, value) ==
  WithItems(p, InsertedAt(p.items, KeyIndex(p, key), [key |-> key, value |-> value]))

RemoveAndDeleteRecord(p, key) ==
  IF Contains(p, key) THEN WithItems(p, RemovedAt(p.items, KeyIndex(p, key))) ELSE p

\* Mutant: the page that is split keeps its successor.
LeafMoveHalfSkips(p, recipient, recipientId) ==
  LET half == (p.max + 1) \div 2
  IN  [from |-> WithItems(p, Take(p.items, half)),
       to   |-> [recipient EXCEPT !.items = SubSeq(p.items, half + 1, 2 * half),
                                  !.next = p.next]]

\* MoveHalfTo(): the recipient is told the size of the half that stays.
LeafMoveHalfTo(p, recipient, recipientId) ==
  LET half == (p.max + 1) \div 2
  IN  [from |-> [p EXCEPT !.items = Take(@, half), !.next = recipientId],
       to   |-> [recipient EXCEPT !.items = SubSeq(p.items, half + 1, 2 * half),
                                  !.next = p.next]]

\* Mutant: the chain of leaves still leads to p.
LeafMoveAllKeepsNext(p, recipient) == [recipient EXCEPT !.items = @ \o p.items]

LeafMoveAllTo(p, recipient) ==
  [recipient EXCEPT !.items = @ \o p.items, !.next = p.next]
------------------------------------------------------------------------------
\* Internal pages: the key of the first entry is not used to search.

ValueIndex(p, value) ==
  IF \E i \in 0 .. GetSize(p) - 1 : ValueAt(p, i) = value
  THEN CHOOSE i \in 0 .. GetSize(p) - 1 :
         ValueAt(p, i) = value /\ \A j \in 0 .. i - 1 : ValueAt(p, j) # value
  ELSE -1

\* Mutant: a key equal to a separator is sought to its left.
ChildForBelow(p, key) ==
  LET search[l \in 1 .. GetSize(p), r \in 0 .. GetSize(p) - 1] ==
        LET mid == (l + r) \div 2
        IN  IF l > r THEN l - 1
            ELSE IF KeyAt(p, mid) < key THEN search[mid + 1, r] ELSE search[l, mid - 1]
  IN  ValueAt(p, search[1, GetSize(p) - 1])

\* Lookup(): the child whose subtree may hold key.
ChildFor(p, key) ==
  LET search[l \in 1 .. GetSize(p), r \in 0 .. GetSize(p) - 1] ==
        LET mid == (l + r) \div 2
        IN  IF l > r THEN l - 1
            ELSE IF KeyAt(p, mid) <= key THEN search[mid + 1, r] ELSE search[l, mid - 1]
  IN  ValueAt(p, search[1, GetSize(p) - 1])

PopulateNewRoot(p, old, key, new) ==
  WithItems(p, <<[key |-> ZeroKey, value |-> old], [key |-> key, value |-> new]>>)

InsertNodeAfter(p, old, key, new) ==
  WithItems(p, InsertedAt(p.items, ValueIndex(p, old) + 1, [key |-> key, value |-> new]))

InternalMoveHalfTo(p, recipient) ==
  LET half == (p.max + 1) \div 2
  IN  [from |-> WithItems(p, Take(p.items, half)),
       to   |-> WithItems(recipient, Drop(p.items, half))]

\* MoveAllTo(): the separating key comes down from the parent.
InternalMoveAllTo(p, recipient, separator) ==
  WithItems(recipient, recipient.items \o [p.items EXCEPT ![1].key = separator])

SetKeyAt(p, i, key) == WithItems(p, [p.items EXCEPT ![i + 1].key = key])
------------------------------------------------------------------------------
\* Both kinds: MoveFirstToEndOf() and MoveLastToFrontOf(), without the parent's key.
MoveFirstToEndOf(p, recipient) ==
  [from |-> WithItems(p, Tail(p.items)),
   to   |-> WithItems(recipient, Append(recipient.items, Head(p.items)))]
MoveLastToFrontOf(p, recipient) ==
  [from |-> WithItems(p, Take(p.items, GetSize(p) - 1)),
   to   |-> WithItems(recipient, <<p.items[GetSize(p)]>> \o recipient.items)]
==============================================================================
