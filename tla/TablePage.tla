------------------------------ MODULE TablePage ------------------------------
(* page/table_page.cpp: a slotted page.  The slot array grows up behind the   *)
(* header, the tuples grow down from the end of the page, and the free space  *)
(* pointer separates them.  Methods are operators on a record, since the heap *)
(* calls them under the page's latch.  Sizes are counted in units of 8 bytes, *)
(* the size of a slot; slots are numbered from 1.                             *)
(*   free   the free space pointer                                            *)
(*   slots  offset and size of each tuple; size 0 is a slot to be reused, a   *)
(*          negative size a tuple that is marked as deleted                   *)
(*   data   the units of the page; what lies below free is not looked at      *)
EXTENDS Integers, Sequences

CONSTANTS
  PageSize,      \* PAGE_SIZE
  Unit,          \* what a unit of data can hold
  Zero           \* a unit of zeros

HeaderSize == 3
SlotSize == 1

ASSUME PageAssumption == PageSize \in Nat /\ PageSize > HeaderSize /\ Zero \in Unit

Slot == [offset : 0 .. PageSize, size : -PageSize .. PageSize]
Page == [free : 0 .. PageSize, slots : Seq(Slot), data : [0 .. PageSize - 1 -> Unit]]

\* Init() of a page that NewPage() has filled with zeros.
NewTablePage ==
  [free |-> PageSize, slots |-> <<>>, data |-> [k \in 0 .. PageSize - 1 |-> Zero]]

FreeSpaceSize(p) == p.free - HeaderSize - Len(p.slots) * SlotSize

\* memmove() of n units inside a page, memcpy() of a tuple into it and out of it.
Moved(data, to, from, n) ==
  [k \in DOMAIN data |-> IF k >= to /\ k < to + n THEN data[k - to + from] ELSE data[k]]
Stored(data, to, tuple) ==
  [k \in DOMAIN data |-> IF k >= to /\ k < to + Len(tuple) THEN tuple[k - to + 1]
                         ELSE data[k]]
Loaded(data, from, n) == [k \in 1 .. n |-> data[from + k - 1]]

Abs(n) == IF n < 0 THEN -n ELSE n
------------------------------------------------------------------------------
\* Mutant: the slots of marked tuples count as empty.
EmptyOrMarked(p) == {i \in DOMAIN p.slots : p.slots[i].size <= 0}

EmptySlots(p) == {i \in DOMAIN p.slots : p.slots[i].size = 0}

\* The slot InsertTuple() takes: the first empty one, or a new one.
InsertSlot(p) ==
  IF EmptySlots(p) = {} THEN Len(p.slots) + 1
  ELSE CHOOSE i \in EmptySlots(p) : \A j \in EmptySlots(p) : i <= j

\* InsertTuple() answers true.
Fits(p, tuple) ==
  FreeSpaceSize(p) >= Len(tuple) + IF EmptySlots(p) = {} THEN SlotSize ELSE 0

WithSlot(slots, i, slot) ==
  IF i = Len(slots) + 1 THEN Append(slots, slot) ELSE [slots EXCEPT ![i] = slot]

InsertTuple(p, tuple) ==
  LET free == p.free - Len(tuple) IN
  [free  |-> free,
   slots |-> WithSlot(p.slots, InsertSlot(p), [offset |-> free, size |-> Len(tuple)]),
   data  |-> Stored(p.data, free, tuple)]

\* A tuple that is there; GetTuple() and the scans skip all others.
Visible(p, i) == i \in DOMAIN p.slots /\ p.slots[i].size > 0

GetTuple(p, i) == Loaded(p.data, p.slots[i].offset, p.slots[i].size)

\* SetTupleSize(): a mark changes the sign of the size.
Flipped(p, i) ==
  LET slot == [offset |-> p.slots[i].offset, size |-> -p.slots[i].size]
  IN  [p EXCEPT !.slots = [@ EXCEPT ![i] = slot]]

MarkDelete(p, i) == IF Visible(p, i) THEN Flipped(p, i) ELSE p

RollbackDelete(p, i) == IF p.slots[i].size < 0 THEN Flipped(p, i) ELSE p

\* The assert of UpdateTuple() and ApplyDelete().
OffsetIsValid(p, i) == p.slots[i].offset >= p.free

\* UpdateTuple() answers true.
CanUpdate(p, i, tuple) ==
  Visible(p, i) /\ FreeSpaceSize(p) >= Len(tuple) - p.slots[i].size

\* The tuples in front of tuple i are moved by the change of its size; so are
\* the offsets, but only those of tuples with a positive size.
UpdateTuple(p, i, tuple) ==
  LET slot  == p.slots[i]
      shift == slot.size - Len(tuple)
      front == slot.offset + slot.size
      moved == Moved(p.data, p.free + shift, p.free, slot.offset - p.free)
      sized == [p.slots EXCEPT ![i].size = Len(tuple)]
  IN
  [free  |-> p.free + shift,
   slots |-> [j \in DOMAIN sized |->
                IF sized[j].size > 0 /\ sized[j].offset < front
                THEN [sized[j] EXCEPT !.offset = @ + shift] ELSE sized[j]],
   data  |-> Stored(moved, slot.offset + shift, tuple)]

\* Mutant: the offsets of the tuples that were moved are left alone.
ApplyDeleteKeepsOffsets(p, i) ==
  LET slot == p.slots[i]
      size == Abs(slot.size)
  IN
  [free  |-> p.free + size,
   slots |-> [p.slots EXCEPT ![i] = [offset |-> 0, size |-> 0]],
   data  |-> Moved(p.data, p.free + size, p.free, slot.offset - p.free)]

\* Removes a tuple, marked or not, and makes its slot free.
ApplyDelete(p, i) ==
  LET slot == p.slots[i]
      size == Abs(slot.size)
      freed == [p.slots EXCEPT ![i] = [offset |-> 0, size |-> 0]]
  IN
  [free  |-> p.free + size,
   slots |-> [j \in DOMAIN freed |->
                IF freed[j].size # 0 /\ freed[j].offset < slot.offset
                THEN [freed[j] EXCEPT !.offset = @ + size] ELSE freed[j]],
   data  |-> Moved(p.data, p.free + size, p.free, slot.offset - p.free)]
------------------------------------------------------------------------------
Used(p) == {i \in DOMAIN p.slots : p.slots[i].size # 0}
Start(p, i) == p.slots[i].offset
Stop(p, i) == p.slots[i].offset + Abs(p.slots[i].size)

\* A page's layout: the slot array ends below the free space pointer, and the
\* tuples that are there or marked as deleted, and nothing else, fill the space
\* above it without overlapping.
LayoutOK(p) ==
  /\ FreeSpaceSize(p) >= 0
  /\ \A i \in Used(p) : p.free <= Start(p, i) /\ Stop(p, i) <= PageSize
  /\ \A i, j \in Used(p) : i # j =>
       Stop(p, i) <= Start(p, j) \/ Stop(p, j) <= Start(p, i)
  /\ \A k \in p.free .. PageSize - 1 :
       \E i \in Used(p) : Start(p, i) <= k /\ k < Stop(p, i)
==============================================================================
