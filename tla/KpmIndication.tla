--------------------------- MODULE KpmIndication ---------------------------
(***************************************************************************)
(* An IndicationMessageHelper collects measurement lists; a                *)
(* KpmIndicationMessage is built from them, encoded and destroyed.  A list *)
(* lives at an address and is freed with its last Ptr.  Format 1 (a cell)  *)
(* borrows the items of its list, Format 2 (UEs) copies their values into  *)
(* a matrix, metric by metric, in the order of std::set<Ptr>: the order of *)
(* the addresses.  The trees built for the encoder are never freed; they   *)
(* are not part of the state.  The encoder is external: it reads the tree. *)
(***************************************************************************)
EXTENDS Integers, Sequences, FiniteSets, SequencesExt

CONSTANTS
  Address,      \* places a MeasurementItemList can be allocated at
  Data,         \* what a list was filled with: an id and its values
  Counts,       \* numbers of items a list may have
  None,         \* no list, a null Ptr
  Undefined     \* a value read out of bounds or from freed memory

ASSUME AddressesAreOrdered == Address \subseteq Nat /\ IsFiniteSet(Address)
ASSUME CountsAreNatural == Counts \subseteq Nat
ASSUME NoneIsNoAddress == None \notin Address
ASSUME NoneIsNoList == None \notin [data : Data, n : Counts]

Target == {"cell", "ue", "other"}   \* "other" is also the default argument

VARIABLES
  lists,     \* per address, the list that lives there, or None
  cell,      \* m_cellMeasurementItems
  ues,       \* m_ueIndications
  pc,        \* where the constructor of the message is
  target,    \* the target type the message is for
  local,     \* cellItems, the Ptr of the FORMART1 case
  tree,      \* the message handed to the encoder
  buffer     \* m_buffer: wild, null, or what it encodes

helper == <<lists, cell, ues>>
vars == <<helper, pc, target, local, tree, buffer>>

NoTree == [format |-> 0]
Wild == [format |-> -1]
NullBuffer == [format |-> -2]
NoMessage == [format |-> -3]

Item == Data \X (Nat \ {0})
Encoded(b) == b.format \in {1, 2}

Init ==
  /\ lists = [a \in Address |-> None]
  /\ cell = None
  /\ ues = {}
  /\ pc = "none"
  /\ target = "other"
  /\ local = None
  /\ tree = NoTree
  /\ buffer = NoMessage

-----------------------------------------------------------------------------
(* The helper *)

Free(a) == lists[a] = None
Lists == [data : Data, n : Counts]

\* What the heap becomes when the last Ptr to each address of A goes.
Released(A) == [a \in Address |-> IF a \in A THEN None ELSE lists[a]]

\* Calls on the helper come between messages: one thread builds them.
BetweenMessages == pc \in {"none", "built"}

\* AddgNBUeItem, AddeNBUePmItem: the new list goes wherever the allocator puts
\* it, and that is its place among the others.
AddUe(a, l) ==
  /\ BetweenMessages
  /\ Free(a)
  /\ lists' = [lists EXCEPT ![a] = l]
  /\ ues' = ues \cup {a}
  /\ UNCHANGED <<cell, pc, target, local, tree, buffer>>

\* Mutant: the pointer is overwritten without releasing the old list.
AddCellLeaks(a, l) ==
  /\ BetweenMessages
  /\ Free(a)
  /\ lists' = [lists EXCEPT ![a] = l]
  /\ cell' = a
  /\ UNCHANGED <<ues, pc, target, local, tree, buffer>>

\* AddgNBCellItem, AddeNBCellPmItem: a new list each time, allocated before the
\* assignment drops the previous one.
AddCell(a, l) ==
  /\ BetweenMessages
  /\ Free(a)
  /\ lists' = [Released({cell}) EXCEPT ![a] = l]
  /\ cell' = a
  /\ UNCHANGED <<ues, pc, target, local, tree, buffer>>

\* The helper goes and another one takes its place; a message built from it
\* may outlive it.
DestroyHelper ==
  /\ BetweenMessages
  /\ lists' = Released({cell} \cup ues)
  /\ cell' = None
  /\ ues' = {}
  /\ UNCHANGED <<pc, target, local, tree, buffer>>

-----------------------------------------------------------------------------
(* The message *)

\* CreateIndicationMessage: the constructor initialises neither m_buffer nor
\* m_size; its descriptor is freed at once and replaced by a new one.
Construct(t) ==
  /\ pc = "none"
  /\ pc' = "switch"
  /\ target' = t
  /\ buffer' \in {Wild, NullBuffer}
  /\ UNCHANGED <<helper, local, tree>>

UseCellList ==
  /\ pc = "switch" /\ target = "cell"
  /\ cell # None
  /\ local' = cell
  /\ pc' = "format1"
  /\ UNCHANGED <<helper, target, tree, buffer>>

\* No cell list: a list of four default items takes its place.
CreateDefaultList(a, l) ==
  /\ pc = "switch" /\ target = "cell"
  /\ cell = None
  /\ Free(a)
  /\ l.n > 0
  /\ lists' = [lists EXCEPT ![a] = l]
  /\ local' = a
  /\ pc' = "format1"
  /\ UNCHANGED <<cell, ues, target, tree, buffer>>

\* The Ptr local goes at the end of its block; the helper's list has another.
ReleaseLocal ==
  /\ lists' = IF local = cell THEN lists ELSE Released({local})
  /\ local' = None
  /\ UNCHANGED <<cell, ues>>

\* Mutant: the list is released whoever owns it.
ReleaseLocalAlways ==
  /\ lists' = Released({local})
  /\ local' = None
  /\ UNCHANGED <<cell, ues>>

\* A list without items gives no measData, and the message stays unencoded.
SkipFormat1 ==
  /\ pc = "format1"
  /\ lists[local].n = 0
  /\ pc' = "built"
  /\ ReleaseLocal
  /\ UNCHANGED <<target, tree, buffer>>

\* FillKpmIndicationMessageFormat1: pointers to the items of the list go in.
FillFormat1 ==
  /\ pc = "format1"
  /\ lists[local].n > 0
  /\ tree' = [format |-> 1, from |-> local, n |-> lists[local].n]
  /\ pc' = "leaving"
  /\ UNCHANGED <<helper, target, local, buffer>>

\* Mutant: the block is left with another Ptr still on the list.
LeaveFormat1KeepsLocal ==
  /\ pc = "leaving"
  /\ pc' = "encoding"
  /\ UNCHANGED <<helper, target, local, tree, buffer>>

\* Mutant: leaving the block frees the items of whichever list it was.
LeaveFormat1FreesItems ==
  /\ pc = "leaving"
  /\ pc' = "encoding"
  /\ ReleaseLocalAlways
  /\ UNCHANGED <<target, tree, buffer>>

\* break leaves the block of the case, and with it cellItems.
LeaveFormat1 ==
  /\ pc = "leaving"
  /\ pc' = "encoding"
  /\ ReleaseLocal
  /\ UNCHANGED <<target, tree, buffer>>

\* Mutant: a set of lists, not of pointers; two equal ones become one.
UeListsOnce == SetToSeq({lists[a] : a \in ues})

\* The k-th pointer of a std::set: k - 1 of the others are smaller.
Kth(ptrs, k) == CHOOSE a \in ptrs : Cardinality({b \in ptrs : b < a}) = k - 1

\* What a set of pointers leads to, in the order std::set iterates it.
Dereferenced(ptrs, heap) == [k \in 1..Cardinality(ptrs) |-> heap[Kth(ptrs, k)]]

\* The UE lists in that order.
UeLists == Dereferenced(ues, lists)

\* Mutant: one UE after the other.
MatrixByUe(us) ==
  LET M == us[1].n
  IN  [k \in 1..(M * Len(us)) |->
         LET u == us[1 + ((k - 1) \div M)]  m == 1 + ((k - 1) % M)
         IN  IF m <= u.n THEN <<u.data, m>> ELSE Undefined]

\* Metric by metric, one record per UE; the metrics are those of the first UE,
\* and a UE with fewer of them is read out of bounds.
Matrix(us) ==
  LET U == Len(us)
  IN  [k \in 1..(us[1].n * U) |->
         LET u == us[1 + ((k - 1) % U)]  m == 1 + ((k - 1) \div U)
         IN  IF m <= u.n THEN <<u.data, m>> ELSE Undefined]

SkipFormat2 ==
  /\ pc = "switch" /\ target = "ue"
  /\ ues # {} => UeLists[1].n = 0
  /\ pc' = "built"
  /\ UNCHANGED <<helper, target, local, tree, buffer>>

\* ExtractUeReports and FillKpmIndicationMessageFormat2: copies only.
FillFormat2 ==
  /\ pc = "switch" /\ target = "ue"
  /\ ues # {}
  /\ UeLists[1].n > 0
  /\ tree' = [format |-> 2, n |-> UeLists[1].n, records |-> Matrix(UeLists)]
  /\ pc' = "encoding"
  /\ UNCHANGED <<helper, target, local, buffer>>

\* Mutant: an unknown type is given a Format 1 without measurements.
UnknownFormatEncodes ==
  /\ pc = "switch" /\ target = "other"
  /\ buffer' = [format |-> 1, n |-> 0, records |-> <<>>]
  /\ pc' = "built"
  /\ UNCHANGED <<helper, target, local, tree>>

\* FORMART3 has no case: nothing is encoded.
UnknownFormat ==
  /\ pc = "switch" /\ target = "other"
  /\ pc' = "built"
  /\ UNCHANGED <<helper, target, local, tree, buffer>>

\* The records an item list holds, in order.
Records(l) == [k \in 1..l.n |-> <<l.data, k>>]

\* What the encoder may read from a tree: through freed items, anything.
Readings(t) ==
  CASE t.format = 2 -> {t.records}
    [] t.format = 1 /\ Free(t.from) -> [1..t.n -> (Data \X {1}) \cup {Undefined}]
    [] OTHER -> {Records(lists[t.from])}

Encode ==
  /\ pc = "encoding"
  /\ \E r \in Readings(tree) :
       buffer' = [format |-> tree.format, n |-> tree.n, records |-> r]
  /\ pc' = "built"
  /\ tree' = NoTree
  /\ UNCHANGED <<helper, target, local>>

\* Encoding freed items may as well fail, which is fatal.
EncodeFails ==
  /\ pc = "encoding"
  /\ tree.format = 1 /\ Free(tree.from)
  /\ pc' = "crashed"
  /\ UNCHANGED <<helper, target, local, tree, buffer>>

\* free(m_buffer): with a wild pointer anything may follow.
DestroyMessage ==
  /\ pc = "built"
  /\ pc' \in IF buffer = Wild THEN {"none", "crashed"} ELSE {"none"}
  /\ buffer' = NoMessage
  /\ target' = "other"
  /\ UNCHANGED <<helper, local, tree>>

Next ==
  \/ \E a \in Address, l \in Lists :
       AddUe(a, l) \/ AddCell(a, l) \/ CreateDefaultList(a, l)
  \/ DestroyHelper
  \/ \E t \in Target : Construct(t)
  \/ UseCellList
  \/ SkipFormat1
  \/ FillFormat1
  \/ LeaveFormat1
  \/ SkipFormat2
  \/ FillFormat2
  \/ UnknownFormat
  \/ Encode
  \/ EncodeFails
  \/ DestroyMessage

Spec == Init /\ [][Next]_vars

-----------------------------------------------------------------------------
(* Properties *)

Report == [format : {1, 2}, n : Counts, records : Seq(Item \cup {Undefined})]

\* Every variable has its type, and cellItems is null outside the FORMART1 case.
TypeOK ==
  /\ lists \in [Address -> Lists \cup {None}]
  /\ cell \in Address \cup {None}
  /\ ues \subseteq Address
  /\ pc \in {"none", "switch", "format1", "leaving", "encoding", "built", "crashed"}
  /\ target \in Target
  /\ local \in Address \cup {None}
  /\ pc \notin {"format1", "leaving"} => local = None
  /\ buffer \in Report \cup {Wild, NullBuffer, NoMessage}

\* The lists alive are those somebody holds a Ptr to: none is leaked, and none
\* is freed under the helper or the message that will free it again.  The item
\* trees belong to the lists even while a message borrows them
\* (kpm-indication.cc:88-99, 569, 599).
ListsHaveOwners ==
  {a \in Address : ~Free(a)} = ({cell, local} \cup ues) \ {None}

\* A cell report made from the helper's list holds its items, each one once and
\* in the order of the metric names, and none of them is read after it was freed.
CellReportIsExact ==
  [][pc = "encoding" /\ pc' = "built" /\ target = "cell" /\ cell # None =>
       /\ ~Free(cell)
       /\ buffer'.n = lists[cell].n
       /\ buffer'.records = Records(lists[cell])]_vars

\* The receiver of a UE report knows a UE by its "UEID" metric, the first one.
\* In every column of the matrix all records come from one list, and the k-th
\* is its k-th metric: no record is attributed to another UE or metric.  A UE
\* with fewer metrics than the first yields undefined records, nothing else.
ColumnsAreUes ==
  Encoded(buffer) /\ buffer.format = 2 =>
    LET U == Len(buffer.records) \div buffer.n
    IN  /\ Len(buffer.records) = U * buffer.n
        /\ \A u \in 1..U : \E d \in Data : \A m \in 1..buffer.n :
             buffer.records[(m - 1) * U + u] \in {<<d, m>>, Undefined}

\* Metric m of every list of the helper is in the report as often as lists hold
\* it: each UE is reported once, if all have the metrics of the first.
EveryUeIsReported ==
  [][pc = "encoding" /\ pc' = "built" /\ target = "ue"
       /\ (\A a, b \in ues : lists[a].n = lists[b].n) =>
       \A d \in Data, m \in 1..buffer'.n :
         Cardinality({k \in DOMAIN buffer'.records : buffer'.records[k] = <<d, m>>})
           = Cardinality({a \in ues : lists[a].data = d})]_vars

\* The values a message of target t can be encoded from.
HasMeasurements(t) ==
  \/ t = "cell" /\ (cell = None \/ lists[cell].n > 0)
  \/ t = "ue" /\ ues # {} /\ UeLists[1].n > 0

\* A finished message is encoded exactly when there was something to report in
\* a format the class knows; otherwise m_buffer is still what it was when the
\* object was allocated, and the destructor frees it.
EncodedIfMeasured ==
  [][pc' = "built" /\ pc # "built" => (Encoded(buffer') <=> HasMeasurements(target))]_vars

-----------------------------------------------------------------------------
(* What the source says of itself *)

\* kpm-indication.cc:587, "add all KPI values of this cell to measRecord.list":
\* a cell report holds the values of its list, default list included.
CellReportHoldsValues ==
  Encoded(buffer) /\ buffer.format = 1 =>
    \A k \in DOMAIN buffer.records : buffer.records[k] # Undefined
=============================================================================
