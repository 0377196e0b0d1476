------------------------ MODULE KpmIndication_proofs ------------------------
(***************************************************************************)
(* The lists of the indication helper, for every heap and any lists: each  *)
(* has an owner, a cell report is made from the list of its cell, and in   *)
(* the matrix of a UE report each UE has its column and each metric its    *)
(* row, however many there are.                                            *)
(***************************************************************************)
EXTENDS KpmIndication, FiniteSetTheorems, FunctionTheorems, TLAPS

\* Who holds lists, and when the block of the FORMART1 case does.
Owning ==
  /\ lists \in [Address -> Lists \cup {None}]
  /\ cell \in Address \cup {None} /\ cell \notin ues
  /\ ues \subseteq Address
  /\ local \in Address \cup {None} /\ local \notin ues
  /\ pc \in {"format1", "leaving"} => target = "cell" /\ (cell # None => local = cell)
  /\ pc \notin {"format1", "leaving"} => local = None
  /\ ListsHaveOwners

\* A message about to be encoded borrows from the list of its cell.
Borrowing ==
  /\ pc = "leaving" => tree = [format |-> 1, from |-> local, n |-> lists[local].n]
  /\ pc = "encoding" /\ target = "cell" /\ cell # None =>
       tree = [format |-> 1, from |-> cell, n |-> lists[cell].n]

-----------------------------------------------------------------------------
(* The heap *)

\* A list that is made somewhere is one more of those alive.
LEMMA Made ==
  ASSUME NEW h \in [Address -> Lists \cup {None}], NEW a \in Address, NEW l \in Lists
  PROVE  /\ [h EXCEPT ![a] = l] \in [Address -> Lists \cup {None}]
         /\ {x \in Address : [h EXCEPT ![a] = l][x] # None} = {x \in Address : h[x] # None} \cup {a}
  BY NoneIsNoList DEF Lists

\* Those released are no longer alive.
LEMMA ReleasedHeap ==
  ASSUME lists \in [Address -> Lists \cup {None}], NEW A
  PROVE  /\ Released(A) \in [Address -> Lists \cup {None}]
         /\ {x \in Address : Released(A)[x] # None} = {x \in Address : lists[x] # None} \ A
         /\ \A x \in Address \ A : Released(A)[x] = lists[x]
  BY DEF Released

\* Leaving the block of the case: a list of the helper stays, the default list
\* goes.
LEMMA LeavingBlock ==
  ASSUME Owning, local # None, ReleaseLocal, pc' \notin {"format1", "leaving"}
  PROVE  /\ Owning'
         /\ cell # None => cell' = cell /\ local = cell /\ lists' = lists
<1> DEFINE alive == {x \in Address : lists[x] # None}
<1>1. UNCHANGED <<cell, ues>> /\ local' = None /\ local \in Address
  BY DEF ReleaseLocal, Owning
<1>2. pc \in {"format1", "leaving"} /\ (cell # None => local = cell)
  BY DEF Owning
<1>3. alive = ({cell, local} \cup ues) \ {None}
  BY DEF Owning, ListsHaveOwners, Free
<1>4. CASE local = cell
  <2>1. lists' = lists
    BY <1>4 DEF ReleaseLocal
  <2>2. alive = ({cell', local'} \cup ues') \ {None}
    BY <1>1, <1>3, <1>4
  <2>3. ListsHaveOwners'
    BY <2>1, <2>2 DEF ListsHaveOwners, Free
  <2>4. None \notin ues
    BY NoneIsNoAddress DEF Owning
  <2> HIDE DEF alive
  <2> QED BY <1>1, <1>2, <1>4, <2>1, <2>3, <2>4 DEF Owning
<1>5. CASE local # cell
  <2>1. cell = None
    BY <1>2, <1>5
  <2>2. /\ lists' \in [Address -> Lists \cup {None}]
        /\ {x \in Address : lists'[x] # None} = alive \ {local}
    BY <1>5, ReleasedHeap DEF ReleaseLocal, Owning
  <2>3. {x \in Address : lists'[x] # None} = ({cell, None} \cup ues) \ {None}
    BY <1>3, <2>1, <2>2 DEF Owning
  <2> QED BY <1>1, <2>1, <2>2, <2>3 DEF Owning, ListsHaveOwners, Free
<1> QED BY <1>4, <1>5

-----------------------------------------------------------------------------

\* At first there are no lists, and nobody holds one.
LEMMA OwningInit == Init => Owning /\ Borrowing
  BY NoneIsNoAddress DEF Init, Owning, Borrowing, ListsHaveOwners, Free

\* Every action passes its lists on or releases them, and while a message is
\* made from the list of the cell nobody replaces that.
LEMMA OwningStep == Owning /\ Borrowing /\ [Next]_vars => (Owning /\ Borrowing)'
<1> SUFFICES ASSUME Owning, Borrowing, [Next]_vars PROVE (Owning /\ Borrowing)'
  OBVIOUS
<1> DEFINE alive == {x \in Address : lists[x] # None}
<1>1. alive = ({cell, local} \cup ues) \ {None}
  BY DEF Owning, ListsHaveOwners, Free
<1>2. BetweenMessages => local = None /\ pc \notin {"format1", "leaving", "encoding"}
  BY DEF BetweenMessages, Owning
<1>3. ASSUME NEW a \in Address, NEW l \in Lists, AddUe(a, l) PROVE (Owning /\ Borrowing)'
  <2>1. local = None /\ pc \notin {"format1", "leaving", "encoding"}
    BY <1>2, <1>3 DEF AddUe
  <2>2. /\ lists' \in [Address -> Lists \cup {None}]
        /\ {x \in Address : lists'[x] # None} = alive \cup {a}
    BY <1>3, Made DEF AddUe, Owning
  <2>3. a \notin alive /\ a # None
    BY <1>3, NoneIsNoAddress DEF AddUe, Free
  <2>4. UNCHANGED <<cell, pc, local>> /\ ues' = ues \cup {a}
    BY <1>3 DEF AddUe
  <2>5. {x \in Address : lists'[x] # None} = ({cell', local'} \cup ues') \ {None}
    BY <1>1, <2>2, <2>3, <2>4
  <2>6. cell' \notin ues' /\ local' \notin ues'
    BY <1>1, <2>1, <2>3, <2>4 DEF Owning
  <2> QED BY <2>1, <2>2, <2>4, <2>5, <2>6 DEF Owning, Borrowing, ListsHaveOwners, Free
<1>4. ASSUME NEW a \in Address, NEW l \in Lists, AddCell(a, l) PROVE (Owning /\ Borrowing)'
  <2>1. local = None /\ pc \notin {"format1", "leaving", "encoding"}
    BY <1>2, <1>4 DEF AddCell
  <2> DEFINE h == Released({cell})
  <2>2. h \in [Address -> Lists \cup {None}] /\ {x \in Address : h[x] # None} = alive \ {cell}
    BY ReleasedHeap DEF Owning
  <2>3. lists' = [h EXCEPT ![a] = l]
    BY <1>4 DEF AddCell
  <2> HIDE DEF h
  <2>4. /\ lists' \in [Address -> Lists \cup {None}]
        /\ {x \in Address : lists'[x] # None} = (alive \ {cell}) \cup {a}
    BY <2>2, <2>3, Made
  <2>5. a \notin alive /\ a # None
    BY <1>4, NoneIsNoAddress DEF AddCell, Free
  <2>6. UNCHANGED <<ues, pc, local>> /\ cell' = a
    BY <1>4 DEF AddCell
  <2>7. {x \in Address : lists'[x] # None} = ({cell', local'} \cup ues') \ {None}
    BY <1>1, <2>1, <2>4, <2>5, <2>6, NoneIsNoAddress DEF Owning
  <2>8. cell' \notin ues'
    BY <1>1, <2>5, <2>6 DEF Owning
  <2> QED BY <2>1, <2>4, <2>6, <2>7, <2>8 DEF Owning, Borrowing, ListsHaveOwners, Free
<1>5. ASSUME NEW a \in Address, NEW l \in Lists, CreateDefaultList(a, l)
      PROVE  (Owning /\ Borrowing)'
  <2>1. local = None /\ cell = None
    BY <1>5 DEF CreateDefaultList, Owning
  <2>2. /\ lists' \in [Address -> Lists \cup {None}]
        /\ {x \in Address : lists'[x] # None} = alive \cup {a}
    BY <1>5, Made DEF CreateDefaultList, Owning
  <2>3. a \notin alive /\ a # None
    BY <1>5, NoneIsNoAddress DEF CreateDefaultList, Free
  <2>4. /\ UNCHANGED <<cell, ues, target>> /\ local' = a /\ pc' = "format1"
        /\ target = "cell"
    BY <1>5 DEF CreateDefaultList
  <2>5. {x \in Address : lists'[x] # None} = ({cell', local'} \cup ues') \ {None}
    BY <1>1, <2>1, <2>2, <2>3, <2>4
  <2>6. local' \notin ues'
    BY <1>1, <2>3, <2>4 DEF Owning
  <2> QED BY <2>1, <2>2, <2>4, <2>5, <2>6 DEF Owning, Borrowing, ListsHaveOwners, Free
<1>6. CASE DestroyHelper
  <2>1. local = None /\ pc \notin {"format1", "leaving", "encoding"}
    BY <1>2, <1>6 DEF DestroyHelper
  <2>2. /\ lists' \in [Address -> Lists \cup {None}]
        /\ {x \in Address : lists'[x] # None} = alive \ ({cell} \cup ues)
    BY <1>6, ReleasedHeap DEF DestroyHelper, Owning
  <2>3. UNCHANGED <<pc, local>> /\ cell' = None /\ ues' = {}
    BY <1>6 DEF DestroyHelper
  <2>4. {x \in Address : lists'[x] # None} = {}
    BY <1>1, <2>1, <2>2
  <2> QED BY <2>1, <2>2, <2>3, <2>4 DEF Owning, Borrowing, ListsHaveOwners, Free
<1>7. CASE UseCellList
  <2>1. /\ UNCHANGED <<lists, cell, ues, target>> /\ local' = cell /\ pc' = "format1"
        /\ target = "cell" /\ local = None /\ cell # None
    BY <1>7 DEF UseCellList, helper, Owning
  <2>2. alive = ({cell', local'} \cup ues') \ {None}
    BY <1>1, <2>1
  <2> QED BY <2>1, <2>2 DEF Owning, Borrowing, ListsHaveOwners, Free
<1>8. CASE SkipFormat1 \/ LeaveFormat1
  <2>1. pc \in {"format1", "leaving"} /\ ReleaseLocal /\ pc' \in {"built", "encoding"}
    BY <1>8 DEF SkipFormat1, LeaveFormat1
  <2>2. CASE local = None
    <3>1. cell = None /\ UNCHANGED <<lists, cell, ues, local>>
      BY <2>1, <2>2 DEF Owning, ReleaseLocal
    <3> QED BY <2>1, <2>2, <3>1 DEF Owning, Borrowing, ListsHaveOwners, Free
  <2>3. CASE local # None
    <3>1. Owning' /\ (cell # None => cell' = cell /\ local = cell /\ lists' = lists)
      BY <2>1, <2>3, LeavingBlock
    <3>2. pc' = "encoding" => pc = "leaving" /\ tree' = tree /\ cell' = cell
      BY <1>8 DEF SkipFormat1, LeaveFormat1, ReleaseLocal
    <3> QED BY <2>1, <3>1, <3>2 DEF Borrowing
  <2> QED BY <2>2, <2>3
<1>9. CASE FillFormat1
  BY <1>9 DEF FillFormat1, helper, Owning, Borrowing, ListsHaveOwners, Free
<1>10. CASE Encode \/ EncodeFails \/ SkipFormat2 \/ UnknownFormat \/ DestroyMessage
  <2>1. /\ UNCHANGED <<lists, cell, ues, local>> /\ pc \notin {"format1", "leaving"}
        /\ pc' \notin {"format1", "leaving", "encoding"}
    BY <1>10 DEF Encode, EncodeFails, SkipFormat2, UnknownFormat, DestroyMessage, helper
  <2> QED BY <2>1 DEF Owning, Borrowing, ListsHaveOwners, Free
<1>11. CASE FillFormat2
  <2>1. /\ UNCHANGED <<lists, cell, ues, local, target>> /\ pc = "switch"
        /\ pc' = "encoding" /\ target = "ue"
    BY <1>11 DEF FillFormat2, helper
  <2> QED BY <2>1 DEF Owning, Borrowing, ListsHaveOwners, Free
<1>12. ASSUME NEW t \in Target, Construct(t) PROVE (Owning /\ Borrowing)'
  BY <1>12 DEF Construct, helper, Owning, Borrowing, ListsHaveOwners, Free
<1>13. CASE UNCHANGED vars
  BY <1>13 DEF vars, helper, Owning, Borrowing, ListsHaveOwners, Free
<1> QED
  BY <1>3, <1>4, <1>5, <1>6, <1>7, <1>8, <1>9, <1>10, <1>11, <1>12, <1>13 DEF Next

\* The lists alive are those of the helper and of the message under way: none
\* leaks, none is freed while somebody will free it again (kpm-indication.cc:569, 599).
THEOREM NoListIsLost == Spec => []ListsHaveOwners
<1>1. Owning => ListsHaveOwners
  BY DEF Owning
<1> QED BY <1>1, OwningInit, OwningStep, PTL DEF Spec

\* A report encoded for a cell of the helper holds the items of its list, read
\* while they are alive (kpm-indication.cc:549-581).
THEOREM CellReportsAreExact == Spec => CellReportIsExact
<1>1. ASSUME Owning, Borrowing, Next,
             pc = "encoding", pc' = "built", target = "cell", cell # None
      PROVE  /\ ~Free(cell)
             /\ buffer'.n = lists[cell].n
             /\ buffer'.records = Records(lists[cell])
  <2>1. Encode
    BY <1>1 DEF Next, AddUe, AddCell, CreateDefaultList, DestroyHelper, BetweenMessages,
      Construct, UseCellList, SkipFormat1, FillFormat1, LeaveFormat1, SkipFormat2,
      FillFormat2, UnknownFormat, EncodeFails, DestroyMessage
  <2>2. tree = [format |-> 1, from |-> cell, n |-> lists[cell].n]
    BY <1>1 DEF Borrowing
  <2>3. cell \in Address /\ ~Free(cell)
    BY <1>1 DEF Owning, ListsHaveOwners
  <2>4. Readings(tree) = {Records(lists[cell])}
    BY <2>2, <2>3 DEF Readings
  <2> QED BY <2>1, <2>2, <2>3, <2>4 DEF Encode
<1>2. Owning /\ Borrowing /\ [Next]_vars =>
        [pc = "encoding" /\ pc' = "built" /\ target = "cell" /\ cell # None =>
           /\ ~Free(cell)
           /\ buffer'.n = lists[cell].n
           /\ buffer'.records = Records(lists[cell])]_vars
  BY <1>1
<1> QED BY <1>2, OwningInit, OwningStep, PTL DEF Spec, CellReportIsExact

-----------------------------------------------------------------------------
(* When a message is encoded *)

\* On the way to the encoder there is something to encode, and m_buffer is
\* still what it was when the object was allocated.
Measured ==
  /\ pc \in {"switch", "format1", "leaving", "encoding"} => buffer \in {Wild, NullBuffer}
  /\ pc = "format1" /\ cell = None => lists[local].n > 0
  /\ pc \in {"leaving", "encoding"} => HasMeasurements(target)
  /\ pc = "leaving" => tree.format = 1
  /\ pc = "encoding" => tree.format \in {1, 2}

LEMMA MeasuredInit == Init => Measured
  BY DEF Init, Measured

LEMMA MeasuredStep == Owning /\ Measured /\ [Next]_vars => Measured'
<1> SUFFICES ASSUME Owning, Measured, [Next]_vars PROVE Measured'
  OBVIOUS
<1> USE DEF Measured
<1>1. ASSUME pc' \in {"none", "built", "crashed"} PROVE Measured'
  BY <1>1
<1>2. ASSUME NEW t \in Target, Construct(t) PROVE Measured'
  BY <1>2 DEF Construct
<1>3. CASE UseCellList
  BY <1>3, NoneIsNoAddress DEF UseCellList, helper
<1>4. ASSUME NEW a \in Address, NEW l \in Lists, CreateDefaultList(a, l) PROVE Measured'
  <2>1. lists'[a] = l
    BY <1>4 DEF CreateDefaultList, Owning
  <2> QED BY <1>4, <2>1 DEF CreateDefaultList
<1>5. CASE FillFormat1
  <2>1. /\ UNCHANGED <<lists, cell, ues, target, local, buffer>> /\ lists[local].n > 0
        /\ tree'.format = 1 /\ pc = "format1" /\ pc' = "leaving"
    BY <1>5 DEF FillFormat1, helper
  <2>2. target = "cell" /\ (cell # None => local = cell)
    BY <2>1 DEF Owning
  <2>3. HasMeasurements(target)'
    BY <2>1, <2>2 DEF HasMeasurements
  <2> QED BY <2>1, <2>3
<1>6. CASE LeaveFormat1
  <2>1. /\ pc = "leaving" /\ pc' = "encoding" /\ ReleaseLocal
        /\ UNCHANGED <<target, tree, buffer, cell>>
    BY <1>6 DEF LeaveFormat1, ReleaseLocal
  <2>2. target = "cell" /\ (cell = None \/ lists[cell].n > 0) /\ (cell # None => local = cell)
    BY <2>1 DEF Owning, HasMeasurements
  <2>3. cell # None => lists' = lists
    BY <2>1, <2>2 DEF ReleaseLocal
  <2>4. HasMeasurements(target)'
    BY <2>1, <2>2, <2>3 DEF HasMeasurements
  <2> QED BY <2>1, <2>4
<1>7. CASE FillFormat2
  <2>1. /\ UNCHANGED <<lists, cell, ues, target, local, buffer>> /\ pc = "switch"
        /\ pc' = "encoding" /\ tree'.format = 2 /\ target = "ue" /\ ues # {}
        /\ UeLists[1].n > 0
    BY <1>7 DEF FillFormat2, helper
  <2>2. UeLists' = UeLists
    BY <2>1 DEF UeLists
  <2>3. HasMeasurements(target)'
    BY <2>1, <2>2 DEF HasMeasurements
  <2> QED BY <2>1, <2>3
<1>8. CASE \/ SkipFormat1 \/ SkipFormat2 \/ UnknownFormat \/ Encode \/ EncodeFails
           \/ DestroyMessage
  BY <1>1, <1>8 DEF SkipFormat1, SkipFormat2, UnknownFormat, Encode, EncodeFails, DestroyMessage
<1>9. CASE DestroyHelper \/ \E a \in Address, l \in Lists : AddUe(a, l) \/ AddCell(a, l)
  BY <1>1, <1>9 DEF DestroyHelper, AddUe, AddCell, BetweenMessages
<1>10. CASE UNCHANGED vars
  <2>1. UNCHANGED <<lists, cell, ues, pc, target, local, tree, buffer>>
    BY <1>10 DEF vars, helper
  <2>2. UeLists' = UeLists
    BY <2>1 DEF UeLists
  <2>3. HasMeasurements(target)' = HasMeasurements(target)
    BY <2>1, <2>2 DEF HasMeasurements
  <2> QED BY <2>1, <2>3
<1> QED BY <1>2, <1>3, <1>4, <1>5, <1>6, <1>7, <1>8, <1>9, <1>10 DEF Next

\* A message that is finished has been encoded just when there was something to
\* report in a format the class knows (kpm-indication.cc:572-577, 871-915).
THEOREM EncodedWhenMeasured == Spec => EncodedIfMeasured
<1>1. ASSUME Owning, Measured, Next, pc' = "built", pc # "built"
      PROVE  Encoded(buffer') <=> HasMeasurements(target)
  <2>1. SkipFormat1 \/ SkipFormat2 \/ UnknownFormat \/ Encode
    BY <1>1 DEF Next, AddUe, AddCell, CreateDefaultList, DestroyHelper, BetweenMessages,
      Construct, UseCellList, FillFormat1, LeaveFormat1, FillFormat2, EncodeFails,
      DestroyMessage
  <2>2. ~Encoded(Wild) /\ ~Encoded(NullBuffer)
    BY DEF Encoded, Wild, NullBuffer
  <2>3. CASE SkipFormat1
    <3>1. lists[local].n = 0 /\ pc = "format1" /\ buffer' = buffer
      BY <2>3 DEF SkipFormat1
    <3>2. target = "cell" /\ cell # None /\ local = cell
      BY <1>1, <3>1 DEF Owning, Measured
    <3>3. ~HasMeasurements(target)
      BY <3>1, <3>2 DEF HasMeasurements
    <3> QED BY <1>1, <2>2, <3>1, <3>3 DEF Measured
  <2>4. CASE SkipFormat2
    <3>1. ~HasMeasurements(target) /\ buffer' = buffer /\ pc = "switch"
      BY <2>4 DEF SkipFormat2, HasMeasurements
    <3> QED BY <1>1, <2>2, <3>1 DEF Measured
  <2>5. CASE UnknownFormat
    <3>1. ~HasMeasurements(target) /\ buffer' = buffer /\ pc = "switch"
      BY <2>5 DEF UnknownFormat, HasMeasurements
    <3> QED BY <1>1, <2>2, <3>1 DEF Measured
  <2>6. CASE Encode
    <3>1. pc = "encoding" /\ buffer'.format = tree.format
      BY <2>6 DEF Encode
    <3> QED BY <1>1, <3>1 DEF Measured, Encoded
  <2> QED BY <2>1, <2>3, <2>4, <2>5, <2>6
<1>2. Owning /\ Borrowing /\ Measured /\ [Next]_vars =>
        [pc' = "built" /\ pc # "built" => (Encoded(buffer') <=> HasMeasurements(target))]_vars
  BY <1>1
<1> QED
  BY <1>2, OwningInit, OwningStep, MeasuredInit, MeasuredStep, PTL DEF Spec, EncodedIfMeasured
-----------------------------------------------------------------------------
(* Sets of pointers in order *)

\* The place of a pointer in its set grows with the pointer, so each place from
\* the first to the last is that of one pointer.
LEMMA EachHasItsPlace ==
  ASSUME NEW S \in SUBSET Nat, IsFiniteSet(S)
  PROVE  /\ Cardinality(S) \in Nat
         /\ \A k \in 1..Cardinality(S) : Kth(S, k) \in S
         /\ \A j, k \in 1..Cardinality(S) : Kth(S, j) = Kth(S, k) => j = k
         /\ \A a \in S : \E k \in 1..Cardinality(S) : Kth(S, k) = a
<1> DEFINE Below(a) == {b \in S : b < a}
           n == Cardinality(S)
           place == [a \in S |-> Cardinality(Below(a)) + 1]
<1>1. n \in Nat
  BY FS_CardinalityType
<1>2. ASSUME NEW a \in S PROVE IsFiniteSet(Below(a)) /\ Cardinality(Below(a)) \in 0..(n - 1)
  <2>1. IsFiniteSet(S \ {a}) /\ Cardinality(S \ {a}) = n - 1
    BY FS_RemoveElement
  <2>2. Below(a) \in SUBSET (S \ {a})
    OBVIOUS
  <2>3. IsFiniteSet(Below(a)) /\ Cardinality(Below(a)) <= n - 1
    BY <2>1, <2>2, FS_Subset
  <2> QED BY <1>1, <2>3, FS_CardinalityType
<1>3. ASSUME NEW a \in S, NEW b \in S, a < b PROVE place[a] < place[b]
  <2>1. Below(a) \in SUBSET Below(b) /\ a \in Below(b) /\ a \notin Below(a)
    <3>1. a \in Nat /\ b \in Nat /\ \A c \in S : c \in Nat
      OBVIOUS
    <3>2. \A c \in S : c < a => c < b
      BY <1>3, <3>1
    <3>3. ~(a < a)
      BY <3>1
    <3> QED BY <1>3, <3>2, <3>3
  <2>2. /\ Cardinality(Below(a)) <= Cardinality(Below(b))
        /\ Cardinality(Below(b)) # Cardinality(Below(a))
    BY <1>2, <2>1, FS_Subset
  <2> HIDE DEF Below
  <2> QED BY <1>2, <2>2
<1>4. place \in [S -> 1..n]
  <2> HIDE DEF Below, n
  <2> QED BY <1>1, <1>2
<1>5. \A a, b \in S : place[a] = place[b] => a = b
  <2> SUFFICES ASSUME NEW a \in S, NEW b \in S, place[a] = place[b] PROVE a = b
    OBVIOUS
  <2>1. place[a] \in Int /\ place[b] \in Int
    BY <1>1, <1>4
  <2> HIDE DEF place
  <2>2. ~(a < b) /\ ~(b < a)
    BY <1>3, <2>1
  <2> QED BY <2>2
<1> HIDE DEF place
<1>6. place \in Injection(S, 1..n)
  BY <1>4, <1>5, Fun_IsInj
<1>7. IsFiniteSet(1..n) /\ Cardinality(1..n) = n
  BY <1>1, FS_Interval
<1>8. place \in Surjection(S, 1..n)
  BY <1>6, <1>7, FS_Injection
<1>9. \A k \in 1..n : \E a \in S : place[a] = k
  BY <1>8, Fun_SurjectionProperties
<1>10. ASSUME NEW k \in 1..n PROVE Kth(S, k) \in S /\ place[Kth(S, k)] = k
  <2>1. PICK a \in S : place[a] = k
    BY <1>9
  <2>2. Cardinality(Below(a)) = k - 1
    BY <1>2, <2>1 DEF place
  <2>3. Kth(S, k) \in S /\ Cardinality(Below(Kth(S, k))) = k - 1
    BY <2>2 DEF Kth
  <2> QED BY <1>1, <2>3 DEF place
<1>11. ASSUME NEW a \in S PROVE \E k \in 1..n : Kth(S, k) = a
  <2>1. place[a] \in 1..n
    BY <1>4
  <2>2. Kth(S, place[a]) \in S /\ place[Kth(S, place[a])] = place[a]
    BY <1>10, <2>1
  <2> QED BY <1>5, <2>1, <2>2
<1> QED BY <1>1, <1>10, <1>11

\* The lists of the UEs, in order: one for each pointer.
LEMMA UeListsInOrder ==
  ASSUME Owning
  PROVE  /\ IsFiniteSet(ues) /\ ues \in SUBSET Nat
         /\ UeLists \in Seq(Lists)
         /\ Len(UeLists) = Cardinality(ues)
         /\ \A k \in 1..Cardinality(ues) :
              Kth(ues, k) \in ues /\ UeLists[k] = lists[Kth(ues, k)]
<1>1. IsFiniteSet(ues) /\ ues \in SUBSET Nat
  BY AddressesAreOrdered, FS_Subset DEF Owning
<1>2. Cardinality(ues) \in Nat /\ \A k \in 1..Cardinality(ues) : Kth(ues, k) \in ues
  BY <1>1, EachHasItsPlace
<1>3. \A a \in ues : lists[a] \in Lists
  BY NoneIsNoAddress DEF Owning, ListsHaveOwners, Free
<1>4. UeLists = [k \in 1..Cardinality(ues) |-> lists[Kth(ues, k)]]
  BY DEF UeLists, Dereferenced
<1>5. \A k \in 1..Cardinality(ues) : lists[Kth(ues, k)] \in Lists
  BY <1>2, <1>3
<1> HIDE DEF Lists
<1>6. UeLists \in Seq(Lists) /\ Len(UeLists) = Cardinality(ues)
  BY <1>2, <1>4, <1>5
<1> QED BY <1>1, <1>2, <1>4, <1>6

-----------------------------------------------------------------------------
(* Rows and columns *)

\* A row that comes later starts at least a row later.
LEMMA Rows ==
  ASSUME NEW U \in Nat \ {0}, NEW q \in Nat, NEW p \in Nat, p < q
  PROVE  p * U + U <= q * U
<1>1. PICK d \in Nat : q = p + 1 + d
  <2>1. q - p - 1 \in Nat /\ q = p + 1 + (q - p - 1)
    OBVIOUS
  <2> QED BY <2>1
<1>2. q * U = p * U + U + d * U
  BY <1>1
<1>3. d * U \in Nat /\ p * U \in Nat /\ q * U \in Nat
  OBVIOUS
<1> QED BY <1>2, <1>3

\* \div and % take a place apart into its row and its column.
LEMMA RowAndColumn ==
  ASSUME NEW U \in Nat \ {0}, NEW k \in Nat
  PROVE  k \div U \in Nat /\ k % U \in 0..(U - 1) /\ k = (k \div U) * U + (k % U)
  OBVIOUS

\* There is no other way to do it.
LEMMA OneRowAndColumn ==
  ASSUME NEW U \in Nat \ {0}, NEW q \in Nat, NEW r \in 0..(U - 1)
  PROVE  (q * U + r) \div U = q /\ (q * U + r) % U = r
<1> DEFINE k == q * U + r
           p == k \div U
           s == k % U
<1>1. k \in Nat /\ q * U \in Nat
  OBVIOUS
<1>2. p \in Nat /\ s \in 0..(U - 1) /\ k = p * U + s
  BY <1>1, RowAndColumn
<1>3. p * U \in Nat
  BY <1>2
<1> HIDE DEF p, s
<1>4. ~(p < q)
  <2> SUFFICES ASSUME p < q PROVE FALSE
    OBVIOUS
  <2>1. p * U + U <= q * U
    BY <1>2, Rows
  <2> QED BY <1>1, <1>2, <1>3, <2>1
<1>5. ~(q < p)
  <2> SUFFICES ASSUME q < p PROVE FALSE
    OBVIOUS
  <2>1. q * U + U <= p * U
    BY <1>2, Rows
  <2> QED BY <1>1, <1>2, <1>3, <2>1
<1>6. p = q
  BY <1>2, <1>4, <1>5
<1>7. s = r
  BY <1>1, <1>2, <1>6
<1> QED BY <1>6, <1>7 DEF p, s

\* What list us has for metric m: its value, or what lies behind its end.
Entry(us, u, m) == IF m <= us[u].n THEN <<us[u].data, m>> ELSE Undefined

\* The matrix has a row for each metric of the first list and a column for each
\* list.
LEMMA MatrixEntries ==
  ASSUME NEW us \in Seq(Lists), Len(us) > 0
  PROVE  LET U == Len(us)
             n == us[1].n
         IN  /\ n \in Nat /\ n * U \in Nat
             /\ Matrix(us) \in Seq(Item \cup {Undefined})
             /\ Len(Matrix(us)) = n * U
             /\ \A m \in 1..n, u \in 1..U :
                  /\ (m - 1) * U + u \in 1..(n * U)
                  /\ Matrix(us)[(m - 1) * U + u] = Entry(us, u, m)
             /\ \A k \in 1..(n * U) : \E m \in 1..n, u \in 1..U : k = (m - 1) * U + u
<1> DEFINE U == Len(us)
           n == us[1].n
           At(k) == Entry(us, 1 + ((k - 1) % U), 1 + ((k - 1) \div U))
<1>1. U \in Nat \ {0}
  OBVIOUS
<1>2. \A u \in 1..U : us[u].n \in Nat /\ us[u].data \in Data
  <2>1. \A l \in Lists : l.n \in Nat /\ l.data \in Data
    BY CountsAreNatural DEF Lists
  <2>2. \A u \in 1..U : us[u] \in Lists
    OBVIOUS
  <2> QED BY <2>1, <2>2
<1>3. n \in Nat
  BY <1>1, <1>2
<1>4. Matrix(us) = [k \in 1..(n * U) |-> At(k)]
  BY DEF Matrix, Entry
<1> HIDE DEF U
<1>5. ASSUME NEW k \in 1..(n * U)
      PROVE  /\ 1 + ((k - 1) % U) \in 1..U
             /\ 1 + ((k - 1) \div U) \in 1..n
             /\ k = ((1 + ((k - 1) \div U)) - 1) * U + (1 + ((k - 1) % U))
  <2> DEFINE q == (k - 1) \div U
             r == (k - 1) % U
  <2>1. k - 1 \in Nat
    OBVIOUS
  <2>2. q \in Nat /\ r \in 0..(U - 1) /\ k - 1 = q * U + r
    BY <1>1, <2>1, RowAndColumn
  <2> HIDE DEF q, r, n
  <2>3. ~(n <= q)
    <3> SUFFICES ASSUME n <= q PROVE FALSE
      OBVIOUS
    <3>1. n * U <= q * U
      <4>1. n = q \/ n < q
        BY <1>3, <2>2
      <4>2. n * U \in Nat /\ q * U \in Nat
        BY <1>1, <1>3, <2>2
      <4> QED BY <1>1, <1>3, <2>2, <4>1, <4>2, Rows
    <3>2. n * U \in Nat /\ q * U \in Nat
      BY <1>1, <1>3, <2>2
    <3> QED BY <1>1, <2>2, <3>1, <3>2
  <2>4. 1 + r \in 1..U /\ 1 + q \in 1..n /\ (1 + q) - 1 = q
    BY <1>1, <1>3, <2>2, <2>3
  <2>5. q * U \in Nat
    BY <1>1, <2>2
  <2>6. k = ((1 + q) - 1) * U + (1 + r)
    BY <2>2, <2>4, <2>5
  <2> QED BY <2>4, <2>6 DEF q, r
<1>6. ASSUME NEW m \in 1..n, NEW u \in 1..U
      PROVE  /\ (m - 1) * U + u \in 1..(n * U)
             /\ Matrix(us)[(m - 1) * U + u] = Entry(us, u, m)
  <2> DEFINE k == (m - 1) * U + u
  <2>1. m - 1 \in Nat /\ u - 1 \in 0..(U - 1) /\ m - 1 < n
    BY <1>1, <1>3
  <2>2. (m - 1) * U \in Nat /\ n * U \in Nat
    BY <1>1, <1>3, <2>1
  <2>3. (m - 1) * U + U <= n * U
    BY <1>1, <1>3, <2>1, Rows
  <2>4. k \in 1..(n * U)
    BY <1>1, <2>1, <2>2, <2>3
  <2>5. k - 1 = (m - 1) * U + (u - 1)
    BY <1>1, <2>2
  <2>6. (k - 1) \div U = m - 1 /\ (k - 1) % U = u - 1
    BY <1>1, <2>1, <2>5, OneRowAndColumn
  <2> HIDE DEF k
  <2>7. 1 + ((k - 1) % U) = u /\ 1 + ((k - 1) \div U) = m
    BY <1>1, <1>3, <2>6
  <2>8. Matrix(us)[k] = Entry(us, u, m)
    BY <1>4, <2>4, <2>7
  <2> QED BY <2>4, <2>8 DEF k
<1>7. n * U \in Nat
  BY <1>1, <1>3
<1>8. ASSUME NEW k \in 1..(n * U) PROVE At(k) \in Item \cup {Undefined}
  <2>1. PICK u \in 1..U : u = 1 + ((k - 1) % U)
    BY <1>5
  <2>2. PICK m \in 1..n : m = 1 + ((k - 1) \div U)
    BY <1>5
  <2>3. Entry(us, u, m) \in Item \cup {Undefined}
    BY <1>2, <1>3 DEF Entry, Item
  <2> QED BY <2>1, <2>2, <2>3
<1>9. Matrix(us) \in Seq(Item \cup {Undefined}) /\ Len(Matrix(us)) = n * U
  <2> HIDE DEF At, n
  <2> QED BY <1>4, <1>7, <1>8
<1>10. \A k \in 1..(n * U) : \E m \in 1..n, u \in 1..U : k = (m - 1) * U + u
  <2> SUFFICES ASSUME NEW k \in 1..(n * U) PROVE \E m \in 1..n, u \in 1..U : k = (m - 1) * U + u
    OBVIOUS
  <2>1. PICK m : m = 1 + ((k - 1) \div U)
    OBVIOUS
  <2>2. PICK u : u = 1 + ((k - 1) % U)
    OBVIOUS
  <2>3. m \in 1..n /\ u \in 1..U /\ k = (m - 1) * U + u
    BY <1>5, <2>1, <2>2
  <2> QED BY <2>3
<1> QED BY <1>3, <1>6, <1>7, <1>9, <1>10 DEF U

-----------------------------------------------------------------------------
(* What is handed to the encoder *)

CellTree == [format : {1}, from : Address, n : Counts]
UeTree == [format |-> 2, n |-> UeLists[1].n, records |-> Matrix(UeLists)]

\* A message on its way to the encoder borrows a list that is there, or holds
\* the matrix of the lists the helper has now; what was encoded is a report.
Typed ==
  /\ pc \in {"none", "switch", "format1", "leaving", "encoding", "built", "crashed"}
  /\ target \in Target
  /\ pc \in {"format1", "leaving"} => local \in Address
  /\ pc = "leaving" => tree \in CellTree
  /\ pc = "encoding" =>
       \/ target = "cell" /\ tree \in CellTree
       \/ target = "ue" /\ ues # {} /\ UeLists[1].n > 0 /\ tree = UeTree
  /\ buffer \in Report \cup {Wild, NullBuffer, NoMessage}

LEMMA TypedInit == Init => Typed
  BY DEF Init, Typed, Target

\* The lists of a helper with UEs are a matrix of at least one column.
LEMMA UeMatrix ==
  ASSUME Owning, ues # {}
  PROVE  UeLists \in Seq(Lists) /\ Len(UeLists) > 0
<1>1. /\ IsFiniteSet(ues) /\ UeLists \in Seq(Lists)
      /\ Len(UeLists) = Cardinality(ues)
  BY UeListsInOrder
<1>2. Cardinality(ues) \in Nat /\ Cardinality(ues) # 0
  BY <1>1, FS_CardinalityType, FS_EmptySet
<1> QED BY <1>1, <1>2

\* A tree that is encoded becomes a report of its format and size.
LEMMA EncodesReport ==
  ASSUME Owning, Typed, Encode
  PROVE  /\ buffer' \in Report
         /\ target = "cell" => buffer'.format = 1
         /\ target = "ue" => buffer' = UeTree
<1>1. PICK r \in Readings(tree) :
        buffer' = [format |-> tree.format, n |-> tree.n, records |-> r]
  BY DEF Encode
<1>2. CASE target = "cell" /\ tree \in CellTree
  <2>1. tree.format = 1 /\ tree.from \in Address /\ tree.n \in Counts /\ tree.n \in Nat
    BY <1>2, CountsAreNatural DEF CellTree
  <2>2. r \in Seq(Item \cup {Undefined})
    <3>1. CASE Free(tree.from)
      <4>1. r \in [1..tree.n -> (Data \X {1}) \cup {Undefined}]
        BY <1>1, <2>1, <3>1 DEF Readings
      <4>2. (Data \X {1}) \cup {Undefined} \subseteq Item \cup {Undefined}
        BY DEF Item
      <4> HIDE DEF Item
      <4>3. r \in [1..tree.n -> Item \cup {Undefined}]
        BY <4>1, <4>2
      <4> QED BY <2>1, <4>3
    <3>2. CASE ~Free(tree.from)
      <4> DEFINE l == lists[tree.from]
      <4>1. l \in Lists
        BY <2>1, <3>2 DEF Owning, Free
      <4>2. l.n \in Nat /\ l.data \in Data
        BY <4>1, CountsAreNatural DEF Lists
      <4>3. r = [k \in 1..l.n |-> <<l.data, k>>]
        BY <1>1, <2>1, <3>2 DEF Readings, Records
      <4> HIDE DEF l
      <4>4. \A k \in 1..l.n : <<l.data, k>> \in Item \cup {Undefined}
        BY <4>2 DEF Item
      <4> HIDE DEF Item
      <4> QED BY <4>2, <4>3, <4>4
    <3> QED BY <3>1, <3>2
  <2> QED BY <1>1, <1>2, <2>1, <2>2 DEF Report
<1>3. CASE target = "ue" /\ ues # {} /\ UeLists[1].n > 0 /\ tree = UeTree
  <2>1. r = Matrix(UeLists)
    BY <1>1, <1>3 DEF Readings, UeTree
  <2>2. buffer' = UeTree
    BY <1>1, <1>3, <2>1 DEF UeTree
  <2>3. UeLists \in Seq(Lists) /\ Len(UeLists) > 0
    BY <1>3, UeMatrix
  <2>4. Matrix(UeLists) \in Seq(Item \cup {Undefined})
    BY <2>3, MatrixEntries
  <2>5. UeLists[1].n \in Counts
    <3>1. UeLists[1] \in Lists
      BY <2>3
    <3> QED BY <3>1 DEF Lists
  <2> QED BY <1>3, <2>2, <2>4, <2>5 DEF Report, UeTree
<1> QED BY <1>2, <1>3 DEF Typed, Encode

LEMMA TypedStep == Owning /\ Typed /\ [Next]_vars => Typed'
<1> SUFFICES ASSUME Owning, Typed, [Next]_vars PROVE Typed'
  OBVIOUS
<1>1. ASSUME UNCHANGED <<target, buffer>>, pc' \in {"none", "built", "crashed"} PROVE Typed'
  BY <1>1 DEF Typed
<1>2. ASSUME NEW t \in Target, Construct(t) PROVE Typed'
  BY <1>2 DEF Construct, Typed
<1>3. CASE UseCellList
  BY <1>3 DEF UseCellList, helper, Typed, Owning
<1>4. ASSUME NEW a \in Address, NEW l \in Lists, CreateDefaultList(a, l) PROVE Typed'
  BY <1>4 DEF CreateDefaultList, Typed
<1>5. CASE FillFormat1
  <2>1. /\ UNCHANGED <<target, local, buffer>> /\ pc = "format1" /\ pc' = "leaving"
        /\ tree' = [format |-> 1, from |-> local, n |-> lists[local].n]
    BY <1>5 DEF FillFormat1
  <2>2. local \in Address
    BY <2>1 DEF Typed
  <2>3. lists[local] \in Lists
    BY <2>2, NoneIsNoAddress DEF Owning, ListsHaveOwners, Free
  <2>4. tree' \in CellTree
    BY <2>1, <2>2, <2>3 DEF Lists, CellTree
  <2>5. CellTree' = CellTree
    BY DEF CellTree
  <2> QED BY <2>1, <2>2, <2>4 DEF Typed
<1>6. CASE LeaveFormat1
  <2>1. pc = "leaving" /\ pc' = "encoding" /\ UNCHANGED <<target, tree, buffer>>
    BY <1>6 DEF LeaveFormat1
  <2>2. target = "cell" /\ tree \in CellTree
    BY <2>1 DEF Owning, Typed
  <2> QED BY <2>1, <2>2 DEF Typed
<1>7. CASE FillFormat2
  <2>1. /\ UNCHANGED <<lists, ues, target, local, buffer>> /\ pc' = "encoding"
        /\ target = "ue" /\ ues # {} /\ UeLists[1].n > 0 /\ tree' = UeTree
    BY <1>7 DEF FillFormat2, helper, UeTree
  <2>2. UeLists' = UeLists
    BY <2>1 DEF UeLists
  <2>3. UeTree' = UeTree
    BY <2>2 DEF UeTree
  <2> QED BY <2>1, <2>2, <2>3 DEF Typed
<1>8. CASE Encode
  <2>1. buffer' \in Report
    BY <1>8, EncodesReport
  <2> QED BY <1>8, <2>1 DEF Encode, Typed
<1>9. CASE DestroyMessage
  BY <1>9 DEF DestroyMessage, Typed, Target
<1>10. CASE SkipFormat1 \/ SkipFormat2 \/ UnknownFormat \/ EncodeFails
  BY <1>1, <1>10 DEF SkipFormat1, SkipFormat2, UnknownFormat, EncodeFails
<1>11. CASE DestroyHelper \/ \E a \in Address, l \in Lists : AddUe(a, l) \/ AddCell(a, l)
  BY <1>1, <1>11 DEF DestroyHelper, AddUe, AddCell, BetweenMessages
<1>12. CASE UNCHANGED vars
  <2>1. UNCHANGED <<lists, cell, ues, pc, target, local, tree, buffer>>
    BY <1>12 DEF vars, helper
  <2>2. UeLists' = UeLists
    BY <2>1 DEF UeLists
  <2>3. UeTree' = UeTree
    BY <2>2 DEF UeTree
  <2> QED BY <2>1, <2>2, <2>3 DEF Typed
<1> QED
  BY <1>2, <1>3, <1>4, <1>5, <1>6, <1>7, <1>8, <1>9, <1>10, <1>11, <1>12 DEF Next

\* Every variable has its type: a report that was encoded has the size of what
\* it was made from, for any lists (kpm-indication.cc:356-409, 543-818).
THEOREM TypeCorrect == Spec => []TypeOK
<1>1. Owning /\ Typed => TypeOK
  BY DEF Owning, Typed, TypeOK
<1> QED BY <1>1, OwningInit, OwningStep, TypedInit, TypedStep, PTL DEF Spec

-----------------------------------------------------------------------------
(* The matrix of a report *)

\* A product has its factors.
LEMMA Factor == ASSUME NEW n \in Nat \ {0}, NEW U \in Nat PROVE (n * U) \div n = U
<1>1. 0 \in 0..(n - 1) /\ n * U = U * n + 0
  OBVIOUS
<1> QED BY <1>1, OneRowAndColumn

\* Only the encoder makes a report, and it makes it of the lists of the UEs.
LEMMA ColumnsStep == Owning /\ Typed /\ ColumnsAreUes /\ [Next]_vars => ColumnsAreUes'
<1> SUFFICES ASSUME Owning, Typed, ColumnsAreUes, [Next]_vars PROVE ColumnsAreUes'
  OBVIOUS
<1>1. CASE buffer' = buffer
  BY <1>1 DEF ColumnsAreUes
<1>2. CASE ~Encoded(buffer')
  BY <1>2 DEF ColumnsAreUes
<1>3. CASE Encode
  <2> DEFINE us == UeLists
             U == Len(us)
             n == us[1].n
             records == Matrix(us)
  <2>1. CASE target = "cell"
    BY <1>3, <2>1, EncodesReport DEF ColumnsAreUes
  <2>2. CASE target # "cell"
    <3>1. target = "ue" /\ ues # {} /\ n > 0
      BY <1>3, <2>2 DEF Typed, Encode
    <3>2. buffer' = [format |-> 2, n |-> n, records |-> records]
      BY <1>3, <3>1, EncodesReport DEF UeTree
    <3>3. us \in Seq(Lists) /\ U > 0
      BY <3>1, UeMatrix
    <3>4. U \in Nat
      BY <3>3
    <3>5. n \in Nat /\ Len(records) = n * U
      BY <3>3, MatrixEntries
    <3>6. \A m \in 1..n, u \in 1..U : records[(m - 1) * U + u] = Entry(us, u, m)
      BY <3>3, MatrixEntries
    <3>7. \A u \in 1..U : us[u].data \in Data
      <4>1. \A u \in 1..U : us[u] \in Lists
        BY <3>3
      <4> QED BY <4>1 DEF Lists
    <3> HIDE DEF us, U, n, records
    <3>8. Len(records) \div n = U /\ n * U = U * n
      BY <3>1, <3>4, <3>5, Factor
    <3>9. ASSUME NEW u \in 1..U
          PROVE  \E d \in Data : \A m \in 1..n :
                   records[(m - 1) * U + u] \in {<<d, m>>, Undefined}
      <4>1. us[u].data \in Data
        BY <3>7
      <4>2. \A m \in 1..n : records[(m - 1) * U + u] \in {<<us[u].data, m>>, Undefined}
        BY <3>6 DEF Entry
      <4> QED BY <4>1, <4>2
    <3> QED BY <3>2, <3>5, <3>8, <3>9 DEF ColumnsAreUes
  <2> QED BY <2>1, <2>2
<1>4. buffer' = buffer \/ ~Encoded(buffer') \/ Encode
  <2>1. ~Encoded(Wild) /\ ~Encoded(NullBuffer) /\ ~Encoded(NoMessage)
    BY DEF Encoded, Wild, NullBuffer, NoMessage
  <2> QED BY <2>1 DEF Next, AddUe, AddCell, CreateDefaultList, DestroyHelper, Construct,
    UseCellList, SkipFormat1, FillFormat1, LeaveFormat1, SkipFormat2, FillFormat2,
    UnknownFormat, EncodeFails, DestroyMessage, vars
<1> QED BY <1>1, <1>2, <1>3, <1>4

\* In a UE report of any size every column is one UE, metric by metric; what a
\* UE does not have is undefined and never another one's (kpm-indication.cc:621-663, 699-727).
THEOREM ColumnsOfUes == Spec => []ColumnsAreUes
<1>1. Init => ColumnsAreUes
  BY DEF Init, ColumnsAreUes, Encoded, NoMessage
<1> QED BY <1>1, OwningInit, OwningStep, TypedInit, TypedStep, ColumnsStep, PTL DEF Spec

\* If all lists have n items, the places of a matrix that hold metric m of d are
\* as many as the lists with d.
LEMMA EntriesOfData ==
  ASSUME Owning, ues # {}, \A a, b \in ues : lists[a].n = lists[b].n,
         NEW d \in Data, NEW m \in 1..UeLists[1].n
  PROVE  LET records == Matrix(UeLists)
         IN  Cardinality({k \in DOMAIN records : records[k] = <<d, m>>})
               = Cardinality({a \in ues : lists[a].data = d})
<1> DEFINE us == UeLists
           U == Len(us)
           n == us[1].n
           records == Matrix(us)
           K == {k \in DOMAIN records : records[k] = <<d, m>>}
           A == {a \in ues : lists[a].data = d}
           At(u) == (m - 1) * U + u
           ue == [k \in K |-> Kth(ues, k - (m - 1) * U)]
<1>1. us \in Seq(Lists) /\ U > 0
  BY UeMatrix
<1>2. /\ n \in Nat /\ n * U \in Nat
      /\ records \in Seq(Item \cup {Undefined}) /\ Len(records) = n * U
      /\ \A p \in 1..n, u \in 1..U : /\ (p - 1) * U + u \in 1..(n * U)
                                     /\ records[(p - 1) * U + u] = Entry(us, u, p)
      /\ \A k \in 1..(n * U) : \E p \in 1..n, u \in 1..U : k = (p - 1) * U + u
  BY <1>1, MatrixEntries
<1>3. DOMAIN records = 1..(n * U)
  BY <1>2
<1>4. U = Cardinality(ues) /\ IsFiniteSet(ues) /\ ues \in SUBSET Nat
  BY UeListsInOrder
<1>5. \A u \in 1..U : Kth(ues, u) \in ues /\ us[u] = lists[Kth(ues, u)]
  BY <1>4, UeListsInOrder
<1>6. \A u \in 1..U : us[u].n = n
  <2>1. 1 \in 1..U
    BY <1>1, <1>2
  <2> QED BY <1>5, <2>1
<1>7. /\ \A u, v \in 1..U : Kth(ues, u) = Kth(ues, v) => u = v
      /\ \A a \in ues : \E u \in 1..U : Kth(ues, u) = a
  BY <1>4, EachHasItsPlace
<1>8. U \in Nat /\ m \in 1..n
  BY <1>1
<1> HIDE DEF us, U, n, records
<1>9. ASSUME NEW p \in 1..n, NEW u \in 1..U
      PROVE  records[(p - 1) * U + u] = <<us[u].data, p>>
  <2>1. p <= us[u].n
    BY <1>2, <1>6
  <2> QED BY <1>2, <2>1 DEF Entry
<1>10. ASSUME NEW k \in K
       PROVE  \E u \in 1..U : k = At(u) /\ us[u].data = d
  <2>1. PICK p \in 1..n, u \in 1..U : k = (p - 1) * U + u
    BY <1>2, <1>3
  <2>2. <<us[u].data, p>> = <<d, m>>
    BY <1>9, <2>1
  <2> QED BY <2>1, <2>2
<1>11. ASSUME NEW u \in 1..U PROVE At(u) - (m - 1) * U = u
  <2> DEFINE start == (m - 1) * U
  <2>1. start \in Nat /\ u \in Nat
    <3>1. m - 1 \in Nat
      BY <1>2, <1>8
    <3> QED BY <1>8, <3>1
  <2> HIDE DEF start
  <2>2. (start + u) - start = u
    BY <2>1
  <2> QED BY <2>2 DEF start
<1>12. ASSUME NEW u \in 1..U, us[u].data = d PROVE At(u) \in K /\ ue[At(u)] = Kth(ues, u)
  <2>1. At(u) \in K
    BY <1>2, <1>3, <1>8, <1>9, <1>12
  <2> QED BY <1>11, <2>1
<1>13. ASSUME NEW k \in K
       PROVE  \E u \in 1..U : k = At(u) /\ us[u].data = d /\ ue[k] = Kth(ues, u)
  BY <1>10, <1>12
<1> HIDE DEF K, At, ue
<1>14. ue \in [K -> A]
  <2>1. \A k \in K : ue[k] \in A
    BY <1>5, <1>13
  <2>2. ue = [k \in K |-> ue[k]]
    BY DEF ue
  <2> QED BY <2>1, <2>2
<1>15. \A j, k \in K : ue[j] = ue[k] => j = k
  BY <1>7, <1>13
<1>16. \A a \in A : \E k \in K : ue[k] = a
  <2> SUFFICES ASSUME NEW a \in A PROVE \E k \in K : ue[k] = a
    OBVIOUS
  <2>1. PICK u \in 1..U : Kth(ues, u) = a
    BY <1>7
  <2>2. us[u].data = d
    BY <1>5, <2>1
  <2> QED BY <1>12, <2>1, <2>2
<1>17. ExistsBijection(K, A)
  <2>1. ue \in Bijection(K, A)
    BY <1>14, <1>15, <1>16, Fun_IsBij
  <2> QED BY <2>1, Fun_ExistsBij
<1>18. IsFiniteSet(K)
  <2>1. IsFiniteSet(1..(n * U)) /\ K \in SUBSET (1..(n * U))
    BY <1>2, <1>3, FS_Interval DEF K
  <2> QED BY <2>1, FS_Subset
<1>19. Cardinality(K) = Cardinality(A)
  BY <1>17, <1>18, FS_Bijection
<1> QED BY <1>19 DEF K, records, us

\* However many UEs there are, each is in the report as often as the helper has
\* it, metric by metric (kpm-indication.cc:621-663, 699-727).
THEOREM UesAreReported == Spec => EveryUeIsReported
<1> DEFINE Once ==
      pc = "encoding" /\ pc' = "built" /\ target = "ue"
        /\ (\A a, b \in ues : lists[a].n = lists[b].n) =>
      \A d \in Data, m \in 1..buffer'.n :
        Cardinality({k \in DOMAIN buffer'.records : buffer'.records[k] = <<d, m>>})
          = Cardinality({a \in ues : lists[a].data = d})
<1>1. ASSUME Owning, Typed, Next PROVE Once
  <2> SUFFICES ASSUME pc = "encoding", pc' = "built", target = "ue",
                      \A a, b \in ues : lists[a].n = lists[b].n,
                      NEW d \in Data, NEW m \in 1..buffer'.n
               PROVE  Cardinality({k \in DOMAIN buffer'.records : buffer'.records[k] = <<d, m>>})
                        = Cardinality({a \in ues : lists[a].data = d})
    OBVIOUS
  <2>1. Encode
    BY <1>1 DEF Next, AddUe, AddCell, CreateDefaultList, DestroyHelper, BetweenMessages,
      Construct, UseCellList, SkipFormat1, FillFormat1, LeaveFormat1, SkipFormat2,
      FillFormat2, UnknownFormat, EncodeFails, DestroyMessage
  <2>2. ues # {}
    BY <1>1 DEF Typed
  <2>3. buffer'.n = UeLists[1].n /\ buffer'.records = Matrix(UeLists)
    BY <1>1, <2>1, EncodesReport DEF UeTree
  <2>4. m \in 1..UeLists[1].n
    BY <2>3
  <2>5. Cardinality({k \in DOMAIN Matrix(UeLists) : Matrix(UeLists)[k] = <<d, m>>})
          = Cardinality({a \in ues : lists[a].data = d})
    BY <1>1, <2>2, <2>4, EntriesOfData
  <2> QED BY <2>3, <2>5
<1>2. Owning /\ Typed /\ [Next]_vars => [Once]_vars
  BY <1>1
<1> QED
  BY <1>2, OwningInit, OwningStep, TypedInit, TypedStep, PTL DEF Spec, EveryUeIsReported
=============================================================================
