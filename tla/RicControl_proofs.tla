-------------------------- MODULE RicControl_proofs --------------------------
(***************************************************************************)
(* The control message, for every request, parameter tree and UE identity: *)
(* where its members come from and point to, and what its getters answer.  *)
(***************************************************************************)
EXTENDS RicControl, TLAPS

\* A request is a sequence of IEs.
LEMMA Requests ==
  ASSUME NEW r \in Request \cup {<<>>}
  PROVE  /\ r \in Seq(IE) /\ Len(r) \in Nat /\ DOMAIN r = 1..Len(r)
         /\ \A k \in DOMAIN r : r[k] \in IE
<1>1. <<>> \in Seq(IE)
  OBVIOUS
<1>2. r \in Seq(IE)
  BY <1>1, RequestsAreIELists
<1> QED BY <1>2

-----------------------------------------------------------------------------
(* What the getters make of a decoded structure *)

\* A value gives a cell of four bits.
LEMMA CellRange == \A v \in Value : CellOf(v) \in 0..15
<1> SUFFICES ASSUME NEW v \in Value PROVE CellOf(v) \in 0..15
  OBVIOUS
<1>1. CASE v \in [type : {"bits", "octets"}, bytes : Seq(Byte)]
  <2>1. v.type \in {"bits", "octets"} /\ v.bytes \in Seq(Byte)
    BY <1>1
  <2>2. CASE v.bytes = <<>>
    BY <2>1, <2>2 DEF CellOf
  <2>3. CASE v.bytes # <<>>
    <3>1. v.bytes[Len(v.bytes)] \in Byte
      BY <2>1, <2>3
    <3>2. \A b \in Byte : b % 16 \in 0..15
      BY DEF Byte
    <3>3. v.bytes[Len(v.bytes)] % 16 \in 0..15
      BY <3>1, <3>2, Zenon
    <3> QED BY <2>1, <2>3, <3>3 DEF CellOf
  <2> QED BY <2>2, <2>3
<1>2. CASE v \in [type : {"int"}, int : Int]
  BY <1>2 DEF CellOf
<1>3. CASE v \in [type : {"other"}]
  <2>1. v.type = "other"
    BY <1>3
  <2> QED BY <2>1 DEF CellOf
<1> QED BY <1>1, <1>2, <1>3 DEF Value

\* The items under a list of parameters are a list of parameters.
LEMMA UnderItems == \A items \in Seq(Item) : Under(items) \in Seq(Item)
<1> SUFFICES ASSUME NEW items \in Seq(Item) PROVE Under(items) \in Seq(Item)
  OBVIOUS
<1>1. CASE items # <<>> /\ items[1].type = "structure"
  <2>1. items[1] \in Item
    BY <1>1
  <2>2. items[1].items \in Seq(Item)
    BY <1>1, <2>1, ItemsAreTyped DEF IsItem
  <2> QED BY <1>1, <2>2 DEF Under
<1>2. CASE ~(items # <<>> /\ items[1].type = "structure")
  <2>1. Under(items) = <<>>
    BY <1>2 DEF Under
  <2> QED BY <2>1
<1> QED BY <1>1, <1>2

LEMMA TargetCellRange == \A items \in Seq(Item) : TargetCell(items) \in 0..15
<1> SUFFICES ASSUME NEW items \in Seq(Item) PROVE TargetCell(items) \in 0..15
  OBVIOUS
<1> DEFINE cgi == Under(Under(Under(items)))
<1>1. cgi \in Seq(Item)
  BY UnderItems
<1>2. TargetCell(items) = IF cgi # <<>> /\ cgi[1].type = "element" THEN CellOf(cgi[1].value) ELSE 0
  BY DEF TargetCell
<1> HIDE DEF cgi
<1>3. CASE cgi # <<>> /\ cgi[1].type = "element"
  <2>1. cgi[1] \in Item
    BY <1>1, <1>3
  <2>2. cgi[1].value \in Value
    BY <1>3, <2>1, ItemsAreTyped DEF IsItem
  <2> QED BY <1>2, <1>3, <2>2, CellRange
<1> QED BY <1>2, <1>3

LEMMA UeRange == \A u \in UeIdentity : UeOf(u) \in UeId \cup {0}
<1> SUFFICES ASSUME NEW u \in UeIdentity PROVE UeOf(u) \in UeId \cup {0}
  OBVIOUS
<1>1. CASE u.type = "gNB" /\ u.ids # <<>>
  <2>1. u.ids \in Seq(UeId)
    BY <1>1 DEF UeIdentity
  <2>2. u.ids[1] \in UeId
    BY <1>1, <2>1
  <2> QED BY <1>1, <2>2 DEF UeOf
<1>2. CASE ~(u.type = "gNB" /\ u.ids # <<>>)
  BY <1>2 DEF UeOf
<1> QED BY <1>1, <1>2

\* The cell of a nested list is that of its one element.
LEMMA NestedCell == \A value : TargetCell(Nest(value)) = CellOf(value)
<1> SUFFICES ASSUME NEW value PROVE TargetCell(Nest(value)) = CellOf(value)
  OBVIOUS
<1> DEFINE Structure(items) == <<[type |-> "structure", items |-> items]>>
           element == <<[type |-> "element", value |-> value]>>
<1>1. \A items : Under(Structure(items)) = items
  <2> SUFFICES ASSUME NEW items PROVE Under(Structure(items)) = items
    OBVIOUS
  <2>1. Structure(items) # <<>> /\ Structure(items)[1] = [type |-> "structure", items |-> items]
    OBVIOUS
  <2> HIDE DEF Structure
  <2> QED BY <2>1 DEF Under
<1>2. Nest(value) = Structure(Structure(Structure(element)))
  BY DEF Nest
<1>3. element # <<>> /\ element[1] = [type |-> "element", value |-> value]
  OBVIOUS
<1> HIDE DEF Structure, element
<1>4. Under(Under(Under(Nest(value)))) = element
  BY <1>1, <1>2
<1> QED BY <1>3, <1>4 DEF TargetCell

-----------------------------------------------------------------------------
(* The invariant *)

\* The getters answer for the structures that were decoded, and for nothing
\* before there is an object.
Answered ==
  /\ pc # "built" => cell = NotCalled /\ ue = NotCalled
  /\ pc = "built" /\ member["message"] > 0 /\ cell # NotCalled =>
       cell = TargetCell(request[member["message"]].items)
  /\ pc = "built" /\ member["header"] > 0 /\ ue # NotCalled =>
       ue = UeOf(request[member["header"]].ueID)

\* What a member was taken from stays in place: the request and the structure
\* decoded from it.
Held == TypeOK /\ MembersFromLastIE /\ NoDanglingMember /\ Answered

\* Members and indices are integers apart.
LEMMA Members ==
  ASSUME TypeOK, NEW m \in Member
  PROVE  /\ member[m] \in Int /\ (member[m] > 0 => member[m] \in DOMAIN request)
         /\ (member[m] <= 0 => member[m] \in {Null, Wild})
<1>1. request \in Request \cup {<<>>}
  BY DEF TypeOK
<1>2. DOMAIN request = 1..Len(request) /\ Len(request) \in Nat
  BY <1>1, Requests
<1>3. member[m] \in {Null, Wild} \cup DOMAIN request
  BY DEF TypeOK
<1> QED BY <1>2, <1>3 DEF Null, Wild

\* A member with a source is taken from an IE that supplies it.
LEMMA Suppliers ==
  ASSUME TypeOK, MembersFromLastIE, NEW m \in Member, member[m] > 0
  PROVE  member[m] \in 1..(i - 1) /\ Supplies(request[member[m]], m)
<1>1. member[m] \notin {Null, Wild}
  BY Members DEF Null, Wild
<1> DEFINE suppliers == {k \in 1..(i - 1) : Supplies(request[k], m)}
<1>2. member[m] \in suppliers
  BY <1>1 DEF MembersFromLastIE
<1> QED BY <1>2

\* The structures behind the members have their types.
LEMMA Structures ==
  ASSUME TypeOK, MembersFromLastIE
  PROVE  /\ member["message"] > 0 => request[member["message"]].items \in Seq(Item)
         /\ member["header"] > 0 => request[member["header"]].ueID \in UeIdentity
<1>1. ASSUME NEW m \in {"message", "header"}, member[m] > 0
      PROVE  request[member[m]] \in IE /\ Supplies(request[member[m]], m)
  <2>1. m \in Member
    BY DEF Member
  <2>2. request \in Request \cup {<<>>} /\ member[m] \in DOMAIN request
    BY <1>1, <2>1, Members DEF TypeOK
  <2> QED BY <1>1, <2>1, <2>2, Requests, Suppliers
<1>2. ASSUME member["message"] > 0 PROVE request[member["message"]] \in MessageIE
  <2>1. request[member["message"]] \in IE /\ request[member["message"]].kind = "RICcontrolMessage"
    BY <1>1, <1>2 DEF Supplies
  <2> QED BY <2>1 DEF IE, HeaderIE
<1>3. ASSUME member["header"] > 0 PROVE request[member["header"]] \in HeaderIE
  <2>1. request[member["header"]] \in IE /\ request[member["header"]].kind = "RICcontrolHeader"
    BY <1>1, <1>3 DEF Supplies
  <2> QED BY <2>1 DEF IE, MessageIE
<1> QED BY <1>2, <1>3 DEF MessageIE, HeaderIE

\* The i-th IE supplies the members it is written to, and no other: then each
\* member is again taken from the last IE that can supply it.
LEMMA NextTaken ==
  ASSUME TypeOK, MembersFromLastIE, i \in DOMAIN request,
         i' = i + 1, request' = request,
         \A m \in Member :
           member'[m] = IF Supplies(request[i], m) THEN i ELSE member[m]
  PROVE  MembersFromLastIE'
<1> SUFFICES ASSUME NEW m \in Member
             PROVE  LET suppliers == {k \in 1..(i' - 1) : Supplies(request'[k], m)}
                    IN  IF suppliers = {} THEN member'[m] \in {Null, Wild}
                        ELSE member'[m] \in suppliers /\ \A k \in suppliers : k <= member'[m]
  BY DEF MembersFromLastIE
<1> DEFINE before == {k \in 1..(i - 1) : Supplies(request[k], m)}
           suppliers == {k \in 1..(i' - 1) : Supplies(request'[k], m)}
<1> SUFFICES IF suppliers = {} THEN member'[m] \in {Null, Wild}
             ELSE member'[m] \in suppliers /\ \A k \in suppliers : k <= member'[m]
  OBVIOUS
<1>1. i \in Nat \ {0} /\ 1..(i' - 1) = 1..(i - 1) \cup {i}
  <2>1. i \in Nat \ {0}
    BY DEF TypeOK
  <2> QED BY <2>1
<1>2. IF before = {} THEN member[m] \in {Null, Wild}
      ELSE member[m] \in before /\ \A k \in before : k <= member[m]
  BY DEF MembersFromLastIE
<1>3. CASE Supplies(request[i], m)
  <2>1. suppliers = before \cup {i} /\ member'[m] = i
    BY <1>1, <1>3
  <2>2. i \in suppliers /\ \A k \in suppliers : k \in before \/ k = i
    BY <2>1
  <2>3. \A k \in before : k <= i
    BY <1>1
  <2>4. \A k \in suppliers : k <= i
    <3> HIDE DEF before, suppliers
    <3> QED BY <1>1, <2>2, <2>3
  <2> HIDE DEF before, suppliers
  <2> QED BY <2>1, <2>2, <2>4
<1>4. CASE ~Supplies(request[i], m)
  <2>1. suppliers = before /\ member'[m] = member[m]
    BY <1>1, <1>4
  <2> HIDE DEF before, suppliers
  <2> QED BY <1>2, <2>1
<1> QED BY <1>3, <1>4

\* The IEs the decoder is at, one kind at a time.
LEMMA AtKind ==
  ASSUME TypeOK, NEW kind, AtIE(kind)
  PROVE  /\ i \in DOMAIN request /\ request[i] \in IE /\ request[i].kind = kind
         /\ pc = "decoding" /\ (i + 1 \in 1..(Len(request) + 1)) /\ i \in Nat \ {0}
<1>1. request \in Request \cup {<<>>}
  BY DEF TypeOK
<1>2. i \in 1..(Len(request) + 1) /\ i <= Len(request) /\ request[i].kind = kind /\ pc = "decoding"
  BY DEF TypeOK, AtIE
<1>3. i \in DOMAIN request
  BY <1>1, <1>2, Requests
<1> QED BY <1>1, <1>2, <1>3, Requests

\* What one iteration of the loop does, whichever IE it is at.
LEMMA Iteration ==
  ASSUME Held, i \in DOMAIN request, i \in Nat \ {0}, pc = "decoding", NextIE,
         i + 1 \in 1..(Len(request) + 1),
         member' \in [Member -> {Null, Wild} \cup DOMAIN request],
         \A m \in Member :
           member'[m] = IF Supplies(request[i], m) THEN i ELSE member[m],
         heap' \in [DOMAIN request -> {"none", "live", "freed"}],
         \A k \in DOMAIN request \ {i} : heap'[k] = heap[k],
         Supplies(request[i], "header") \/ Supplies(request[i], "message") => heap'[i] = "live"
  PROVE  Held'
<1>1. /\ i' = i + 1 /\ UNCHANGED <<pc, request, cell, ue>>
      /\ TypeOK /\ MembersFromLastIE /\ NoDanglingMember /\ Answered
  BY DEF NextIE, Held
<1>2. TypeOK'
  BY <1>1 DEF TypeOK
<1>3. MembersFromLastIE'
  BY <1>1, NextTaken
<1>4. ASSUME NEW m \in {"header", "message"}, member'[m] > 0 PROVE heap'[member'[m]] = "live"
  <2>1. m \in Member
    BY DEF Member
  <2>2. CASE Supplies(request[i], m)
    BY <2>1, <2>2
  <2>3. CASE ~Supplies(request[i], m)
    <3>1. member'[m] = member[m]
      BY <2>1, <2>3
    <3>2. member[m] \in DOMAIN request /\ member[m] \in 1..(i - 1)
      BY <1>1, <1>4, <2>1, <3>1, Members, Suppliers
    <3>3. member[m] # i
      BY <3>2
    <3> QED BY <1>1, <1>4, <3>1, <3>2, <3>3 DEF NoDanglingMember
  <2> QED BY <2>2, <2>3
<1>5. NoDanglingMember'
  BY <1>4 DEF NoDanglingMember
<1>6. Answered'
  BY <1>1 DEF Answered
<1> QED BY <1>2, <1>3, <1>5, <1>6 DEF Held

\* The kinds of IE are told apart, and so are the members they supply.
LEMMA Kinds ==
  ASSUME NEW ie
  PROVE  /\ ie.kind = "RICrequestID" => \A m \in Member : Supplies(ie, m) <=> m = "requestId"
         /\ ie.kind = "RANfunctionID" => \A m \in Member : Supplies(ie, m) <=> m = "ranFunction"
         /\ ie.kind = "RICcallProcessID" => \A m \in Member : Supplies(ie, m) <=> m = "callProcess"
         /\ ie.kind = "RICcontrolHeader" =>
              \A m \in Member : Supplies(ie, m) <=> m = "header" /\ ie.outcome = "format1"
         /\ ie.kind = "RICcontrolMessage" =>
              \A m \in Member : Supplies(ie, m) <=> m = "message" /\ ie.outcome = "format1"
         /\ ie.kind = "other" => \A m \in Member : ~Supplies(ie, m)
  BY DEF Supplies, Member

\* Every iteration of the decoder keeps the invariant.
LEMMA DecodeStep ==
  ASSUME Held,
         CopyIE \/ DecodeHeader \/ EmptyMessage \/ RejectMessage \/ DecodeMessage \/ SkipIE
  PROVE  Held'
<1> DEFINE ie == request[i]
<1>1. TypeOK
  BY DEF Held
<1>2. /\ member \in [Member -> {Null, Wild} \cup DOMAIN request]
      /\ heap \in [DOMAIN request -> {"none", "live", "freed"}]
  BY <1>1 DEF TypeOK
<1>3. /\ "requestId" \in Member /\ "ranFunction" \in Member /\ "callProcess" \in Member
      /\ "header" \in Member /\ "message" \in Member
  BY DEF Member
\* Each kind of IE writes its member, and the heap at most at its index.
<1>4. /\ i \in DOMAIN request /\ i \in Nat \ {0} /\ pc = "decoding" /\ NextIE
      /\ i + 1 \in 1..(Len(request) + 1)
  <2>1. \E kind : AtIE(kind)
    BY DEF CopyIE, DecodeHeader, EmptyMessage, RejectMessage, DecodeMessage, SkipIE
  <2>2. NextIE
    BY DEF CopyIE, DecodeHeader, EmptyMessage, RejectMessage, DecodeMessage, SkipIE
  <2> QED BY <1>1, <2>1, <2>2, AtKind
<1>5. /\ member' \in [Member -> {Null, Wild} \cup DOMAIN request]
      /\ \A m \in Member : member'[m] = IF Supplies(ie, m) THEN i ELSE member[m]
  <2>1. CASE CopyIE
    <3>1. PICK m0 \in {"requestId", "ranFunction", "callProcess"} :
            /\ member' = [member EXCEPT ![m0] = i]
            /\ ie.kind = CASE m0 = "requestId" -> "RICrequestID"
                           [] m0 = "ranFunction" -> "RANfunctionID"
                           [] m0 = "callProcess" -> "RICcallProcessID"
      BY <2>1 DEF CopyIE, AtIE
    <3>2. \A m \in Member : Supplies(ie, m) <=> m = m0
      BY <3>1, Kinds
    <3> QED BY <1>2, <1>3, <1>4, <3>1, <3>2
  <2>2. CASE DecodeHeader
    <3>1. /\ ie.kind = "RICcontrolHeader"
          /\ member' = IF ie.outcome = "format1" THEN [member EXCEPT !["header"] = i] ELSE member
      BY <2>2 DEF DecodeHeader, AtIE
    <3>2. \A m \in Member : Supplies(ie, m) <=> m = "header" /\ ie.outcome = "format1"
      BY <3>1, Kinds
    <3> QED BY <1>2, <1>3, <1>4, <3>1, <3>2
  <2>3. CASE DecodeMessage
    <3>1. /\ ie.kind = "RICcontrolMessage"
          /\ member' = IF ie.outcome = "format1" THEN [member EXCEPT !["message"] = i] ELSE member
      BY <2>3 DEF DecodeMessage, AtIE
    <3>2. \A m \in Member : Supplies(ie, m) <=> m = "message" /\ ie.outcome = "format1"
      BY <3>1, Kinds
    <3> QED BY <1>2, <1>3, <1>4, <3>1, <3>2
  <2>4. CASE EmptyMessage \/ RejectMessage
    <3>1. /\ ie.kind = "RICcontrolMessage" /\ ie.outcome \in {"empty", "error"}
          /\ member' = member
      BY <2>4 DEF EmptyMessage, RejectMessage, AtIE
    <3>2. \A m \in Member : ~Supplies(ie, m)
      BY <3>1, Kinds
    <3> QED BY <1>2, <3>1, <3>2
  <2>5. CASE SkipIE
    <3>1. ie.kind = "other" /\ member' = member
      BY <2>5 DEF SkipIE, AtIE
    <3>2. \A m \in Member : ~Supplies(ie, m)
      BY <3>1, Kinds
    <3> QED BY <1>2, <3>1, <3>2
  <2> QED BY <2>1, <2>2, <2>3, <2>4, <2>5
<1>6. /\ heap' \in [DOMAIN request -> {"none", "live", "freed"}]
      /\ \A k \in DOMAIN request \ {i} : heap'[k] = heap[k]
      /\ Supplies(ie, "header") \/ Supplies(ie, "message") => heap'[i] = "live"
  <2>1. CASE DecodeHeader \/ DecodeMessage
    <3>1. heap' = [heap EXCEPT ![i] = "live"]
      BY <2>1 DEF DecodeHeader, DecodeMessage
    <3> QED BY <1>2, <1>4, <3>1
  <2>2. CASE RejectMessage
    <3>1. heap' = [heap EXCEPT ![i] = "freed"] /\ ie.kind = "RICcontrolMessage"
          /\ ie.outcome = "error"
      BY <2>2 DEF RejectMessage, AtIE
    <3>2. ~Supplies(ie, "header") /\ ~Supplies(ie, "message")
      BY <1>3, <3>1, Kinds
    <3> QED BY <1>2, <1>4, <3>1, <3>2
  <2>3. CASE CopyIE \/ EmptyMessage \/ SkipIE
    <3>1. /\ heap' = heap
          /\ \/ ie.kind \in {"RICrequestID", "RANfunctionID", "RICcallProcessID", "other"}
             \/ ie.kind = "RICcontrolMessage" /\ ie.outcome = "empty"
      BY <2>3 DEF CopyIE, EmptyMessage, SkipIE, AtIE
    <3>2. ~Supplies(ie, "header") /\ ~Supplies(ie, "message")
      BY <1>3, <3>1, Kinds
    <3> QED BY <1>2, <3>1, <3>2
  <2> QED BY <2>1, <2>2, <2>3
<1> HIDE DEF ie
<1> QED BY <1>4, <1>5, <1>6, Iteration DEF ie

\* What reading through a member may give: the value when there is one.
LEMMA Read ==
  ASSUME Held, NEW m \in {"message", "header"}, NEW value, NEW any, NEW r \in Outcomes(m, value, any)
  PROVE  /\ member[m] > 0 => r = value
         /\ r \in {0, value, Fault} \cup any
         /\ member[m] <= 0 => r \in {0, Fault} \cup any
<1>1. member[m] > 0 => heap[member[m]] = "live"
  BY DEF Held, NoDanglingMember
<1>2. m \in Member /\ member[m] \in Int
  <2>1. m \in Member
    BY DEF Member
  <2> QED BY <2>1, Members DEF Held
<1> QED BY <1>1, <1>2 DEF Outcomes, Null

LEMMA HeldInit == Init => Held
<1> SUFFICES ASSUME Init PROVE Held
  OBVIOUS
<1>1. Len(<<>>) = 0 /\ DOMAIN <<>> = {}
  OBVIOUS
<1>2. /\ request = <<>> /\ heap = <<>> /\ i = 1 /\ pc = "none"
      /\ member = [m \in Member |-> Wild] /\ cell = NotCalled /\ ue = NotCalled
  BY DEF Init
<1>3. heap \in [DOMAIN request -> {"none", "live", "freed"}]
  BY <1>1, <1>2
<1>4. member \in [Member -> {Null, Wild} \cup DOMAIN request]
  BY <1>2
<1>5. TypeOK
  BY <1>1, <1>2, <1>3, <1>4 DEF TypeOK
<1>6. \A m \in Member : member[m] = Wild
  BY <1>2
<1>7. MembersFromLastIE
  <2>1. 1..(i - 1) = {}
    BY <1>2
  <2> QED BY <1>6, <2>1 DEF MembersFromLastIE
<1>8. NoDanglingMember /\ Answered
  BY <1>2, <1>6 DEF NoDanglingMember, Answered, Member, Wild
<1> QED BY <1>5, <1>7, <1>8 DEF Held

\* Everything else that happens to the object: its construction, the end of the
\* loop, the getters and the destructor.
LEMMA HeldStep == Held /\ [Next]_vars => Held'
<1> SUFFICES ASSUME Held, [Next]_vars PROVE Held'
  OBVIOUS
<1>0. TypeOK /\ MembersFromLastIE /\ NoDanglingMember /\ Answered
  BY DEF Held
<1>1. ASSUME NEW r \in Request, Construct(r) PROVE Held'
  <2>1. r \in Seq(IE) /\ Len(r) \in Nat /\ DOMAIN r = 1..Len(r)
    BY Requests
  <2>2. PICK header \in {Null, Wild}, message \in {Null, Wild} :
          member' = [m \in Member |-> CASE m = "header" -> header
                                        [] m = "message" -> message
                                        [] OTHER -> Wild]
    BY <1>1 DEF Construct
  <2>3. \A m \in Member : member'[m] \in {Null, Wild}
    BY <2>2
  <2>4. /\ request' = r /\ i' = 1 /\ pc' \in {"built", "decoding"}
        /\ heap' = [k \in DOMAIN r |-> "none"]
        /\ cell' = NotCalled /\ ue' = NotCalled
    BY <1>0, <1>1 DEF Construct, Answered
  <2>5. member' \in [Member -> {Null, Wild} \cup DOMAIN r]
    BY <2>2, <2>3
  <2>6. heap' \in [DOMAIN r -> {"none", "live", "freed"}]
    BY <2>4
  <2>7. TypeOK'
    BY <2>1, <2>4, <2>5, <2>6 DEF TypeOK
  <2>8. MembersFromLastIE'
    <3>1. 1..(i' - 1) = {}
      BY <2>4
    <3> QED BY <2>3, <3>1 DEF MembersFromLastIE
  <2>9. NoDanglingMember'
    BY <2>3 DEF NoDanglingMember, Member, Null, Wild
  <2>10. Answered'
    BY <2>4 DEF Answered
  <2> QED BY <2>7, <2>8, <2>9, <2>10 DEF Held
<1>2. CASE CopyIE \/ DecodeHeader \/ EmptyMessage \/ RejectMessage \/ DecodeMessage \/ SkipIE
  BY <1>2, DecodeStep
<1>3. CASE EndDecode
  <2>1. UNCHANGED <<request, i, member, heap, cell, ue>> /\ pc' = "built" /\ pc = "decoding"
    BY <1>3 DEF EndDecode
  <2>2. TypeOK' /\ MembersFromLastIE' /\ NoDanglingMember' /\ Answered'
    BY <1>0, <2>1 DEF TypeOK, MembersFromLastIE, NoDanglingMember, Answered
  <2> QED BY <2>2 DEF Held
<1>4. CASE GetTargetCell
  <2> DEFINE value == TargetCell(Taken("message").items)
  <2>1. /\ UNCHANGED <<pc, request, i, member, heap, ue>> /\ pc = "built"
        /\ cell' \in Outcomes("message", value, Cell)
    BY <1>4 DEF GetTargetCell
  <2>2. member["message"] > 0 => value \in 0..15
    BY <1>0, Structures, TargetCellRange DEF Taken
  <2>3. value = TargetCell(request[member["message"]].items)
    BY DEF Taken
  <2>4. /\ member["message"] > 0 => cell' = value
        /\ member["message"] <= 0 => cell' \in {0, Fault} \cup Cell
    <3> HIDE DEF value
    <3> QED BY <2>1, Read
  <2>5. cell' \in Cell \cup (0..15) \cup {Fault, NotCalled}
    <3>1. member["message"] \in Int
      BY <1>0, Members DEF Member
    <3> HIDE DEF value
    <3> QED BY <2>2, <2>4, <3>1
  <2>6. TypeOK' /\ MembersFromLastIE' /\ NoDanglingMember'
    BY <1>0, <2>1, <2>5 DEF TypeOK, MembersFromLastIE, NoDanglingMember
  <2>7. Answered'
    BY <1>0, <2>1, <2>3, <2>4 DEF Answered
  <2> QED BY <2>6, <2>7 DEF Held
<1>5. CASE GetUeId
  <2> DEFINE value == UeOf(Taken("header").ueID)
  <2>1. /\ UNCHANGED <<pc, request, i, member, heap, cell>> /\ pc = "built"
        /\ ue' \in Outcomes("header", value, UeId)
    BY <1>5 DEF GetUeId
  <2>2. member["header"] > 0 => value \in UeId \cup {0}
    BY <1>0, Structures, UeRange DEF Taken
  <2>3. value = UeOf(request[member["header"]].ueID)
    BY DEF Taken
  <2>4. /\ member["header"] > 0 => ue' = value
        /\ member["header"] <= 0 => ue' \in {0, Fault} \cup UeId
    <3> HIDE DEF value
    <3> QED BY <2>1, Read
  <2>5. ue' \in UeId \cup {0, Fault, NotCalled}
    <3>1. member["header"] \in Int
      BY <1>0, Members DEF Member
    <3> HIDE DEF value
    <3> QED BY <2>2, <2>4, <3>1
  <2>6. TypeOK' /\ MembersFromLastIE' /\ NoDanglingMember'
    BY <1>0, <2>1, <2>5 DEF TypeOK, MembersFromLastIE, NoDanglingMember
  <2>7. Answered'
    BY <1>0, <2>1, <2>3, <2>4 DEF Answered
  <2> QED BY <2>6, <2>7 DEF Held
<1>6. CASE Destroy
  <2>1. Init'
    BY <1>6 DEF Destroy, Init
  <2>2. Held'
    BY <2>1, HeldInit, PTL
  <2> QED BY <2>2
<1>7. CASE UNCHANGED vars
  BY <1>0, <1>7 DEF vars, Held, TypeOK, MembersFromLastIE, NoDanglingMember, Answered
<1> QED BY <1>1, <1>2, <1>3, <1>4, <1>5, <1>6, <1>7 DEF Next

-----------------------------------------------------------------------------

LEMMA AlwaysHeld == Spec => []Held
  BY HeldInit, HeldStep, PTL DEF Spec

\* The members, the index of the loop and what the getters return keep their
\* types (ric-control-message.cc:59-61, 349-597).
THEOREM TypeCorrect == Spec => []TypeOK
<1>1. Held => TypeOK
  BY DEF Held
<1> QED BY <1>1, AlwaysHeld, PTL

\* A member is taken from the last IE that can supply it, whatever IEs are
\* empty, broken or of other formats (ric-control-message.cc:59-309).
THEOREM LastIEWins == Spec => []MembersFromLastIE
<1>1. Held => MembersFromLastIE
  BY DEF Held
<1> QED BY <1>1, AlwaysHeld, PTL

\* A member never points to a freed structure (ric-control-message.cc:127-129, 239).
THEOREM MembersAreLive == Spec => []NoDanglingMember
<1>1. Held => NoDanglingMember
  BY DEF Held
<1> QED BY <1>1, AlwaysHeld, PTL

\* Every cell of four bits sent as INTEGER or OCTET STRING arrives
\* (ric-control-message.cc:523-545).
THEOREM CellsArrive == Spec => []CellRoundTrip
<1>1. ASSUME NEW c \in 0..15 PROVE CellOf(AsInt(c)) = c /\ CellOf(AsOctets(c)) = c
  <2>1. c % 16 = c
    OBVIOUS
  <2>2. CellOf(AsInt(c)) = c
    BY <2>1 DEF CellOf, AsInt
  <2>3. AsOctets(c).type = "octets" /\ AsOctets(c).bytes = <<33, c>>
    BY DEF AsOctets
  <2>4. <<33, c>> # <<>> /\ Len(<<33, c>>) = 2 /\ <<33, c>>[2] = c
    OBVIOUS
  <2>5. CellOf(AsOctets(c)) = c
    BY <2>1, <2>3, <2>4 DEF CellOf
  <2> QED BY <2>2, <2>5
<1>2. ASSUME Held PROVE CellRoundTrip
  <2> SUFFICES ASSUME NEW c \in 0..15
               PROVE  DecodesTo(AsInt(c), c) /\ DecodesTo(AsOctets(c), c)
    BY DEF CellRoundTrip
  <2>1. ASSUME NEW value, CellOf(value) = c PROVE DecodesTo(value, c)
    BY <1>2, <2>1, NestedCell DEF DecodesTo, Held, Answered
  <2> QED BY <1>1, <2>1
<1> QED BY <1>2, AlwaysHeld, PTL

\* A getter asked again about a decoded structure answers the same
\* (ric-control-message.cc:349-597).
THEOREM GettersRepeat == Spec => GettersRepeatable
<1>1. ASSUME Held, Held', [Next]_vars, pc = "built", pc' = "built"
      PROVE  /\ member["message"] > 0 /\ cell # NotCalled => cell' = cell
             /\ member["header"] > 0 /\ ue # NotCalled => ue' = ue
  <2>1. CASE GetTargetCell
    BY <1>1, <2>1, Read DEF GetTargetCell, Held, Answered, Taken
  <2>2. CASE GetUeId
    BY <1>1, <2>2, Read DEF GetUeId, Held, Answered, Taken
  <2>3. CASE UNCHANGED <<cell, ue>>
    BY <2>3
  <2> QED BY <1>1, <2>1, <2>2, <2>3 DEF Next, Construct, CopyIE, DecodeHeader, EmptyMessage,
    RejectMessage, DecodeMessage, SkipIE, EndDecode, Destroy, AtIE, NextIE, vars
<1>2. Held /\ Held' /\ [Next]_vars =>
        [pc = "built" /\ pc' = "built" =>
           /\ member["message"] > 0 /\ cell # NotCalled => cell' = cell
           /\ member["header"] > 0 /\ ue # NotCalled => ue' = ue]_vars
  BY <1>1
<1> QED BY <1>2, HeldInit, HeldStep, PTL DEF Spec, GettersRepeatable
=============================================================================
