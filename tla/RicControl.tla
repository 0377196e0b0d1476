------------------------------ MODULE RicControl ------------------------------
(***************************************************************************)
(* RicControlMessage: the constructor decodes the IEs of a RIC Control     *)
(* Request one by one into members no constructor initialises; the two     *)
(* getters read what is there.  A member is modelled by the index of the   *)
(* IE its value was taken from; a member nobody has written holds whatever *)
(* the memory held: a null or a wild pointer.  The decoders are external:  *)
(* the outcome of decoding an IE comes with the IE.                        *)
(***************************************************************************)
EXTENDS Integers, Sequences, FiniteSets

CONSTANTS
  Item,      \* RAN parameters, structures of others included
  Request,   \* lists of IEs a RIC may send
  UeId,      \* values of gNB-CU-UE-F1AP-ID
  Cell       \* values an undefined read of the target cell may give

Null == 0
Wild == -1
Fault == -2       \* a getter that faults on a wild pointer
NotCalled == -3

Byte == 0..255

\* The value of an element parameter, in the encodings GetTargetCell tells apart.
Value == [type : {"bits", "octets"}, bytes : Seq(Byte)]
           \cup [type : {"int"}, int : Int] \cup [type : {"other"}]

\* A parameter is an element, a structure or of another type.
IsItem(x) ==
  \/ x.type = "element" /\ x.value \in Value
  \/ x.type = "structure" /\ x.items \in Seq(Item)
  \/ x.type = "other"

ASSUME ItemsAreTyped == \A x \in Item : IsItem(x)

UeIdentity == [type : {"gNB"}, ids : Seq(UeId)] \cup [type : {"other"}]

HeaderIE == [kind : {"RICcontrolHeader"}, outcome : {"format1", "other", "error"},
             ueID : UeIdentity]
MessageIE == [kind : {"RICcontrolMessage"}, outcome : {"format1", "other", "error", "empty"},
              items : Seq(Item)]
IE == HeaderIE \cup MessageIE
        \cup [kind : {"RICrequestID", "RANfunctionID", "RICcallProcessID", "other"}]

ASSUME RequestsAreIELists == Request \subseteq Seq(IE)

Member == {"requestId", "ranFunction", "callProcess", "header", "message"}

VARIABLES
  pc,        \* "none", "decoding" or "built"
  request,   \* the IE list
  i,         \* index of the IE under way
  member,    \* per member, the IE it was taken from, or Null or Wild
  heap,      \* per IE, the structure decoded from it: none, live or freed
  cell,      \* what GetTargetCell returned
  ue         \* what GetUeId returned

vars == <<pc, request, i, member, heap, cell, ue>>

Init ==
  /\ pc = "none"
  /\ request = <<>>
  /\ i = 1
  /\ member = [m \in Member |-> Wild]
  /\ heap = <<>>
  /\ cell = NotCalled
  /\ ue = NotCalled

-----------------------------------------------------------------------------
(* DecodeRicControlMessage *)

\* A new object: the pointer members are not initialised, nor is the rest.
Construct(r) ==
  /\ pc = "none"
  /\ request' = r
  /\ i' = 1
  /\ \E header, message \in {Null, Wild} :
       member' = [m \in Member |-> CASE m = "header" -> header
                                     [] m = "message" -> message
                                     [] OTHER -> Wild]
  /\ heap' = [k \in DOMAIN r |-> "none"]
  /\ pc' = IF r = <<>> THEN "built" ELSE "decoding"  \* "received empty list"
  /\ UNCHANGED <<cell, ue>>

AtIE(kind) == pc = "decoding" /\ i <= Len(request) /\ request[i].kind = kind

\* Mutant: an IE is skipped together with the next one.
NextIETwice == i' = i + 2 /\ UNCHANGED <<pc, request, cell, ue>>

NextIE == i' = i + 1 /\ UNCHANGED <<pc, request, cell, ue>>

\* The three IEs copied into a member; requestId stands for m_ricRequestId and
\* the m_requestType derived from it.
CopyIE ==
  /\ \/ AtIE("RICrequestID") /\ member' = [member EXCEPT !["requestId"] = i]
     \/ AtIE("RANfunctionID") /\ member' = [member EXCEPT !["ranFunction"] = i]
     \/ AtIE("RICcallProcessID") /\ member' = [member EXCEPT !["callProcess"] = i]
  /\ NextIE
  /\ UNCHANGED heap

\* Mutant: the break before ASN_STRUCT_FREE is gone, so it is reached.
DecodeHeaderAndFree ==
  /\ AtIE("RICcontrolHeader")
  /\ heap' = [heap EXCEPT ![i] = IF request[i].outcome = "error" THEN "live" ELSE "freed"]
  /\ member' = IF request[i].outcome = "format1" THEN [member EXCEPT !["header"] = i] ELSE member
  /\ NextIE

\* The header is never freed: not on error, not when its format is another
\* one, and not after the break that precedes ASN_STRUCT_FREE.
DecodeHeader ==
  /\ AtIE("RICcontrolHeader")
  /\ heap' = [heap EXCEPT ![i] = "live"]
  /\ member' = IF request[i].outcome = "format1" THEN [member EXCEPT !["header"] = i] ELSE member
  /\ NextIE

EmptyMessage ==
  /\ AtIE("RICcontrolMessage")
  /\ request[i].outcome = "empty"
  /\ NextIE
  /\ UNCHANGED <<member, heap>>

\* A control message that does not decode is freed and left behind.
RejectMessage ==
  /\ AtIE("RICcontrolMessage")
  /\ request[i].outcome = "error"
  /\ heap' = [heap EXCEPT ![i] = "freed"]
  /\ NextIE
  /\ UNCHANGED member

\* Mutant: a message of another format is taken too.
DecodeAnyMessage ==
  /\ AtIE("RICcontrolMessage")
  /\ request[i].outcome \in {"format1", "other"}
  /\ heap' = [heap EXCEPT ![i] = "live"]
  /\ member' = [member EXCEPT !["message"] = i]
  /\ NextIE

DecodeMessage ==
  /\ AtIE("RICcontrolMessage")
  /\ request[i].outcome \in {"format1", "other"}
  /\ heap' = [heap EXCEPT ![i] = "live"]
  /\ member' = IF request[i].outcome = "format1" THEN [member EXCEPT !["message"] = i] ELSE member
  /\ NextIE

\* RICcontrolAckRequest, NOTHING and unknown IEs leave no trace.
SkipIE ==
  /\ AtIE("other")
  /\ NextIE
  /\ UNCHANGED <<member, heap>>

EndDecode ==
  /\ pc = "decoding" /\ i > Len(request)
  /\ pc' = "built"
  /\ UNCHANGED <<request, i, member, heap, cell, ue>>

-----------------------------------------------------------------------------
(* The getters *)

\* Mutant: the first byte of the value instead of the last.
CellOfFirstByte(value) ==
  CASE value.type \in {"bits", "octets"} ->
         IF value.bytes = <<>> THEN 0 ELSE value.bytes[1] % 16
    [] value.type = "int" -> value.int % 16
    [] OTHER -> 0

\* The value of an element: the low four bits of its last byte.
CellOf(value) ==
  CASE value.type \in {"bits", "octets"} ->
         IF value.bytes = <<>> THEN 0 ELSE value.bytes[Len(value.bytes)] % 16
    [] value.type = "int" -> value.int % 16
    [] OTHER -> 0

\* The items under the first item of a list, when that is a structure.
Under(items) ==
  IF items # <<>> /\ items[1].type = "structure" THEN items[1].items ELSE <<>>

\* ranP_List -> target cell -> NR cell -> NR CGI, always through first items.
TargetCell(items) ==
  LET cgi == Under(Under(Under(items)))
  IN  IF cgi # <<>> /\ cgi[1].type = "element" THEN CellOf(cgi[1].value) ELSE 0

UeOf(ueID) == IF ueID.type = "gNB" /\ ueID.ids # <<>> THEN ueID.ids[1] ELSE 0

\* The IE a member was taken from, if it was.
Taken(m) == request[member[m]]

\* What reading through a member gives: 0 for null, the value for a live
\* structure, anything for a wild pointer.
Outcomes(m, value, any) ==
  CASE member[m] = Null -> {0}
    [] member[m] > 0 /\ heap[member[m]] = "live" -> {value}
    [] OTHER -> any \cup {Fault}

GetTargetCell ==
  /\ pc = "built"
  /\ cell' \in Outcomes("message", TargetCell(Taken("message").items), Cell)
  /\ UNCHANGED <<pc, request, i, member, heap, ue>>

\* Mutant: the getter frees the header it has read.
GetUeIdAndFree ==
  /\ pc = "built"
  /\ ue' \in Outcomes("header", UeOf(Taken("header").ueID), UeId)
  /\ heap' = IF member["header"] > 0 THEN [heap EXCEPT ![member["header"]] = "freed"] ELSE heap
  /\ UNCHANGED <<pc, request, i, member, cell>>

GetUeId ==
  /\ pc = "built"
  /\ ue' \in Outcomes("header", UeOf(Taken("header").ueID), UeId)
  /\ UNCHANGED <<pc, request, i, member, heap, cell>>

\* The destructor is empty: the decoded structures outlive the object, and
\* nothing refers to them any more.
Destroy ==
  /\ pc = "built"
  /\ pc' = "none"
  /\ request' = <<>> /\ i' = 1
  /\ member' = [m \in Member |-> Wild]
  /\ heap' = <<>>
  /\ cell' = NotCalled /\ ue' = NotCalled

Next ==
  \/ \E r \in Request : Construct(r)
  \/ CopyIE
  \/ DecodeHeader
  \/ EmptyMessage
  \/ RejectMessage
  \/ DecodeMessage
  \/ SkipIE
  \/ EndDecode
  \/ GetTargetCell
  \/ GetUeId
  \/ Destroy

Spec == Init /\ [][Next]_vars

-----------------------------------------------------------------------------
(* Properties *)

\* Types of the members and of what the getters return; the index of the loop
\* stays within the request (lines 59-61).
TypeOK ==
  /\ pc \in {"none", "decoding", "built"}
  /\ request \in Request \cup {<<>>}
  /\ i \in 1..(Len(request) + 1)
  /\ member \in [Member -> {Null, Wild} \cup DOMAIN request]
  /\ heap \in [DOMAIN request -> {"none", "live", "freed"}]
  /\ cell \in Cell \cup (0..15) \cup {Fault, NotCalled}
  /\ ue \in UeId \cup {0, Fault, NotCalled}

\* The IEs a member may be taken from.
Supplies(ie, m) ==
  CASE m = "requestId" -> ie.kind = "RICrequestID"
    [] m = "ranFunction" -> ie.kind = "RANfunctionID"
    [] m = "callProcess" -> ie.kind = "RICcallProcessID"
    [] m = "header" -> ie.kind = "RICcontrolHeader" /\ ie.outcome = "format1"
    [] m = "message" -> ie.kind = "RICcontrolMessage" /\ ie.outcome = "format1"

\* After any prefix of the IEs, a member is taken from the last of them that
\* can supply it: an IE that is empty, fails to decode or has another format
\* changes nothing, wherever it stands ("if it failed, never go on below",
\* line 240).  Without such an IE the member is what the memory held.
MembersFromLastIE ==
  \A m \in Member :
    LET suppliers == {k \in 1..(i - 1) : Supplies(request[k], m)}
    IN  IF suppliers = {} THEN member[m] \in {Null, Wild}
        ELSE member[m] \in suppliers /\ \A k \in suppliers : k <= member[m]

\* No member refers to a structure that was freed: the failed message is freed
\* (line 239) before anything could point to it, and the header not at all
\* (lines 127-129).
NoDanglingMember ==
  \A m \in {"header", "message"} : member[m] > 0 => heap[member[m]] = "live"

\* On a message that did decode, the getters are functions of it: whatever is
\* called in between, they give the same answer again.
GettersRepeatable ==
  [][pc = "built" /\ pc' = "built" =>
       /\ member["message"] > 0 /\ cell # NotCalled => cell' = cell
       /\ member["header"] > 0 /\ ue # NotCalled => ue' = ue]_vars

\* The list an xApp sends to name a target cell: three structures around one
\* element.
Nest(value) ==
  LET Structure(items) == <<[type |-> "structure", items |-> items]>>
  IN  Structure(Structure(Structure(<<[type |-> "element", value |-> value]>>)))

\* Encodings of cell c: an INTEGER, an OCTET STRING with the cell in its last
\* octet, and a 36-bit NR Cell Identity: five bytes of which the last 4 bits are
\* unused, "multiply by 16 to obtain a left shift" (asn1c-types.cc:134-137).
AsInt(c)    == [type |-> "int", int |-> c]
AsOctets(c) == [type |-> "octets", bytes |-> <<33, c>>]
AsBits(c)   == [type |-> "bits", bytes |-> <<0, 0, 0, 0, 16 * c>>]

DecodesTo(value, c) ==
  pc = "built" /\ member["message"] > 0 /\ cell # NotCalled
    /\ request[member["message"]].items = Nest(value) => cell = c

\* A cell of 0..15 sent as INTEGER or as OCTET STRING is the cell handed to
\* the handover, whatever else the request holds.
CellRoundTrip ==
  \A c \in 0..15 : DecodesTo(AsInt(c), c) /\ DecodesTo(AsOctets(c), c)

-----------------------------------------------------------------------------
(* What the comments of the source say *)

\* Line 353, "0. check that Format1 exists": GetTargetCell answers 0 when no
\* Format1 message was decoded.
MissingFormat1IsSeen ==
  pc = "built" /\ cell # NotCalled
    /\ (\A k \in DOMAIN request : ~Supplies(request[k], "message")) => cell = 0

\* Line 501, "valueBitS / valueOctS / valueInt all supported": a cell sent as
\* the 36-bit NR Cell Identity comes out as that cell.
BitStringSupported == \A c \in 0..15 : DecodesTo(AsBits(c), c)
==============================================================================
