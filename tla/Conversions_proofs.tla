------------------------ MODULE Conversions_proofs ------------------------
(***************************************************************************)
(* Proofs about the conversions, for all integers, cells, networks and UE  *)
(* identities.  One invariant, Memory, says what the string is made of and *)
(* by whom it was read; what a reader then returns is algebra: a layout    *)
(* loses no bit, three digits make a number, and so on.                    *)
(***************************************************************************)
EXTENDS Conversions, TLAPS

\* A little-endian layout finds every bit that it placed: none is lost under
\* the unused bits or out of the last octet.
LEMMA LayoutRoundTrip ==
  ASSUME NEW size \in Nat \ {0}, NEW unused \in 0..7,
         NEW v, v \subseteq Bits(8 * size - unused)
  PROVE  LET layout == LittleEndian(size, unused)
         IN  Found(layout, {a \in DOMAIN layout : layout[a] \in v}) = v
<1> DEFINE layout == LittleEndian(size, unused)
           ones == {a \in DOMAIN layout : layout[a] \in v}
<1>1. DOMAIN layout = Bits(8 * size) \ {8 * (size - 1) + j : j \in Bits(unused)}
  BY DEF LittleEndian
<1>2. \A a \in DOMAIN layout :
        layout[a] = IF a < 8 * (size - 1) THEN a ELSE a - unused
  BY DEF LittleEndian
<1>3. Found(layout, ones) \subseteq v
  BY DEF Found
<1>4. ASSUME NEW b \in v PROVE b \in Found(layout, ones)
  <2> DEFINE a == IF b < 8 * (size - 1) THEN b ELSE b + unused
  <2>1. b \in Int /\ b >= 0 /\ b < 8 * size - unused
    BY <1>4 DEF Bits
  <2>2. a \in Bits(8 * size)
    BY <2>1 DEF Bits
  <2>3. \A j \in Bits(unused) : a # 8 * (size - 1) + j
    BY <2>1 DEF Bits
  <2>4. a \in DOMAIN layout
    BY <1>1, <2>2, <2>3
  <2>5. layout[a] = b
    BY <1>2, <2>1, <2>4
  <2> QED BY <1>4, <2>4, <2>5 DEF Found
<1> QED BY <1>3, <1>4

\* The assertion of a writer keeps its argument within the bits of its string.
LEMMA FieldShape ==
  ASSUME NEW f \in Fields
  PROVE  /\ f.size \in Nat \ {0}
         /\ f.unused \in 0..7
         /\ Bits(f.limit) \subseteq Bits(8 * f.size - f.unused)
  BY DEF Fields, AmfFields, CellFields, EnbFields, NgEnbFields, Field, Bits

\* No two fields share a name, nor two macros that write or two that read.
LEMMA NamesDiffer ==
  /\ \A f, g \in Fields : f.name = g.name => f = g
  /\ \A m, n \in Macros : m.name = n.name => m = n
  /\ \A r, q \in Readers : r.name = q.name => r = q
<1>1. \A f, g \in Fields : f.name = g.name => f = g
  BY DEF Fields, AmfFields, CellFields, EnbFields, NgEnbFields, Field
<1>2. \A m, n \in Macros : m.name = n.name => m = n
  BY DEF Macros, OctetIntegers, Algorithms, MaxBitRates, RadioIdentities, TrackingAreas,
    Addresses, Imeisvs, GnbMacros, EnbMacros, HostIntegers, Macro
<1>3. \A r, q \in Readers : r.name = q.name => r = q
  BY DEF Readers, OctetReaders, AddressReaders, GnbReaders, EnbReaders, Reader
<1> QED BY <1>1, <1>2, <1>3

\* Nor do functions of different kinds, but for the macros that are inverse to
\* each other.
LEMMA NamesApart ==
  LET Others == {"none", "NrCellId", "plmn", "plmn_t", "id", "FillUeID"}
  IN  /\ \A f \in Fields : f.name \notin Others \cup {"host"}
      /\ \A m \in Macros : m.name \notin Others
      /\ \A r \in Readers : r.name \notin Others \cup {"host"}
      /\ \A f \in Fields, m \in Macros : f.name # m.name
      /\ \A f \in Fields, r \in Readers : f.name # r.name
<1>1. \A f \in Fields :
        f.name \in {"amf_region", "amf_set", "amf_ptr", "nr_cell", "macro_gnb", "eutra_cell",
                    "macro_enb", "home_enb", "short_macro_enb", "long_macro_enb",
                    "macro_ng_enb", "short_macro_ng_enb", "long_macro_ng_enb"}
  BY DEF Fields, AmfFields, CellFields, EnbFields, NgEnbFields, Field
<1>2. \A m \in Macros :
        m.name \in {"int8", "int16", "int24", "int32", "int16_bits", "int24_bits",
                    "int32_bits", "algorithms", "bitrate", "c_rnti", "tac", "ipv4",
                    "imeisv", "MACRO_GNB_ID", "MACRO_ENB_ID", "host"}
  BY DEF Macros, OctetIntegers, Algorithms, MaxBitRates, RadioIdentities, TrackingAreas,
         Addresses, Imeisvs, GnbMacros, EnbMacros, HostIntegers, Macro
<1>3. \A r \in Readers :
        r.name \in {"int8", "int16", "int24", "int32", "ipv4", "MACRO_GNB_ID", "MACRO_ENB_ID"}
  BY DEF Readers, OctetReaders, AddressReaders, GnbReaders, EnbReaders, Reader
<1> QED BY <1>1, <1>2, <1>3

-----------------------------------------------------------------------------
(* The memory *)

\* The octets of a network after it went through a plmn_t "by" times, even or odd.
OctetsBy(by, p) ==
  LET o == PlmnOctets(p)
  IN  IF by = "plmn" THEN o ELSE <<o[3], o[2], o[1], o[4], o[5], o[6]>>

PlmnString(o) == [kind |-> "plmn", size |-> 3, unused |-> 0, octets |-> o]
PlmnTString(o) == [kind |-> "plmn_t", size |-> 0, unused |-> 0, digits |-> PlmnT(o)]
UeIdString(id, draw, p) ==
  [kind |-> "ueid", size |-> 0, unused |-> 0, ue |-> UeId(id, draw, p)]

\* The string in memory is the one its writer made of the value, or what its
\* trips through a plmn_t made of that.
FieldsString ==
  \E f \in Fields, v \in Values :
    Accepts(f, v) /\ written = Call(f.name, v) /\ string = FieldString(f, v)
MacrosString ==
  \E m \in Macros, v \in Values : written = Call(m.name, v) /\ string = MacroString(m, v)
CellsString ==
  \E c \in Cells, octet \in Beyond :
    written = Call("NrCellId", c) /\ string = CellString(c, octet)
PlmnsString ==
  \E p \in Plmns, by \in {"plmn", "plmn_t"} :
    /\ written = Call(by, p)
    /\ string \in {PlmnString(OctetsBy(by, p)), PlmnTString(OctetsBy(by, p))}
IdsString == \E s \in Ids : written = Call("id", s.ones) /\ string = s
UesString ==
  \E id \in Ids, draw \in Values, p \in Plmns :
    /\ written = Call("FillUeID", [id |-> id, draw |-> draw])
    /\ string = UeIdString(id, draw, p)

Made ==
  \/ written = Nothing /\ string = NoString
  \/ FieldsString
  \/ MacrosString
  \/ CellsString
  \/ PlmnsString
  \/ IdsString
  \/ UesString

\* What was read last was read by a reader that accepted this string.
ReadFromString ==
  \/ read = Nothing
  \/ \E f \in Fields : Readable(f, string) /\ read = Call(f.name, FieldValue(f, string))
  \/ \E r \in Readers, octet \in Beyond :
       MacroAccepts(r, string) /\ read = Call(r.name, MacroValue(r, string, octet))
  \/ string.kind = "octets" /\ read = Call("host", HostValue(string))
  \/ string.kind = "plmn" /\ read = Call("plmn", OctetsPlmn(string.octets))
  \/ string.kind = "plmn_t" /\ read = Call("plmn_t", PlmnTPlmn(string.digits))

Memory == Made /\ ReadFromString

\* A call is recorded with its caller's name and value.
LEMMA Calls ==
  ASSUME NEW by, NEW value
  PROVE  Call(by, value).by = by /\ Call(by, value).value = value
  BY DEF Call

\* The kind of a string tells what kind of function made it.
LEMMA Kinds ==
  /\ \A f \in Fields : \A v : FieldString(f, v).kind = "bits"
  /\ \A m \in Macros : \A v : MacroString(m, v).kind \in {"bits", "octets", "primitive"}
  /\ \A c, octet : CellString(c, octet).kind = "bits"
  /\ \A s \in Ids : s.kind = "octets"
  /\ NoString.kind = "none"
<1>1. \A m \in Macros : m.kind \in {"bits", "octets", "primitive"}
  BY DEF Macros, OctetIntegers, Algorithms, MaxBitRates, RadioIdentities, TrackingAreas,
    Addresses, Imeisvs, GnbMacros, EnbMacros, HostIntegers, Macro
<1>2. \A m \in Macros : \A v : MacroString(m, v).kind = m.kind
  BY DEF MacroString
<1>3. \A f \in Fields : \A v : FieldString(f, v).kind = "bits"
  BY DEF FieldString, Written
<1>4. \A c, octet : CellString(c, octet).kind = "bits"
  BY DEF CellString
<1>5. NoString.kind = "none"
  BY DEF NoString
<1> QED BY <1>1, <1>2, <1>3, <1>4, <1>5, IdsAreOctets

\* A network in memory, in either form, is one that was written.
LEMMA PlmnMade ==
  ASSUME Made, string.kind \in {"plmn", "plmn_t"}
  PROVE  \E p \in Plmns, by \in {"plmn", "plmn_t"} :
           /\ written = Call(by, p)
           /\ string.kind = "plmn" => string = PlmnString(OctetsBy(by, p))
           /\ string.kind = "plmn_t" => string = PlmnTString(OctetsBy(by, p))
<1>1. \A o : PlmnString(o).kind = "plmn" /\ PlmnTString(o).kind = "plmn_t"
  BY DEF PlmnString, PlmnTString
<1>2. \A id, draw, p : UeIdString(id, draw, p).kind = "ueid"
  BY DEF UeIdString
<1>3. ~FieldsString /\ ~MacrosString /\ ~CellsString
  BY Kinds DEF FieldsString, MacrosString, CellsString
<1>4. ~IdsString /\ ~UesString /\ string # NoString
  <2>1. ~IdsString /\ string # NoString
    BY Kinds DEF IdsString
  <2>2. ~UesString
    BY <1>2 DEF UesString
  <2> QED BY <2>1, <2>2
<1>5. PlmnsString
  BY <1>3, <1>4 DEF Made
<1> QED BY <1>1, <1>5 DEF PlmnsString

\* Through the plmn_t and back the first and last digit of the country are
\* exchanged.
LEMMA PlmnExchanged ==
  ASSUME NEW p \in Plmns, NEW by \in {"plmn", "plmn_t"}
  PROVE  PlmnTOctets(PlmnT(OctetsBy(by, p)), p.len)
           = OctetsBy(IF by = "plmn" THEN "plmn_t" ELSE "plmn", p)
<1>1. p.len \in {2, 3} /\ p.mnc \in Nat /\ p.mnc < 1000
  BY PlmnsAreNumbers
<1>2. Hundreds(p.mnc) # Absent
  BY <1>1 DEF Hundreds, Absent
<1> DEFINE o == PlmnOctets(p)
           b == OctetsBy(by, p)
           t == PlmnT(b)
<1>3. o[4] = IF p.len = 2 THEN Absent ELSE Hundreds(p.mnc)
  BY DEF PlmnOctets
<1>4. /\ b[1] = IF by = "plmn" THEN o[1] ELSE o[3]
      /\ b[2] = o[2] /\ b[3] = IF by = "plmn" THEN o[3] ELSE o[1]
      /\ b[4] = o[4] /\ b[5] = o[5] /\ b[6] = o[6]
      /\ o = <<o[1], o[2], o[3], o[4], o[5], o[6]>>
  BY DEF OctetsBy, PlmnOctets
<1> HIDE DEF o
<1>5. OctetsBy(IF by = "plmn" THEN "plmn_t" ELSE "plmn", p)
        = <<b[3], b[2], b[1], o[4], o[5], o[6]>>
  BY <1>4 DEF OctetsBy, o
<1> HIDE DEF b
<1>6. PlmnTOctets(t, p.len) = <<b[3], b[2], b[1], o[4], b[5], b[6]>>
  BY <1>1, <1>2, <1>3, <1>4 DEF PlmnTOctets, PlmnT
<1> QED BY <1>4, <1>5, <1>6 DEF b

\* Before the first call nothing is written and nothing read.
LEMMA MemoryInit == Init => Memory
  BY DEF Init, Memory, Made, ReadFromString

\* Writers make the string, readers take it as it is, and the memory is empty
\* between two strings.
LEMMA MemoryStep == Memory /\ [Next]_vars => Memory'
<1> SUFFICES ASSUME Memory, [Next]_vars PROVE Memory'
  OBVIOUS
<1>1. ASSUME WriteSome PROVE Memory'
  <2>1. read' = Nothing
    BY <1>1 DEF WriteSome, WriteField, WriteMacro, WriteCell, WritePlmn, WriteId, FillUeID, Write
  <2>2. ASSUME NEW f \in Fields, NEW v \in Values, WriteField(f, v) PROVE Made'
    BY <2>2 DEF WriteField, Write, Made, FieldsString
  <2>3. ASSUME NEW m \in Macros, NEW v \in Values, WriteMacro(m, v) PROVE Made'
    BY <2>3 DEF WriteMacro, Write, Made, MacrosString
  <2>4. ASSUME NEW c \in Cells, NEW octet \in Beyond, WriteCell(c, octet) PROVE Made'
    BY <2>4 DEF WriteCell, Write, Made, CellsString
  <2>5. ASSUME NEW p \in Plmns, WritePlmn(p) PROVE Made'
    <3>1. written' = Call("plmn", p) /\ string' = PlmnString(OctetsBy("plmn", p))
      BY <2>5 DEF WritePlmn, Write, PlmnString, OctetsBy
    <3> QED BY <3>1 DEF Made, PlmnsString
  <2>6. ASSUME NEW s \in Ids, WriteId(s) PROVE Made'
    BY <2>6 DEF WriteId, Write, Made, IdsString
  <2>7. ASSUME NEW id \in Ids, NEW draw \in Values, NEW p \in Plmns, FillUeID(id, draw, p)
        PROVE  Made'
    BY <2>7 DEF FillUeID, Write, Made, UesString, UeIdString
  <2>8. Made'
    BY <1>1, <2>2, <2>3, <2>4, <2>5, <2>6, <2>7 DEF WriteSome
  <2> QED BY <2>1, <2>8 DEF Memory, ReadFromString
<1>2. ASSUME ReadSome PROVE Memory'
  <2>1. string' = string /\ written' = written
    BY <1>2 DEF ReadSome, ReadField, ReadMacro, ReadHost, ReadPlmn, ReadPlmnT, Read
  <2>2. Made'
    BY <2>1 DEF Memory, Made, FieldsString, MacrosString, CellsString, PlmnsString, IdsString,
      UesString
  <2>3. ReadFromString'
    BY <1>2, <2>1 DEF ReadSome, ReadField, ReadMacro, ReadHost, ReadPlmn, ReadPlmnT, Read,
      ReadFromString
  <2> QED BY <2>2, <2>3 DEF Memory
<1>3. CASE ToPlmnT
  <2>1. PICK p \in Plmns, by \in {"plmn", "plmn_t"} :
          written = Call(by, p) /\ string = PlmnString(OctetsBy(by, p))
    BY <1>3, PlmnMade DEF ToPlmnT, Memory
  <2>2. /\ string' = PlmnTString(OctetsBy(by, p))
        /\ written' = Call(by, p)
        /\ read' = Nothing
    BY <1>3, <2>1 DEF ToPlmnT, PlmnString, PlmnTString
  <2> QED BY <2>2 DEF Memory, Made, PlmnsString, ReadFromString
<1>4. CASE FromPlmnT
  <2>1. PICK p \in Plmns, by \in {"plmn", "plmn_t"} :
          written = Call(by, p) /\ string = PlmnTString(OctetsBy(by, p))
    BY <1>4, PlmnMade DEF FromPlmnT, Memory
  <2> DEFINE next == IF by = "plmn" THEN "plmn_t" ELSE "plmn"
  <2>2. written' = Call(next, p) /\ read' = Nothing
    BY <1>4, <2>1 DEF FromPlmnT, Call
  <2>3. string.digits = PlmnT(OctetsBy(by, p)) /\ written.value.len = p.len
    BY <2>1, Calls DEF PlmnTString
  <2>4. string' = PlmnString(OctetsBy(next, p))
    BY <1>4, <2>3, PlmnExchanged DEF FromPlmnT, PlmnString
  <2> QED BY <2>2, <2>4 DEF Memory, Made, PlmnsString, ReadFromString
<1>5. CASE Release
  BY <1>5 DEF Release, Memory, Made, ReadFromString
<1>6. CASE UNCHANGED vars
  BY <1>6 DEF vars, Memory, Made, FieldsString, MacrosString, CellsString, PlmnsString,
    IdsString, UesString, ReadFromString
<1> QED BY <1>1, <1>2, <1>3, <1>4, <1>5, <1>6 DEF Next

-----------------------------------------------------------------------------
(* Who wrote and who read it *)

\* The name of the writer tells what the string is.
LEMMA WritersOf ==
  /\ FieldsString => \E f \in Fields : written.by = f.name
  /\ MacrosString => \E m \in Macros : written.by = m.name
  /\ CellsString => written.by = "NrCellId"
  /\ PlmnsString => written.by \in {"plmn", "plmn_t"}
  /\ IdsString => written.by = "id"
  /\ UesString => written.by = "FillUeID"
  /\ Nothing.by = "none"
<1>1. Nothing.by = "none"
  BY DEF Nothing
<1>2. FieldsString => \E f \in Fields : written.by = f.name
  BY Calls DEF FieldsString
<1>3. MacrosString => \E m \in Macros : written.by = m.name
  BY Calls DEF MacrosString
<1>4. CellsString => written.by = "NrCellId"
  BY Calls DEF CellsString
<1>5. PlmnsString => written.by \in {"plmn", "plmn_t"}
  BY Calls DEF PlmnsString
<1>6. IdsString => written.by = "id"
  BY Calls DEF IdsString
<1>7. UesString => written.by = "FillUeID"
  BY Calls DEF UesString
<1> QED BY <1>1, <1>2, <1>3, <1>4, <1>5, <1>6, <1>7

\* A string that bears the name of a field is that field's, of an integer its
\* writer accepts.
LEMMA FieldMade ==
  ASSUME Made, NEW f \in Fields, written.by = f.name
  PROVE  Accepts(f, written.value) /\ string = FieldString(f, written.value)
<1>1. FieldsString
  BY WritersOf, NamesApart DEF Made
<1> QED BY <1>1, Calls, NamesDiffer DEF FieldsString

\* A string that bears the name of a macro was made by that macro.
LEMMA MacroMade ==
  ASSUME Made, NEW m \in Macros, written.by = m.name
  PROVE  string = MacroString(m, written.value) /\ written.value \in Values
<1>1. MacrosString
  BY WritersOf, NamesApart DEF Made
<1> QED BY <1>1, Calls, NamesDiffer DEF MacrosString

\* The reader of a field accepted the string and returned what it holds.
LEMMA FieldRead ==
  ASSUME ReadFromString, NEW f \in Fields, read.by = f.name
  PROVE  Readable(f, string) /\ read.value = FieldValue(f, string)
  BY Calls, NamesDiffer, NamesApart DEF ReadFromString, Nothing

\* A macro returned what the string holds, and the octets behind it.
LEMMA MacroRead ==
  ASSUME ReadFromString, NEW r \in Readers, read.by = r.name
  PROVE  \E octet \in Beyond : read.value = MacroValue(r, string, octet)
  BY Calls, NamesDiffer, NamesApart DEF ReadFromString, Nothing

\* A network is read from octets or from a plmn_t, whichever is in memory.
LEMMA PlmnRead ==
  ASSUME ReadFromString
  PROVE  /\ read.by = "plmn" => string.kind = "plmn" /\ read.value = OctetsPlmn(string.octets)
         /\ read.by = "plmn_t" => string.kind = "plmn_t" /\ read.value = PlmnTPlmn(string.digits)
  BY Calls, NamesApart DEF ReadFromString, Nothing

-----------------------------------------------------------------------------
(* Fields *)

\* What the writer of a field accepts, its reader finds again.
LEMMA FieldValueRoundTrip ==
  ASSUME NEW f \in Fields, NEW v, Accepts(f, v)
  PROVE  FieldValue(f, FieldString(f, v)) = IF f.name = "nr_cell" THEN SignExtended(v) ELSE v
<1>1. Found(LittleEndian(f.size, f.unused), FieldString(f, v).ones) = v
  BY FieldShape, LayoutRoundTrip DEF Accepts, FieldString, Written
<1> QED BY <1>1 DEF FieldValue

\* Whatever integers are written, any field's reader that accepts the string
\* returns the integer written, but for the sign bit of cell identities: strings
\* of the same shape have the same layout, and the cell identity is the one
\* field of its shape (conversions.c:5-399).
THEOREM FieldsRoundTrip == Spec => []FieldRoundTrip
<1>1. ASSUME Memory, NEW f \in Fields, written.by = f.name, NEW g \in Fields, read.by = g.name
      PROVE  \/ read.value = written.value
             \/ /\ g.name = "nr_cell" /\ 31 \in written.value
                /\ read.value = written.value \cup 32..63
  <2>1. /\ Accepts(f, written.value)
        /\ string = FieldString(f, written.value)
        /\ Readable(g, string)
        /\ read.value = FieldValue(g, string)
    BY <1>1, FieldMade, FieldRead DEF Memory
  <2>2. g.size = f.size /\ g.unused = f.unused
    BY <2>1 DEF Readable, FieldString, Written
  <2>3. f.name = "nr_cell" <=> g.name = "nr_cell"
    BY <1>1, <2>2 DEF Fields, AmfFields, CellFields, EnbFields, NgEnbFields, Field
  <2>4. FieldValue(g, string) = FieldValue(f, string)
    BY <1>1, <2>2, <2>3 DEF FieldValue
  <2>5. read.value = IF g.name = "nr_cell" THEN SignExtended(written.value) ELSE written.value
    BY <1>1, <2>1, <2>3, <2>4, FieldValueRoundTrip
  <2> QED BY <2>5 DEF SignExtended
<1>2. Memory => FieldRoundTrip
  BY <1>1 DEF FieldRoundTrip, FieldNames
<1> QED BY <1>2, MemoryInit, MemoryStep, PTL DEF Spec

-----------------------------------------------------------------------------
(* Types *)

\* The ones of a field are in its octets, none of them at an unused bit.
LEMMA FieldBits ==
  ASSUME NEW f \in Fields, NEW v
  PROVE  LET s == FieldString(f, v)
         IN  /\ s.size = f.size /\ s.unused = f.unused
             /\ s.ones \subseteq Bits(8 * f.size)
             /\ \A a \in s.ones, j \in Bits(f.unused) : a # 8 * (f.size - 1) + j
<1>1. DOMAIN LittleEndian(f.size, f.unused)
        = Bits(8 * f.size) \ {8 * (f.size - 1) + j : j \in Bits(f.unused)}
  BY DEF LittleEndian
<1>2. FieldString(f, v).ones \subseteq DOMAIN LittleEndian(f.size, f.unused)
  BY DEF FieldString, Written
<1> QED BY <1>1, <1>2 DEF FieldString, Written

\* The layout of a macro lies in the octets of its string.
LEMMA MacroShape ==
  ASSUME NEW m \in Macros
  PROVE  /\ m.size \in Nat /\ m.unused \in 0..7
         /\ DOMAIN m.layout \subseteq Bits(8 * m.size)
<1>1. \A size \in Nat : DOMAIN BigEndian(size) = Bits(8 * size)
  BY DEF BigEndian
<1>2. \A size \in Nat : DOMAIN BigEndianShortLast(size) = Bits(8 * size)
  BY DEF BigEndianShortLast
<1>3. \A size \in Nat : DOMAIN BigEndianNibbles(size) \subseteq Bits(8 * size)
  BY DEF BigEndianNibbles
<1>4. DOMAIN LittleEndian(8, 0) \subseteq Bits(8 * 8)
  BY DEF LittleEndian
<1>5. CASE m \in OctetIntegers \cup Algorithms \cup MaxBitRates \cup RadioIdentities
  BY <1>1, <1>5 DEF OctetIntegers, Algorithms, MaxBitRates, RadioIdentities, Macro
<1>6. CASE m \in TrackingAreas
  <2>1. m.size = 3 /\ m.unused = 0 /\ DOMAIN m.layout = 8..23
    BY <1>6 DEF TrackingAreas, Macro
  <2> QED BY <2>1 DEF Bits
<1>7. CASE m \in Addresses \cup Imeisvs
  BY <1>2, <1>7 DEF Addresses, Imeisvs, Macro
<1>8. CASE m \in GnbMacros \cup EnbMacros
  BY <1>3, <1>8 DEF GnbMacros, EnbMacros, Macro
<1>9. CASE m \in HostIntegers
  BY <1>4, <1>9 DEF HostIntegers, Macro
<1> QED BY <1>5, <1>6, <1>7, <1>8, <1>9 DEF Macros

\* An empty memory has been read by nobody.
LEMMA NothingToRead == ASSUME ReadFromString, string = NoString PROVE read = Nothing
<1>1. \A r \in Readers : r.kinds \subseteq {"octets", "bits"}
  BY DEF Readers, OctetReaders, AddressReaders, GnbReaders, EnbReaders, Reader
<1>2. string.kind = "none"
  BY DEF NoString
<1> QED BY <1>1, <1>2 DEF ReadFromString, Readable, MacroAccepts

\* Bit and octet strings have their ones in their octets, whoever made them,
\* and only what was written is read (conversions.c:5-399, conversions.h:133-535).
THEOREM TypeCorrect == Spec => []TypeOK
<1> DEFINE Shape ==
      /\ string.kind \in {"none", "bits", "octets", "primitive", "plmn", "plmn_t", "ueid"}
      /\ string.kind \in {"bits", "octets", "primitive"} =>
           string.ones \subseteq Bits(8 * string.size) /\ string.unused \in 0..7
<1>1. ASSUME Memory PROVE Shape
  <2>1. CASE FieldsString
    BY <2>1, Kinds, FieldBits, FieldShape DEF FieldsString
  <2>2. CASE MacrosString
    <3>1. PICK m \in Macros, v \in Values : string = MacroString(m, v)
      BY <2>2 DEF MacrosString
    <3>2. /\ string.size = m.size /\ string.unused = m.unused
          /\ string.ones \subseteq DOMAIN m.layout
      BY <3>1 DEF MacroString
    <3> QED BY <3>1, <3>2, Kinds, MacroShape
  <2>3. CASE CellsString
    <3>1. PICK c, octet : string = CellString(c, octet)
      BY <2>3 DEF CellsString
    <3> DEFINE text == Characters((c * 16) % 65536, octet)
    <3>2. string.kind = "bits" /\ string.size = 5 /\ string.unused = 4 /\ string.ones = BitsOf(text)
      BY <3>1 DEF CellString
    <3>3. Len(text) = 5
      BY DEF Characters
    <3> HIDE DEF text
    <3>4. BitsOf(text) \subseteq Bits(40)
      BY <3>3 DEF BitsOf, Bits
    <3> QED BY <3>2, <3>4
  <2>4. CASE PlmnsString
    BY <2>4 DEF PlmnsString, PlmnString, PlmnTString
  <2>5. CASE IdsString
    BY <2>5, IdsAreOctets DEF IdsString
  <2>6. CASE UesString
    BY <2>6 DEF UesString, UeIdString
  <2>7. CASE string = NoString
    BY <2>7 DEF NoString
  <2> QED BY <1>1, <2>1, <2>2, <2>3, <2>4, <2>5, <2>6, <2>7 DEF Memory, Made
<1>2. ASSUME Memory, written = Nothing PROVE read = Nothing
  <2>1. string = NoString
    BY <1>2, WritersOf, NamesApart DEF Memory, Made
  <2> QED BY <1>2, <2>1, NothingToRead DEF Memory
<1>3. Memory => TypeOK
  BY <1>1, <1>2 DEF TypeOK
<1> QED BY <1>3, MemoryInit, MemoryStep, PTL DEF Spec

-----------------------------------------------------------------------------
(* Macros *)

\* Every bit of the integer has a place in the big-endian octets.
LEMMA BigEndianBits ==
  ASSUME NEW size \in Nat
  PROVE  /\ DOMAIN BigEndian(size) = Bits(8 * size)
         /\ \A a \in Bits(8 * size) : BigEndian(size)[a] \in Bits(8 * size)
         /\ \A b \in Bits(8 * size) : \E a \in Bits(8 * size) : BigEndian(size)[a] = b
<1>1. BigEndian(size) = [a \in Bits(8 * size) |-> 8 * (size - 1 - (a \div 8)) + (a % 8)]
  BY DEF BigEndian
<1>2. \A a \in Bits(8 * size) : 8 * (size - 1 - (a \div 8)) + (a % 8) \in Bits(8 * size)
  BY DEF Bits
<1>3. ASSUME NEW b \in Bits(8 * size)
      PROVE  \E a \in Bits(8 * size) : 8 * (size - 1 - (a \div 8)) + (a % 8) = b
  <2> DEFINE a == 8 * (size - 1 - (b \div 8)) + (b % 8)
  <2>1. a \in Bits(8 * size)
    BY <1>2
  <2>2. 8 * (size - 1 - (a \div 8)) + (a % 8) = b
    BY DEF Bits
  <2> QED BY <2>1, <2>2
<1> QED BY <1>1, <1>2, <1>3

\* The lowest nibble is left out, and every bit moves up by one.
LEMMA NibblesBits ==
  ASSUME NEW size \in Nat \ {0}
  PROVE  {BigEndianNibbles(size)[a] : a \in DOMAIN BigEndianNibbles(size)} = Bits(8 * size - 4)
<1> DEFINE layout == BigEndianNibbles(size)
<1>1. /\ DOMAIN layout = {b \in Bits(8 * size) : BigEndian(size)[b] >= 4}
      /\ \A a \in DOMAIN layout : layout[a] = BigEndian(size)[a] - 4
  BY DEF BigEndianNibbles
<1> HIDE DEF layout
<1>2. ASSUME NEW a \in DOMAIN layout PROVE layout[a] \in Bits(8 * size - 4)
  <2>1. BigEndian(size)[a] \in Bits(8 * size)
    BY <1>1, BigEndianBits
  <2> QED BY <1>1, <2>1 DEF Bits
<1>3. ASSUME NEW b \in Bits(8 * size - 4) PROVE \E a \in DOMAIN layout : layout[a] = b
  <2>1. b \in Int /\ b + 4 >= 4 /\ b + 4 \in Bits(8 * size)
    BY DEF Bits
  <2>2. PICK a \in Bits(8 * size) : BigEndian(size)[a] = b + 4
    BY <2>1, BigEndianBits
  <2> QED BY <1>1, <2>1, <2>2
<1> QED BY <1>2, <1>3 DEF layout

\* A reader finds the bits the writer placed where it looks for them, if it
\* looks in the octets of the string only.
LEMMA LayoutRead ==
  ASSUME Memory, NEW m \in Macros, NEW r \in Readers, written.by = m.name, read.by = r.name,
         DOMAIN m.layout \subseteq DOMAIN r.layout,
         DOMAIN r.layout \subseteq Bits(8 * m.size),
         \A a \in DOMAIN m.layout : r.layout[a] = m.layout[a]
  PROVE  read.value = written.value \cap {m.layout[a] : a \in DOMAIN m.layout}
<1>1. string = MacroString(m, written.value)
  BY MacroMade DEF Memory
<1>2. PICK octet \in Beyond : read.value = MacroValue(r, string, octet)
  BY MacroRead DEF Memory
<1>3. string.size = m.size /\ string.ones = {a \in DOMAIN m.layout : m.layout[a] \in written.value}
  BY <1>1 DEF MacroString
<1>4. \A a \in DOMAIN r.layout : a < 8 * m.size
  BY MacroShape DEF Bits
<1>5. {a \in DOMAIN r.layout : IF a < 8 * string.size THEN a \in string.ones
                               ELSE (octet \div 2 ^ (a % 8)) % 2 = 1} = string.ones
  BY <1>3, <1>4
<1>6. read.value = Found(r.layout, string.ones)
  BY <1>2, <1>5 DEF MacroValue
<1>7. Found(r.layout, string.ones) = {m.layout[a] : a \in string.ones}
  BY <1>3 DEF Found
<1> QED BY <1>3, <1>6, <1>7

\* An address is read with its lowest octet four bits off.
LEMMA AddressValue ==
  ASSUME Memory, written.by = "ipv4", read.by = "ipv4"
  PROVE  \A b : b \in read.value <=>
                  \/ b \in 8..31 /\ b \in written.value
                  \/ b \in 0..7 /\ b + 4 \in written.value
<1> DEFINE m == Macro("ipv4", "bits", 4, 0, BigEndianShortLast(4))
           r == Reader("ipv4", {"bits"}, {4}, {0}, BigEndian(4))
<1>1. m \in Macros /\ m.name = "ipv4" /\ r \in Readers /\ r.name = "ipv4"
  BY DEF Macros, Addresses, Macro, Readers, AddressReaders, Reader
<1>2. string = MacroString(m, written.value)
  BY <1>1, MacroMade DEF Memory
<1>3. PICK octet \in Beyond : read.value = MacroValue(r, string, octet)
  BY <1>1, MacroRead DEF Memory
<1>4. DOMAIN BigEndian(4) = 0..31 /\ DOMAIN BigEndianShortLast(4) = 0..31
  BY DEF BigEndian, BigEndianShortLast, Bits
<1>5. string.size = 4 /\ string.ones = {a \in 0..31 : BigEndianShortLast(4)[a] \in written.value}
  BY <1>2, <1>4 DEF MacroString, Macro
<1>6. {a \in DOMAIN r.layout : IF a < 8 * string.size THEN a \in string.ones
                               ELSE (octet \div 2 ^ (a % 8)) % 2 = 1} = string.ones
  BY <1>4, <1>5 DEF Reader
<1>7. read.value = Found(BigEndian(4), string.ones)
  BY <1>3, <1>6 DEF MacroValue, Reader
<1>8. read.value =
        {BigEndian(4)[a] : a \in {x \in 0..31 : BigEndianShortLast(4)[x] \in written.value}}
  BY <1>4, <1>5, <1>7 DEF Found
<1>9. \A a \in 0..23 : BigEndian(4)[a] \in 8..31 /\ BigEndianShortLast(4)[a] = BigEndian(4)[a]
  BY DEF BigEndian, BigEndianShortLast, Bits
<1>10. \A a \in 24..31 : BigEndian(4)[a] = a - 24 /\ BigEndianShortLast(4)[a] = (a - 24) + 4
  BY DEF BigEndian, BigEndianShortLast, Bits
<1>11. ASSUME NEW b \in 8..31 PROVE \E a \in 0..23 : BigEndian(4)[a] = b
  <2>1. PICK a \in 0..31 : BigEndian(4)[a] = b
    <3>1. Bits(8 * 4) = 0..31 /\ b \in 0..31 /\ 4 \in Nat
      BY DEF Bits
    <3>2. \A c \in Bits(8 * 4) : \E a \in Bits(8 * 4) : BigEndian(4)[a] = c
      BY <3>1, BigEndianBits
    <3> QED BY <3>1, <3>2
  <2>2. ~(a \in 24..31)
    BY <1>10, <2>1
  <2> QED BY <2>1, <2>2
<1>12. ASSUME NEW b \in 0..7 PROVE \E a \in 24..31 : BigEndian(4)[a] = b
  <2>1. b + 24 \in 24..31 /\ (b + 24) - 24 = b
    OBVIOUS
  <2> QED BY <1>10, <2>1
<1>13. ASSUME NEW b \in read.value
       PROVE  \/ b \in 8..31 /\ b \in written.value
              \/ b \in 0..7 /\ b + 4 \in written.value
  <2>1. PICK a \in 0..31 : BigEndianShortLast(4)[a] \in written.value /\ b = BigEndian(4)[a]
    BY <1>8
  <2>2. a \in 0..23 \/ a \in 24..31
    OBVIOUS
  <2> QED BY <1>9, <1>10, <2>1, <2>2
<1>14. ASSUME NEW b \in 8..31, b \in written.value PROVE b \in read.value
  <2>1. PICK a \in 0..23 : BigEndian(4)[a] = b
    BY <1>11
  <2>2. a \in 0..31 /\ BigEndianShortLast(4)[a] = b
    BY <1>9, <2>1
  <2> QED BY <1>8, <1>14, <2>1, <2>2
<1>15. ASSUME NEW b \in 0..7, b + 4 \in written.value PROVE b \in read.value
  <2>1. PICK a \in 24..31 : BigEndian(4)[a] = b
    BY <1>12
  <2>2. a \in 0..31 /\ BigEndianShortLast(4)[a] = b + 4
    BY <1>10, <2>1
  <2> QED BY <1>8, <1>15, <2>1, <2>2
<1> QED BY <1>13, <1>14, <1>15

\* An integer of some octets has all the bits of its width in them.
LEMMA OctetsRead ==
  ASSUME Memory, NEW size \in 1..4, NEW name, NEW kind, NEW by, NEW kinds, NEW sizes,
         Macro(name, kind, size, 0, BigEndian(size)) \in Macros, written.by = name,
         Reader(by, kinds, sizes, AnyUnused, BigEndian(size)) \in Readers, read.by = by
  PROVE  read.value = written.value \cap Bits(8 * size)
<1> DEFINE m == Macro(name, kind, size, 0, BigEndian(size))
           r == Reader(by, kinds, sizes, AnyUnused, BigEndian(size))
<1>1. /\ m.name = name /\ m.size = size /\ m.layout = BigEndian(size)
      /\ r.name = by /\ r.layout = BigEndian(size)
  BY DEF Macro, Reader
<1>2. m \in Macros /\ r \in Readers
  OBVIOUS
<1> HIDE DEF m, r
<1>3. size \in Nat
  OBVIOUS
<1>4. /\ DOMAIN BigEndian(size) = Bits(8 * size)
      /\ {BigEndian(size)[a] : a \in DOMAIN BigEndian(size)} = Bits(8 * size)
  BY <1>3, BigEndianBits
<1>5. read.value = written.value \cap {BigEndian(size)[a] : a \in DOMAIN BigEndian(size)}
  BY <1>1, <1>2, <1>4, LayoutRead
<1> QED BY <1>4, <1>5

\* A tracking area is an integer of three octets, the first of them zero.
LEMMA AreaRead ==
  ASSUME Memory, written.by = "tac", read.by = "int24"
  PROVE  read.value = written.value \cap Bits(16)
<1> DEFINE layout == [a \in 8..23 |-> BigEndian(2)[a - 8]]
           m == Macro("tac", "octets", 3, 0, layout)
           r == Reader("int24", {"octets"}, {2, 3}, AnyUnused, BigEndian(3))
<1>1. m \in Macros /\ r \in Readers
  BY DEF Macros, TrackingAreas, Readers, OctetReaders
<1>2. /\ m.name = "tac" /\ m.size = 3 /\ m.layout = layout
      /\ r.name = "int24" /\ r.layout = BigEndian(3)
  BY DEF Macro, Reader
<1> HIDE DEF m, r
<1>3. DOMAIN layout = 8..23 /\ DOMAIN BigEndian(3) = Bits(24) /\ Bits(24) = 0..23
  BY DEF BigEndian, Bits
<1>4. \A a \in 8..23 : /\ BigEndian(3)[a] = 8 * (2 - (a \div 8)) + (a % 8)
                       /\ layout[a] = 8 * (1 - ((a - 8) \div 8)) + ((a - 8) % 8)
  BY DEF BigEndian, Bits
<1> HIDE DEF layout
<1>5. \A a \in 8..23 : BigEndian(3)[a] = layout[a] /\ layout[a] \in 0..15
  BY <1>4
<1>6. ASSUME NEW b \in 0..15 PROVE \E a \in 8..23 : layout[a] = b
  <2>1. CASE b < 8
    BY <1>4, <2>1, b + 16 \in 8..23, 8 * (1 - ((b + 16 - 8) \div 8)) + ((b + 16 - 8) % 8) = b
  <2>2. CASE b >= 8
    BY <1>4, <2>2, b \in 8..23, 8 * (1 - ((b - 8) \div 8)) + ((b - 8) % 8) = b
  <2> QED BY <2>1, <2>2
<1>7. {layout[a] : a \in DOMAIN layout} = Bits(16)
  <2>1. Bits(16) = 0..15
    BY DEF Bits
  <2> QED BY <1>3, <1>5, <1>6, <2>1
<1>8. read.value = written.value \cap {layout[a] : a \in DOMAIN layout}
  BY <1>1, <1>2, <1>3, <1>5, LayoutRead
<1> QED BY <1>7, <1>8

\* Whatever integers are written in octets, the macro of as many octets reads
\* them back up to their width (conversions.h:133-184, 250-276, 437-444).
THEOREM IntegersAreReadBySize == Spec => []IntegersReadBySize
<1>1. /\ Macro("int8", "octets", 1, 0, BigEndian(1)) \in Macros
      /\ Macro("int16", "octets", 2, 0, BigEndian(2)) \in Macros
      /\ Macro("int24", "octets", 3, 0, BigEndian(3)) \in Macros
      /\ Macro("int32", "octets", 4, 0, BigEndian(4)) \in Macros
      /\ Macro("int32_bits", "bits", 4, 0, BigEndian(4)) \in Macros
      /\ Macro("tac", "octets", 3, 0, [a \in 8..23 |-> BigEndian(2)[a - 8]]) \in Macros
  BY DEF Macros, OctetIntegers, TrackingAreas
<1>2. /\ Reader("int8", {"octets"}, {1}, AnyUnused, BigEndian(1)) \in Readers
      /\ Reader("int16", {"octets"}, {2, 3}, AnyUnused, BigEndian(2)) \in Readers
      /\ Reader("int24", {"octets"}, {2, 3}, AnyUnused, BigEndian(3)) \in Readers
      /\ Reader("int32", {"octets", "bits"}, AnySize, AnyUnused, BigEndian(4)) \in Readers
  BY DEF Readers, OctetReaders
<1>3. ASSUME Memory
      PROVE  /\ written.by = "int8" => string.size = 1
             /\ written.by = "int16" => string.size = 2
             /\ written.by \in {"int24", "tac"} => string.size = 3
             /\ written.by \in {"int32", "int32_bits"} => string.size = 4
  <2>1. \A m \in Macros : written.by = m.name => string.size = m.size
    BY <1>3, MacroMade DEF Memory, MacroString
  <2> QED BY <1>1, <2>1 DEF Macro
<1>4. /\ 1 \in 1..4 /\ 2 \in 1..4 /\ 3 \in 1..4 /\ 4 \in 1..4
      /\ 8 * 1 = 8 /\ 8 * 2 = 16 /\ 8 * 3 = 24 /\ 8 * 4 = 32
  OBVIOUS
<1>5. ASSUME Memory
      PROVE  /\ written.by = "int8" /\ read.by = "int8" => read.value = written.value \cap Bits(8)
             /\ written.by = "int16" /\ read.by = "int16" => read.value = written.value \cap Bits(16)
             /\ written.by = "int24" /\ read.by = "int24" => read.value = written.value \cap Bits(24)
             /\ written.by = "int32" /\ read.by = "int32" => read.value = written.value \cap Bits(32)
             /\ written.by = "int32_bits" /\ read.by = "int32"
                  => read.value = written.value \cap Bits(32)
  BY <1>1, <1>2, <1>4, <1>5, OctetsRead
<1>6. Memory => IntegersReadBySize
  <2> SUFFICES ASSUME Memory,
                      written.by \in {"int8", "int16", "tac", "int24", "int32", "int32_bits"},
                      read.by \in {"int8", "int16", "int24", "int32"},
                      string.size = [int8 |-> 1, int16 |-> 2, int24 |-> 3, int32 |-> 4][read.by]
               PROVE  read.value = written.value \cap
                        Bits([int8 |-> 8, int16 |-> 16, tac |-> 16, int24 |-> 24,
                              int32 |-> 32, int32_bits |-> 32][written.by])
    BY DEF IntegersReadBySize
  <2>1. CASE written.by = "int8"
    BY <1>3, <1>5, <2>1
  <2>2. CASE written.by = "int16"
    BY <1>3, <1>5, <2>2
  <2>3. CASE written.by = "tac"
    BY <1>3, AreaRead, <2>3
  <2>4. CASE written.by = "int24"
    BY <1>3, <1>5, <2>4
  <2>5. CASE written.by \in {"int32", "int32_bits"}
    BY <1>3, <1>5, <2>5
  <2> QED BY <2>1, <2>2, <2>3, <2>4, <2>5
<1> QED BY <1>6, MemoryInit, MemoryStep, PTL DEF Spec

\* What a macro of a node identity writes its inverse reads back up to the width
\* of the field, whatever integers are written; of an address the lowest octet
\* only if the bits 4 to 11 repeat it (conversions.h:403-425, 484-535).
THEOREM MacrosRoundTrip == Spec => []MacroRoundTrip
<1>1. ASSUME Memory, read.by = written.by,
             NEW size \in 1..4, NEW name, NEW unused, NEW units,
             Macro(name, "bits", size, unused, BigEndianNibbles(size)) \in Macros,
             Reader(name, {"bits"}, AnySize, units, BigEndianNibbles(size)) \in Readers,
             read.by = name
      PROVE  read.value = written.value \cap Bits(8 * size - 4)
  <2> DEFINE m == Macro(name, "bits", size, unused, BigEndianNibbles(size))
             r == Reader(name, {"bits"}, AnySize, units, BigEndianNibbles(size))
  <2>1. /\ m.name = name /\ m.size = size /\ r.name = name
        /\ m.layout = BigEndianNibbles(size) /\ r.layout = BigEndianNibbles(size)
    BY DEF Macro, Reader
  <2>2. m \in Macros /\ r \in Readers
    BY <1>1
  <2> HIDE DEF m, r
  <2>3. DOMAIN BigEndianNibbles(size) \subseteq Bits(8 * size)
    BY DEF BigEndianNibbles
  <2>4. read.value =
          written.value \cap {BigEndianNibbles(size)[a] : a \in DOMAIN BigEndianNibbles(size)}
    BY <1>1, <2>1, <2>2, <2>3, LayoutRead
  <2> QED BY <2>4, NibblesBits
<1>2. /\ Macro("MACRO_GNB_ID", "bits", 4, 0, BigEndianNibbles(4)) \in Macros
      /\ Macro("MACRO_ENB_ID", "bits", 3, 4, BigEndianNibbles(3)) \in Macros
  BY DEF Macros, GnbMacros, EnbMacros
<1>3. /\ Reader("MACRO_GNB_ID", {"bits"}, AnySize, {0}, BigEndianNibbles(4)) \in Readers
      /\ Reader("MACRO_ENB_ID", {"bits"}, AnySize, {4}, BigEndianNibbles(3)) \in Readers
  BY DEF Readers, GnbReaders, EnbReaders
<1>4. 8 * 4 - 4 = 28 /\ 8 * 3 - 4 = 20 /\ 3 \in 1..4 /\ 4 \in 1..4
  OBVIOUS
<1>5. ASSUME Memory, read.by = written.by
      PROVE  /\ read.by = "MACRO_GNB_ID" => read.value = written.value \cap Bits(28)
             /\ read.by = "MACRO_ENB_ID" => read.value = written.value \cap Bits(20)
  <2>1. CASE read.by = "MACRO_GNB_ID"
    BY <1>1, <1>2, <1>3, <1>4, <1>5, <2>1
  <2>2. CASE read.by = "MACRO_ENB_ID"
    BY <1>1, <1>2, <1>3, <1>4, <1>5, <2>2
  <2> QED BY <2>1, <2>2
<1>6. ASSUME Memory, read.by = written.by, read.by = "ipv4"
      PROVE  (read.value = written.value \cap Bits(32))
               <=> (\A b \in Bits(8) : b \in written.value <=> b + 4 \in written.value)
  <2>1. \A b : b \in read.value <=>
                 \/ b \in 8..31 /\ b \in written.value
                 \/ b \in 0..7 /\ b + 4 \in written.value
    BY <1>6, AddressValue
  <2>2. Bits(32) = 0..31 /\ Bits(8) = 0..7
    BY DEF Bits
  <2>3. \A b : b \in 0..31 <=> (b \in 0..7 \/ b \in 8..31)
    OBVIOUS
  <2>4. \A b \in 0..7 : b \notin 8..31
    OBVIOUS
  <2> QED BY <2>1, <2>2, <2>3, <2>4
<1>7. Memory => MacroRoundTrip
  <2> SUFFICES ASSUME Memory,
                      read.by \in {"MACRO_GNB_ID", "MACRO_ENB_ID", "ipv4"},
                      read.by = written.by
               PROVE  IF read.by = "ipv4"
                      THEN (read.value = written.value \cap Bits(32))
                             <=> (\A b \in Bits(8) : b \in written.value <=> b + 4 \in written.value)
                      ELSE read.value = written.value \cap
                             Bits([MACRO_GNB_ID |-> 28, MACRO_ENB_ID |-> 20, ipv4 |-> 32][read.by])
    BY DEF MacroRoundTrip
  <2>1. CASE read.by = "ipv4"
    BY <1>6, <2>1
  <2>2. CASE read.by # "ipv4"
    BY <1>5, <2>2
  <2> QED BY <2>1, <2>2
<1> QED BY <1>7, MemoryInit, MemoryStep, PTL DEF Spec

\* The unused bits of every field are zero, whatever integers are written
\* (conversions.c:5-399, conversions.h:484-528).
THEOREM UnusedBitsStayZero == Spec => []UnusedBitsAreZero
<1>1. ASSUME Memory, NEW f \in Fields, written.by = f.name
      PROVE  Carried(string) = string.ones
  <2>1. string = FieldString(f, written.value)
    BY <1>1, FieldMade DEF Memory
  <2>2. /\ string.size = f.size /\ string.unused = f.unused
        /\ string.ones \subseteq Bits(8 * f.size)
        /\ \A a \in string.ones, j \in Bits(f.unused) : a # 8 * (f.size - 1) + j
    BY <2>1, FieldBits
  <2>3. f.size \in Nat \ {0} /\ f.unused \in 0..7
    BY FieldShape
  <2>4. ASSUME NEW a \in string.ones
        PROVE  a >= 8 * f.size - 8 + f.unused \/ a < 8 * f.size - 8
    <3>1. a \in Int /\ (a < 8 * f.size - 8 \/ a - 8 * (f.size - 1) >= 0)
      BY <2>2, <2>3 DEF Bits
    <3>2. a = 8 * (f.size - 1) + (a - 8 * (f.size - 1))
      BY <2>3, <3>1
    <3>3. a - 8 * (f.size - 1) \notin Bits(f.unused)
      BY <2>2, <3>2
    <3> QED BY <2>3, <3>1, <3>3 DEF Bits
  <2> QED BY <2>2, <2>4 DEF Carried
<1>2. ASSUME Memory, written.by = "MACRO_ENB_ID" PROVE Carried(string) = string.ones
  <2> DEFINE m == Macro("MACRO_ENB_ID", "bits", 3, 4, BigEndianNibbles(3))
  <2>1. m \in Macros /\ m.name = "MACRO_ENB_ID"
    BY DEF Macros, EnbMacros, Macro
  <2>2. string = MacroString(m, written.value)
    BY <1>2, <2>1, MacroMade DEF Memory
  <2>3. string.size = 3 /\ string.unused = 4 /\ string.ones \subseteq DOMAIN BigEndianNibbles(3)
    BY <2>2 DEF MacroString, Macro
  <2>4. \A a \in DOMAIN BigEndianNibbles(3) : a \in 0..23 /\ BigEndian(3)[a] >= 4
    BY DEF BigEndianNibbles, Bits
  <2>5. \A a \in 0..23 : BigEndian(3)[a] = 8 * (3 - 1 - (a \div 8)) + (a % 8)
    BY DEF BigEndian, Bits
  <2>6. \A a \in DOMAIN BigEndianNibbles(3) : a < 16 \/ a >= 20
    BY <2>4, <2>5
  <2> QED BY <2>3, <2>6 DEF Carried
<1>3. Memory => UnusedBitsAreZero
  BY <1>1, <1>2 DEF UnusedBitsAreZero, FieldNames
<1> QED BY <1>3, MemoryInit, MemoryStep, PTL DEF Spec

-----------------------------------------------------------------------------
(* Cells *)

\* The powers of two within an octet, and those of ten within five digits.
LEMMA Powers ==
  /\ 2^0 = 1 /\ 2^1 = 2 /\ 2^2 = 4 /\ 2^3 = 8 /\ 2^4 = 16 /\ 2^5 = 32 /\ 2^6 = 64 /\ 2^7 = 128
  /\ 10^0 = 1 /\ 10^1 = 10 /\ 10^2 = 100 /\ 10^3 = 1000 /\ 10^4 = 10000
  OBVIOUS

Bit(x, k) == (x \div 2^k) % 2

\* An octet is the sum of its bits.
LEMMA OctetOfBits ==
  ASSUME NEW x \in Nat, x < 256
  PROVE  /\ \A k \in 0..7 : Bit(x, k) \in {0, 1}
         /\ x = Bit(x, 0) + 2 * Bit(x, 1) + 4 * Bit(x, 2) + 8 * Bit(x, 3)
                  + 16 * Bit(x, 4) + 32 * Bit(x, 5) + 64 * Bit(x, 6) + 128 * Bit(x, 7)
<1>1. /\ Bit(x, 0) = x % 2 /\ Bit(x, 1) = (x \div 2) % 2 /\ Bit(x, 2) = (x \div 4) % 2
      /\ Bit(x, 3) = (x \div 8) % 2 /\ Bit(x, 4) = (x \div 16) % 2 /\ Bit(x, 5) = (x \div 32) % 2
      /\ Bit(x, 6) = (x \div 64) % 2 /\ Bit(x, 7) = (x \div 128) % 2
  BY DEF Bit
<1>2. \A k \in 0..7 : k = 0 \/ k = 1 \/ k = 2 \/ k = 3 \/ k = 4 \/ k = 5 \/ k = 6 \/ k = 7
  OBVIOUS
<1>3. \A y \in Int : y % 2 \in {0, 1}
  OBVIOUS
<1>4. \A k \in 0..7 : Bit(x, k) \in {0, 1}
  <2> HIDE DEF Bit
  <2>1. /\ Bit(x, 0) \in {0, 1} /\ Bit(x, 1) \in {0, 1} /\ Bit(x, 2) \in {0, 1} /\ Bit(x, 3) \in {0, 1}
        /\ Bit(x, 4) \in {0, 1} /\ Bit(x, 5) \in {0, 1} /\ Bit(x, 6) \in {0, 1} /\ Bit(x, 7) \in {0, 1}
    BY <1>1
  <2> QED BY <1>2, <2>1
<1>5. x = Bit(x, 0) + 2 * Bit(x, 1) + 4 * Bit(x, 2) + 8 * Bit(x, 3)
                  + 16 * Bit(x, 4) + 32 * Bit(x, 5) + 64 * Bit(x, 6) + 128 * Bit(x, 7)
  <2> DEFINE a == x \div 2   b == x \div 4   c == x \div 8   d == x \div 16
             e == x \div 32  f == x \div 64  g == x \div 128
  <2>1. /\ a \in Nat /\ b \in Nat /\ c \in Nat /\ d \in Nat /\ e \in Nat /\ f \in Nat /\ g \in Nat
        /\ g < 2
    OBVIOUS
  <2>2. /\ x = 2 * a + (x % 2) /\ a = 2 * b + (a % 2) /\ b = 2 * c + (b % 2)
        /\ c = 2 * d + (c % 2) /\ d = 2 * e + (d % 2) /\ e = 2 * f + (e % 2)
        /\ f = 2 * g + (f % 2) /\ g = g % 2
    OBVIOUS
  <2>3. /\ Bit(x, 0) = x % 2 /\ Bit(x, 1) = a % 2 /\ Bit(x, 2) = b % 2 /\ Bit(x, 3) = c % 2
        /\ Bit(x, 4) = d % 2 /\ Bit(x, 5) = e % 2 /\ Bit(x, 6) = f % 2 /\ Bit(x, 7) = g % 2
    BY <1>1
  <2> HIDE DEF a, b, c, d, e, f, g, Bit
  <2>4. /\ x = 2 * a + Bit(x, 0) /\ a = 2 * b + Bit(x, 1) /\ b = 2 * c + Bit(x, 2)
        /\ c = 2 * d + Bit(x, 3) /\ d = 2 * e + Bit(x, 4) /\ e = 2 * f + Bit(x, 5)
        /\ f = 2 * g + Bit(x, 6) /\ g = Bit(x, 7)
    BY <2>2, <2>3
  <2>5. /\ Bit(x, 0) \in Nat /\ Bit(x, 1) \in Nat /\ Bit(x, 2) \in Nat /\ Bit(x, 3) \in Nat
        /\ Bit(x, 4) \in Nat /\ Bit(x, 5) \in Nat /\ Bit(x, 6) \in Nat /\ Bit(x, 7) \in Nat
    <3>1. \A k \in 0..7 : Bit(x, k) \in Nat
      BY <1>4
    <3> QED BY <3>1
  <2> QED BY <2>1, <2>4, <2>5
<1> QED BY <1>4, <1>5

\* Octets with the same bits are the same, and with the same upper bits they
\* are less than 16 apart.
LEMMA SameBits ==
  ASSUME NEW x \in Nat, x < 256, NEW y \in Nat, y < 256,
         \A k \in 4..7 : Bit(x, k) = 1 <=> Bit(y, k) = 1
  PROVE  /\ x < y + 16 /\ y < x + 16
         /\ (\A k \in 0..3 : Bit(x, k) = 1 <=> Bit(y, k) = 1) => x = y
<1>1. \A k \in 0..7 : Bit(x, k) \in {0, 1} /\ Bit(y, k) \in {0, 1}
  BY OctetOfBits
<1>2. \A k \in 4..7 : Bit(x, k) = Bit(y, k)
  BY <1>1
<1>3. (\A k \in 0..3 : Bit(x, k) = 1 <=> Bit(y, k) = 1) => \A k \in 0..3 : Bit(x, k) = Bit(y, k)
  BY <1>1
<1>4. x = Bit(x, 0) + 2 * Bit(x, 1) + 4 * Bit(x, 2) + 8 * Bit(x, 3)
                  + 16 * Bit(x, 4) + 32 * Bit(x, 5) + 64 * Bit(x, 6) + 128 * Bit(x, 7)
  BY OctetOfBits
<1>5. y = Bit(y, 0) + 2 * Bit(y, 1) + 4 * Bit(y, 2) + 8 * Bit(y, 3)
                  + 16 * Bit(y, 4) + 32 * Bit(y, 5) + 64 * Bit(y, 6) + 128 * Bit(y, 7)
  BY OctetOfBits
<1> HIDE DEF Bit
<1>6. Bit(x, 4) = Bit(y, 4) /\ Bit(x, 5) = Bit(y, 5) /\ Bit(x, 6) = Bit(y, 6) /\ Bit(x, 7) = Bit(y, 7)
  BY <1>2
<1>7. /\ Bit(x, 0) \in {0, 1} /\ Bit(x, 1) \in {0, 1} /\ Bit(x, 2) \in {0, 1} /\ Bit(x, 3) \in {0, 1}
      /\ Bit(y, 0) \in {0, 1} /\ Bit(y, 1) \in {0, 1} /\ Bit(y, 2) \in {0, 1} /\ Bit(y, 3) \in {0, 1}
      /\ Bit(y, 4) \in {0, 1} /\ Bit(y, 5) \in {0, 1} /\ Bit(y, 6) \in {0, 1} /\ Bit(y, 7) \in {0, 1}
  BY <1>1
<1>8. x < y + 16 /\ y < x + 16
  BY <1>4, <1>5, <1>6, <1>7
<1>9. (\A k \in 0..3 : Bit(x, k) = Bit(y, k)) => x = y
  BY <1>4, <1>5, <1>6
<1> QED BY <1>3, <1>8, <1>9

\* The number of digits of a text, and the digit at a decimal place.
Length(n) == IF n < 10 THEN 1 ELSE IF n < 100 THEN 2 ELSE IF n < 1000 THEN 3
             ELSE IF n < 10000 THEN 4 ELSE 5
Above(n, e) == n \div 10 ^ e
Place(n, e) == Above(n, e) % 10

\* Every digit is below ten, and dividing by ten takes the last one off.
Split(n, e) == /\ Place(n, e) \in Nat /\ Place(n, e) < 10
               /\ Above(n, e) \in Nat /\ Above(n, e + 1) \in Nat
               /\ Above(n, e) = 10 * Above(n, e + 1) + Place(n, e)
Decimal(n) == /\ Above(n, 0) = n
              /\ Split(n, 0) /\ Split(n, 1) /\ Split(n, 2) /\ Split(n, 3) /\ Split(n, 4)

\* The digits below 100000 come off one by one.
LEMMA Decimals == ASSUME NEW n \in Nat PROVE Decimal(n)
<1>1. /\ Above(n, 0) = n /\ Above(n, 1) = n \div 10 /\ Above(n, 2) = n \div 100
      /\ Above(n, 3) = n \div 1000 /\ Above(n, 4) = n \div 10000 /\ Above(n, 5) = n \div 100000
  BY DEF Above
<1>2. Split(n, 0)
  <2>1. Place(n, 0) = n % 10
    BY <1>1 DEF Place
  <2>2. n % 10 \in Nat /\ n % 10 < 10 /\ n \div 10 \in Nat /\ n = 10 * (n \div 10) + (n % 10)
    OBVIOUS
  <2>3. Above(n, 0) = n /\ Above(n, 1) = n \div 10
    BY <1>1
  <2> QED BY <2>1, <2>2, <2>3 DEF Split
<1>3. Split(n, 1)
  <2> DEFINE a == n \div 10
  <2>1. /\ a \in Nat /\ a % 10 \in Nat /\ a % 10 < 10
        /\ n \div 100 \in Nat /\ a = 10 * (n \div 100) + (a % 10)
    OBVIOUS
  <2>2. Above(n, 1) = a /\ Above(n, 2) = n \div 100 /\ Place(n, 1) = a % 10
    BY <1>1 DEF Place
  <2> HIDE DEF a
  <2> QED BY <2>1, <2>2 DEF Split
<1>4. Split(n, 2)
  <2> DEFINE a == n \div 100
  <2>1. /\ a \in Nat /\ a % 10 \in Nat /\ a % 10 < 10
        /\ n \div 1000 \in Nat /\ a = 10 * (n \div 1000) + (a % 10)
    OBVIOUS
  <2>2. Above(n, 2) = a /\ Above(n, 3) = n \div 1000 /\ Place(n, 2) = a % 10
    BY <1>1 DEF Place
  <2> HIDE DEF a
  <2> QED BY <2>1, <2>2 DEF Split
<1>5. Split(n, 3)
  <2> DEFINE a == n \div 1000
  <2>1. /\ a \in Nat /\ a % 10 \in Nat /\ a % 10 < 10
        /\ n \div 10000 \in Nat /\ a = 10 * (n \div 10000) + (a % 10)
    OBVIOUS
  <2>2. Above(n, 3) = a /\ Above(n, 4) = n \div 10000 /\ Place(n, 3) = a % 10
    BY <1>1 DEF Place
  <2> HIDE DEF a
  <2> QED BY <2>1, <2>2 DEF Split
<1>6. Split(n, 4)
  <2> DEFINE a == n \div 10000
  <2>1. /\ a \in Nat /\ a % 10 \in Nat /\ a % 10 < 10
        /\ n \div 100000 \in Nat /\ a = 10 * (n \div 100000) + (a % 10)
    OBVIOUS
  <2>2. Above(n, 4) = a /\ Above(n, 5) = n \div 100000 /\ Place(n, 4) = a % 10
    BY <1>1 DEF Place
  <2> HIDE DEF a
  <2> QED BY <2>1, <2>2 DEF Split
<1> QED BY <1>1, <1>2, <1>3, <1>4, <1>5, <1>6 DEF Decimal

\* A number below a power of ten has nothing above its digits.
LEMMA Below ==
  ASSUME NEW v \in Nat
  PROVE  /\ v < 100 => Above(v, 2) = 0
         /\ v < 1000 => Above(v, 3) = 0
         /\ v < 10000 => Above(v, 4) = 0
         /\ v < 100000 => Above(v, 5) = 0
  BY DEF Above

\* A number has no more digits than its length says.
LEMMA Lengths ==
  ASSUME NEW n \in Nat
  PROVE  /\ Length(n) \in 1..5
         /\ Length(n) = 1 => n < 10
         /\ Length(n) = 2 => n < 100
         /\ Length(n) = 3 => n < 1000
         /\ Length(n) = 4 => n < 10000
  BY DEF Length

\* Digits writes the decimal places from the highest down to the lowest.
LEMMA DigitsOf ==
  ASSUME NEW n \in Nat
  PROVE  /\ Length(n) \in 1..5 /\ Len(Digits(n)) = Length(n)
         /\ \A k \in 1..Length(n) : /\ Digits(n)[k] = Place(n, Length(n) - k)
                                    /\ Digits(n)[k] \in Nat /\ Digits(n)[k] < 10
<1>1. Length(n) \in 1..5
  BY Lengths
<1>2. Digits(n) = [k \in 1..Length(n) |-> Place(n, Length(n) - k)]
  BY DEF Digits, Length, Place, Above
<1>3. Len(Digits(n)) = Length(n)
  BY <1>1, <1>2
<1>4. \A k \in 1..Length(n) : Digits(n)[k] = Place(n, Length(n) - k)
  BY <1>2
<1>5. \A k \in 1..Length(n) : Length(n) - k \in 0..4
  BY <1>1
<1>6. \A e \in 0..4 : Place(n, e) \in Nat /\ Place(n, e) < 10
  <2>1. Split(n, 0) /\ Split(n, 1) /\ Split(n, 2) /\ Split(n, 3) /\ Split(n, 4)
    BY Decimals DEF Decimal
  <2>2. \A e \in 0..4 : e = 0 \/ e = 1 \/ e = 2 \/ e = 3 \/ e = 4
    OBVIOUS
  <2>3. \A e \in 0..4 : Split(n, e)
    BY <2>1, <2>2
  <2> QED BY <2>3 DEF Split
<1>7. \A k \in 1..Length(n) : Digits(n)[k] \in Nat /\ Digits(n)[k] < 10
  BY <1>4, <1>5, <1>6
<1> QED BY <1>1, <1>3, <1>4, <1>7

\* The first four characters of the text tell the number but for its fifth digit.
LEMMA SameDigits ==
  ASSUME NEW n \in Nat, NEW m \in Nat, n < 100000, m < 100000,
         NEW L, Length(n) = L, Length(m) = L,
         \A k \in 1..L : k < 5 => Digits(n)[k] = Digits(m)[k]
  PROVE  n < m + 10 /\ m < n + 10
<1>1. L \in 1..5
  BY DigitsOf
<1>2. \A k \in 1..L : k < 5 => Place(n, L - k) = Place(m, L - k)
  BY DigitsOf
<1>3. /\ L = 1 => n < 10 /\ m < 10
      /\ L = 2 => n < 100 /\ m < 100
      /\ L = 3 => n < 1000 /\ m < 1000
      /\ L = 4 => n < 10000 /\ m < 10000
  BY Lengths
<1>4. Decimal(n) /\ Decimal(m)
  BY Decimals
<1>5. CASE L = 1
  BY <1>3, <1>5
<1>6. CASE L = 2
  <2>1. Place(n, 1) = Place(m, 1) /\ Place(n, 0) = Place(m, 0)
    BY <1>2, <1>6
  <2>2. Above(n, 2) = 0 /\ Above(m, 2) = 0
    BY <1>3, <1>6, Below
  <2> QED BY <1>4, <2>1, <2>2 DEF Decimal, Split
<1>7. CASE L = 3
  <2>1. Place(n, 2) = Place(m, 2) /\ Place(n, 1) = Place(m, 1) /\ Place(n, 0) = Place(m, 0)
    BY <1>2, <1>7
  <2>2. Above(n, 3) = 0 /\ Above(m, 3) = 0
    BY <1>3, <1>7, Below
  <2> QED BY <1>4, <2>1, <2>2 DEF Decimal, Split
<1>8. CASE L = 4
  <2>1. /\ Place(n, 3) = Place(m, 3) /\ Place(n, 2) = Place(m, 2)
        /\ Place(n, 1) = Place(m, 1) /\ Place(n, 0) = Place(m, 0)
    BY <1>2, <1>8
  <2>2. Above(n, 4) = 0 /\ Above(m, 4) = 0
    BY <1>3, <1>8, Below
  <2> QED BY <1>4, <2>1, <2>2 DEF Decimal, Split
<1>9. CASE L = 5
  <2>1. /\ Place(n, 4) = Place(m, 4) /\ Place(n, 3) = Place(m, 3)
        /\ Place(n, 2) = Place(m, 2) /\ Place(n, 1) = Place(m, 1)
    BY <1>2, <1>9
  <2>2. Above(n, 5) = 0 /\ Above(m, 5) = 0
    BY Below
  <2>3. Above(n, 1) = Above(m, 1)
    BY <1>4, <2>1, <2>2 DEF Decimal, Split
  <2> QED BY <1>4, <2>3 DEF Decimal, Split
<1> QED BY <1>1, <1>5, <1>6, <1>7, <1>8, <1>9

\* The characters of a text, its terminator behind them.
LEMMA CharactersOf ==
  ASSUME NEW n \in Nat, NEW octet
  PROVE  /\ Characters(n, octet) = [k \in 1..5 |-> Characters(n, octet)[k]]
         /\ \A k \in 1..Length(n) : /\ Characters(n, octet)[k] = 48 + Digits(n)[k]
                                    /\ Characters(n, octet)[k] \in Nat /\ Digits(n)[k] \in Nat
                                    /\ Characters(n, octet)[k] >= 48 /\ Characters(n, octet)[k] < 58
         /\ Length(n) < 5 => Characters(n, octet)[Length(n) + 1] = 0
<1> DEFINE text == Digits(n)
<1>1. /\ Length(n) \in 1..5 /\ Len(text) = Length(n)
      /\ \A k \in 1..Length(n) : text[k] \in Nat /\ text[k] < 10
  BY DigitsOf
<1> HIDE DEF text
<1>2. Characters(n, octet) = [k \in 1..5 |-> IF k <= Len(text) THEN 48 + text[k]
                                             ELSE IF k = Len(text) + 1 THEN 0 ELSE octet]
  BY DEF Characters, text
<1>3. \A k \in 1..Length(n) : /\ Characters(n, octet)[k] = 48 + text[k]
                              /\ Characters(n, octet)[k] \in Nat /\ text[k] \in Nat
                              /\ Characters(n, octet)[k] >= 48 /\ Characters(n, octet)[k] < 58
  <2>1. \A k \in 1..Length(n) : k \in 1..5 /\ k <= Len(text)
    BY <1>1
  <2>2. \A k \in 1..Length(n) : Characters(n, octet)[k] = 48 + text[k]
    BY <1>2, <2>1
  <2> QED BY <1>1, <2>2
<1>4. Length(n) < 5 => Characters(n, octet)[Length(n) + 1] = 0
  BY <1>1, <1>2
<1>5. Characters(n, octet) = [k \in 1..5 |-> Characters(n, octet)[k]]
  BY <1>2
<1> QED BY <1>3, <1>4, <1>5 DEF text

\* Of its five octets a cell string carries all bits but the low nibble of the
\* last.
LEMMA CarriedBits ==
  ASSUME NEW c \in Nat, NEW octet, NEW i \in 1..5, NEW k \in 0..7, i = 5 => k >= 4
  PROVE  8 * (i - 1) + k \in Carried(CellString(c, octet))
           <=> Bit(Characters((c * 16) % 65536, octet)[i], k) = 1
<1> DEFINE bytes == Characters((c * 16) % 65536, octet)
           a == 8 * (i - 1) + k
           string0 == CellString(c, octet)
<1>1. (c * 16) % 65536 \in Nat
  OBVIOUS
<1>2. bytes = [j \in 1..5 |-> bytes[j]]
  BY <1>1, CharactersOf
<1>3. string0.size = 5 /\ string0.unused = 4 /\ string0.ones = BitsOf(bytes)
  BY DEF CellString
<1> HIDE DEF bytes, string0
<1>4. Len(bytes) = 5
  BY <1>2
<1>5. a \in 0..39 /\ (a \div 8) + 1 = i /\ a % 8 = k /\ (a >= 36 \/ a < 32)
  OBVIOUS
<1> HIDE DEF a
<1>6. BitsOf(bytes) = {x \in 0..39 : Bit(bytes[(x \div 8) + 1], x % 8) = 1}
  BY <1>4 DEF BitsOf, Bit
<1>7. a \in BitsOf(bytes) <=> Bit(bytes[i], k) = 1
  BY <1>5, <1>6
<1>8. a \in Carried(string0) <=> a \in BitsOf(bytes)
  BY <1>3, <1>5 DEF Carried
<1> QED BY <1>7, <1>8 DEF a, bytes, string0

\* The text of one cell is no beginning of another's: where it ends the other
\* has a digit, and their upper nibbles differ.
LEMMA SameLength ==
  ASSUME NEW c \in Nat, c < 4096, NEW d \in Nat, d < 4096, NEW o, NEW p,
         Carried(CellString(c, o)) = Carried(CellString(d, p))
  PROVE  ~(Length(16 * c) < Length(16 * d))
<1> SUFFICES ASSUME Length(16 * c) < Length(16 * d) PROVE FALSE
  OBVIOUS
<1> DEFINE i == Length(16 * c) + 1
           x == Characters(16 * c, o)[i]
           y == Characters(16 * d, p)[i]
<1>1. (c * 16) % 65536 = 16 * c /\ (d * 16) % 65536 = 16 * d
  OBVIOUS
<1>2. 16 * c \in Nat /\ 16 * d \in Nat
  OBVIOUS
<1>3. Length(16 * c) \in 1..5 /\ Length(16 * d) \in 1..5
  BY <1>2, DigitsOf
<1>4. i \in 1..5 /\ i \in 1..Length(16 * d) /\ Length(16 * c) < 5
  BY <1>3
<1>5. x = 0
  BY <1>2, <1>4, CharactersOf
<1>6. y \in Nat /\ y >= 48 /\ y < 58
  BY <1>2, <1>4, CharactersOf
<1>7. \A k \in 4..7 : Bit(x, k) = 1 <=> Bit(y, k) = 1
  <2> TAKE k \in 4..7
  <2>1. 8 * (i - 1) + k \in Carried(CellString(c, o)) <=> Bit(x, k) = 1
    BY <1>1, <1>4, CarriedBits
  <2>2. 8 * (i - 1) + k \in Carried(CellString(d, p)) <=> Bit(y, k) = 1
    BY <1>1, <1>4, CarriedBits
  <2> QED BY <2>1, <2>2
<1> HIDE DEF x, y
<1>8. y < x + 16
  BY <1>5, <1>6, <1>7, SameBits
<1> QED BY <1>5, <1>6, <1>8

\* What is carried of a cell below 4096 tells which cell it is.
LEMMA CellCarried ==
  ASSUME NEW c \in Nat, c < 4096, NEW d \in Nat, d < 4096, NEW o, NEW p,
         Carried(CellString(c, o)) = Carried(CellString(d, p))
  PROVE  c = d
<1> DEFINE n == 16 * c
           m == 16 * d
           L == Length(n)
<1>1. (c * 16) % 65536 = n /\ (d * 16) % 65536 = m
      /\ n \in Nat /\ m \in Nat /\ n < 100000 /\ m < 100000
  OBVIOUS
<1>2. ~(Length(n) < Length(m)) /\ ~(Length(m) < Length(n))
  BY SameLength
<1> HIDE DEF n, m
<1>3. L \in 1..5 /\ Length(m) = L
  BY <1>1, <1>2, DigitsOf
<1> HIDE DEF L
<1>4. ASSUME NEW j \in 1..L, j < 5 PROVE Digits(n)[j] = Digits(m)[j]
  <2> DEFINE x == Characters(n, o)[j]
             y == Characters(m, p)[j]
  <2>1. j \in 1..5
    BY <1>3
  <2>2. \A k \in 0..7 : Bit(x, k) = 1 <=> Bit(y, k) = 1
    <3> TAKE k \in 0..7
    <3>1. 8 * (j - 1) + k \in Carried(CellString(c, o)) <=> Bit(x, k) = 1
      BY <1>1, <1>4, <2>1, CarriedBits
    <3>2. 8 * (j - 1) + k \in Carried(CellString(d, p)) <=> Bit(y, k) = 1
      BY <1>1, <1>4, <2>1, CarriedBits
    <3> QED BY <3>1, <3>2
  <2>3. x = 48 + Digits(n)[j] /\ Digits(n)[j] \in Nat /\ x \in Nat /\ x >= 48 /\ x < 58
    BY <1>1, CharactersOf DEF L
  <2>4. y = 48 + Digits(m)[j] /\ Digits(m)[j] \in Nat /\ y \in Nat /\ y >= 48 /\ y < 58
    BY <1>1, <1>3, CharactersOf
  <2> HIDE DEF x, y
  <2>5. x = y
    BY <2>2, <2>3, <2>4, SameBits
  <2> QED BY <2>3, <2>4, <2>5
<1>5. n < m + 10 /\ m < n + 10
  BY <1>1, <1>3, <1>4, SameDigits DEF L
<1> QED BY <1>5 DEF n, m

\* Cells below 4096 stay apart on the wire, whatever follows their text in the
\* string object (asn1c-types.cc:87-95, 122-138).
THEOREM CellsStayApart == Spec => []CellsStayDistinct
<1>1. ASSUME Memory, written.by = "NrCellId", written.value < 4096,
             NEW d \in Cells, NEW octet \in Beyond, d < 4096,
             Carried(CellString(d, octet)) = Carried(string)
      PROVE  d = written.value
  <2>1. CellsString
    BY <1>1, WritersOf, NamesApart DEF Memory, Made
  <2>2. PICK c \in Cells, o \in Beyond : written = Call("NrCellId", c) /\ string = CellString(c, o)
    BY <2>1 DEF CellsString
  <2>3. written.value = c
    BY <2>2, Calls
  <2>4. c \in Nat /\ d \in Nat
    BY CellsAreShorts
  <2> QED BY <1>1, <2>2, <2>3, <2>4, CellCarried
<1>2. Memory => CellsStayDistinct
  BY <1>1 DEF CellsStayDistinct
<1> QED BY <1>2, MemoryInit, MemoryStep, PTL DEF Spec

-----------------------------------------------------------------------------
(* Networks *)

\* Three digits make the number they were taken from.
LEMMA DigitsOfNumber ==
  ASSUME NEW n \in Nat, n < 1000
  PROVE  /\ Number(Hundreds(n), Tens(n), Units(n)) = n
         /\ Hundreds(n) \in 0..9 /\ Tens(n) \in 0..9 /\ Units(n) \in 0..9
         /\ n < 100 => Hundreds(n) = 0
  BY DEF Number, Hundreds, Tens, Units

\* What a network looks like in its octets.
LEMMA OctetsOfPlmn ==
  ASSUME NEW p \in Plmns
  PROVE  LET o == PlmnOctets(p)
         IN  /\ o[1] = Hundreds(p.mcc) /\ o[2] = Tens(p.mcc) /\ o[3] = Units(p.mcc)
             /\ o[4] = IF p.len = 2 THEN Absent ELSE Hundreds(p.mnc)
             /\ o[5] = Tens(p.mnc) /\ o[6] = Units(p.mnc)
  BY DEF PlmnOctets

\* The third digit of the network code is absent, or it is that of the code.
LEMMA ThirdDigit ==
  ASSUME NEW p \in Plmns, NEW d, d = IF p.len = 2 THEN Absent ELSE Hundreds(p.mnc)
  PROVE  /\ d = Absent <=> p.len = 2
         /\ (IF d = Absent THEN 0 ELSE d) = Hundreds(p.mnc)
         /\ (IF d = Absent THEN 2 ELSE 3) = p.len
         /\ Hundreds(p.mnc) # Absent
<1>1. p.mnc \in Nat /\ p.mnc < 1000 /\ p.len \in {2, 3} /\ (p.len = 2 => p.mnc < 100)
  BY PlmnsAreNumbers
<1>2. Hundreds(p.mnc) \in 0..9 /\ (p.len = 2 => Hundreds(p.mnc) = 0)
  BY <1>1, DigitsOfNumber
<1> QED BY <1>1, <1>2 DEF Absent

\* The octets of a network tell its country, its code and the length of that.
LEMMA ReadAsOctets ==
  ASSUME NEW p \in Plmns
  PROVE  OctetsPlmn(PlmnOctets(p)) = p
<1>1. /\ p.mcc \in Nat /\ p.mcc < 1000 /\ p.mnc \in Nat /\ p.mnc < 1000
      /\ p \in [mcc : Nat, mnc : Nat, len : {2, 3}]
  BY PlmnsAreNumbers
<1> DEFINE o == PlmnOctets(p)
<1>2. Number(o[1], o[2], o[3]) = p.mcc
  BY <1>1, OctetsOfPlmn, DigitsOfNumber
<1>3. /\ (IF o[4] = Absent THEN 0 ELSE o[4]) = Hundreds(p.mnc)
      /\ (IF o[4] = Absent THEN 2 ELSE 3) = p.len
  BY OctetsOfPlmn, ThirdDigit
<1>4. o[5] = Tens(p.mnc) /\ o[6] = Units(p.mnc)
  BY OctetsOfPlmn
<1>5. Number(Hundreds(p.mnc), Tens(p.mnc), Units(p.mnc)) = p.mnc
  BY <1>1, DigitsOfNumber
<1> HIDE DEF o
<1>6. OctetsPlmn(o) = [mcc |-> p.mcc, mnc |-> p.mnc, len |-> p.len]
  BY <1>2, <1>3, <1>4, <1>5 DEF OctetsPlmn
<1> QED BY <1>1, <1>6 DEF o

\* The plmn_t made of fresh octets tells the country.
LEMMA CountryOfStruct ==
  ASSUME NEW p \in Plmns
  PROVE  PlmnTPlmn(PlmnT(PlmnOctets(p))).mcc = p.mcc
<1>1. p.mcc \in Nat /\ p.mcc < 1000
  BY PlmnsAreNumbers
<1> DEFINE t == PlmnT(PlmnOctets(p))
<1>2. t.MCCdigit3 = Hundreds(p.mcc) /\ t.MCCdigit2 = Tens(p.mcc) /\ t.MCCdigit1 = Units(p.mcc)
  BY OctetsOfPlmn DEF PlmnT
<1> HIDE DEF t
<1>3. Number(t.MCCdigit3, t.MCCdigit2, t.MCCdigit1) = p.mcc
  BY <1>1, <1>2, DigitsOfNumber
<1>4. PlmnTPlmn(t).mcc = Number(t.MCCdigit3, t.MCCdigit2, t.MCCdigit1)
  BY DEF PlmnTPlmn
<1> QED BY <1>3, <1>4 DEF t

\* Every network survives its octets, and its country the way into a plmn_t
\* (conversions.h:298-387).
THEOREM PlmnsRoundTrip == Spec => []PlmnRoundTrip
<1>1. ASSUME Memory, written.by = "plmn", read.by = "plmn" PROVE read.value = written.value
  <2>1. string.kind = "plmn" /\ read.value = OctetsPlmn(string.octets)
    BY <1>1, PlmnRead DEF Memory
  <2>2. PICK p \in Plmns, by \in {"plmn", "plmn_t"} :
          written = Call(by, p) /\ string = PlmnString(OctetsBy(by, p))
    BY <1>1, <2>1, PlmnMade DEF Memory
  <2>3. by = "plmn" /\ written.value = p
    BY <1>1, <2>2, Calls
  <2> QED BY <2>1, <2>2, <2>3, ReadAsOctets DEF PlmnString, OctetsBy
<1>2. ASSUME Memory, written.by = "plmn", read.by = "plmn_t"
      PROVE  read.value.mcc = written.value.mcc
  <2>1. string.kind = "plmn_t" /\ read.value = PlmnTPlmn(string.digits)
    BY <1>2, PlmnRead DEF Memory
  <2>2. PICK p \in Plmns, by \in {"plmn", "plmn_t"} :
          written = Call(by, p) /\ string = PlmnTString(OctetsBy(by, p))
    BY <1>2, <2>1, PlmnMade DEF Memory
  <2>3. by = "plmn" /\ written.value = p
    BY <1>2, <2>2, Calls
  <2>4. string.digits = PlmnT(PlmnOctets(p))
    BY <2>2, <2>3 DEF PlmnTString, OctetsBy
  <2> QED BY <2>1, <2>3, <2>4, CountryOfStruct
<1>3. Memory => PlmnRoundTrip
  BY <1>1, <1>2 DEF PlmnRoundTrip
<1> QED BY <1>3, MemoryInit, MemoryStep, PTL DEF Spec

\* Octets after as many trips are the octets of one network.
LEMMA SameOctets ==
  ASSUME NEW p \in Plmns, NEW q \in Plmns, NEW by, OctetsBy(by, p) = OctetsBy(by, q)
  PROVE  p = q
<1> DEFINE o == PlmnOctets(p)
           u == PlmnOctets(q)
<1>1. o = <<o[1], o[2], o[3], o[4], o[5], o[6]>> /\ u = <<u[1], u[2], u[3], u[4], u[5], u[6]>>
  BY DEF PlmnOctets
<1>2. /\ OctetsBy(by, p) = IF by = "plmn" THEN o ELSE <<o[3], o[2], o[1], o[4], o[5], o[6]>>
      /\ OctetsBy(by, q) = IF by = "plmn" THEN u ELSE <<u[3], u[2], u[1], u[4], u[5], u[6]>>
  BY DEF OctetsBy
<1>3. OctetsPlmn(o) = p /\ OctetsPlmn(u) = q
  BY ReadAsOctets
<1> HIDE DEF o, u
<1>4. CASE by = "plmn"
  BY <1>2, <1>3, <1>4
<1>5. CASE by # "plmn"
  <2>1. /\ OctetsBy(by, p) = <<o[3], o[2], o[1], o[4], o[5], o[6]>>
        /\ OctetsBy(by, p) = <<u[3], u[2], u[1], u[4], u[5], u[6]>>
    BY <1>2, <1>5
  <2>2. /\ o[3] = u[3] /\ o[2] = u[2] /\ o[1] = u[1]
        /\ o[4] = u[4] /\ o[5] = u[5] /\ o[6] = u[6]
    BY <2>1
  <2> QED BY <1>1, <1>3, <2>2
<1> QED BY <1>4, <1>5

\* All networks stay apart in octets, however often they went through a plmn_t
\* (conversions.h:298-379).
THEOREM PlmnsStayApart == Spec => []PlmnsStayDistinct
<1>1. ASSUME Memory, string.kind = "plmn", NEW q \in Plmns,
             Travelled(q, written.by) = string.octets
      PROVE  q = written.value
  <2>1. PICK p \in Plmns, by \in {"plmn", "plmn_t"} :
          written = Call(by, p) /\ string = PlmnString(OctetsBy(by, p))
    BY <1>1, PlmnMade DEF Memory
  <2>2. written.by = by /\ written.value = p
    BY <2>1, Calls
  <2>3. PlmnTOctets(PlmnT(OctetsBy("plmn", q)), q.len) = OctetsBy("plmn_t", q)
    <3>1. \A w \in {"plmn", "plmn_t"} :
            PlmnTOctets(PlmnT(OctetsBy(w, q)), q.len)
              = OctetsBy(IF w = "plmn" THEN "plmn_t" ELSE "plmn", q)
      BY PlmnExchanged
    <3> QED BY <3>1
  <2>4. Travelled(q, by) = OctetsBy(by, q)
    BY <2>3 DEF Travelled, OctetsBy
  <2>5. string.octets = OctetsBy(by, p)
    BY <2>1 DEF PlmnString
  <2> QED BY <1>1, <2>2, <2>4, <2>5, SameOctets
<1>2. Memory => PlmnsStayDistinct
  BY <1>1 DEF PlmnsStayDistinct
<1> QED BY <1>2, MemoryInit, MemoryStep, PTL DEF Spec

-----------------------------------------------------------------------------
(* Identities of UEs *)

\* The draws keep within the fields they are written to.
LEMMA DrawsFit ==
  ASSUME NEW draw, NEW n \in DOMAIN Drawn(draw)
  PROVE  Amf(n) \in Fields /\ Amf(n).name # "nr_cell" /\ Accepts(Amf(n), Drawn(draw)[n])
<1>1. /\ DOMAIN Drawn(draw) = {"amf_ptr", "amf_set", "amf_region"}
      /\ Drawn(draw)["amf_ptr"] \subseteq Bits(6)
      /\ Drawn(draw)["amf_set"] \subseteq Bits(10)
      /\ Drawn(draw)["amf_region"] \subseteq Bits(6)
  BY DEF Drawn, DrawnRegion
<1>2. \E f \in AmfFields : f.name = n
  BY <1>1 DEF AmfFields, Field
<1>3. Amf(n) \in AmfFields /\ Amf(n).name = n
  BY <1>2 DEF Amf
<1>4. \A f \in AmfFields : f.limit = IF f.name = "amf_set" THEN 10 ELSE 6
  BY DEF AmfFields, Field
<1>5. Drawn(draw)[n] \subseteq Bits(IF n = "amf_set" THEN 10 ELSE 6)
  BY <1>1
<1> QED BY <1>1, <1>3, <1>4, <1>5 DEF Fields, Accepts

\* Whatever is drawn, no writer refuses it, the readers find it again, and an
\* identity that fits is kept whole (kpm-indication.cc:411-541).
THEOREM UeIdsAreComplete == Spec => []UeIdIsComplete
<1>1. ASSUME Memory, string.kind = "ueid"
      PROVE  \E id \in Ids, draw \in Values, p \in Plmns :
               /\ written.value = [id |-> id, draw |-> draw]
               /\ string.ue = UeId(id, draw, p)
  <2>1. ~FieldsString /\ ~MacrosString /\ ~CellsString /\ ~IdsString
    BY <1>1, Kinds DEF FieldsString, MacrosString, CellsString, IdsString
  <2>2. ~PlmnsString /\ string # NoString
    BY <1>1, Kinds DEF PlmnsString, PlmnString, PlmnTString
  <2>3. UesString
    BY <1>1, <2>1, <2>2 DEF Memory, Made
  <2> QED BY <2>3, Calls DEF UesString, UeIdString
<1>2. ASSUME Memory, string.kind = "ueid"
      PROVE  /\ string.ue.status # "aborted"
             /\ string.ue.status = "filled" =>
                  /\ string.ue.amf_id = written.value.id.ones
                  /\ \A n \in DOMAIN string.ue.guami :
                       FieldValue(Amf(n), string.ue.guami[n]) = Drawn(written.value.draw)[n]
  <2>1. PICK id \in Ids, draw \in Values, p \in Plmns :
          written.value = [id |-> id, draw |-> draw] /\ string.ue = UeId(id, draw, p)
    BY <1>1, <1>2
  <2>2. ~ \E n \in DOMAIN Drawn(draw) : ~Accepts(Amf(n), Drawn(draw)[n])
    BY DrawsFit
  <2>3. CASE HostValue(id) = Overflow
    <3>1. string.ue = [status |-> "overflow"]
      BY <2>1, <2>3 DEF UeId
    <3> QED BY <3>1
  <2>4. CASE HostValue(id) # Overflow
    <3> DEFINE guami == [n \in DOMAIN Drawn(draw) |-> FieldString(Amf(n), Drawn(draw)[n])]
    <3>1. string.ue = [status |-> "filled", amf_id |-> HostValue(id),
                       plmn |-> MessagePlmnOctets(p), guami |-> guami]
      BY <2>1, <2>2, <2>4 DEF UeId
    <3>2. HostValue(id) = id.ones
      BY <2>4 DEF HostValue
    <3>3. ASSUME NEW n \in DOMAIN guami PROVE FieldValue(Amf(n), guami[n]) = Drawn(draw)[n]
      <4>1. Amf(n) \in Fields /\ Amf(n).name # "nr_cell" /\ Accepts(Amf(n), Drawn(draw)[n])
        BY DrawsFit
      <4> QED BY <4>1, FieldValueRoundTrip
    <3> QED BY <2>1, <3>1, <3>2, <3>3
  <2> QED BY <2>3, <2>4
<1>3. Memory => UeIdIsComplete
  BY <1>2 DEF UeIdIsComplete
<1> QED BY <1>3, MemoryInit, MemoryStep, PTL DEF Spec
===========================================================================
