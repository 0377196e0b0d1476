---------------------------- MODULE Conversions ----------------------------
(***************************************************************************)
(* A string is written from a value by one function or macro and read by   *)
(* another, which may or may not be its inverse: C tells bit strings from  *)
(* octet strings and no more.  A failed assertion ends the program, so a   *)
(* refused value or string is no step.                                     *)
(***************************************************************************)
EXTENDS BitStrings, Identities, FiniteSets

CONSTANTS
  Values,     \* integers given to the writers, as sets of bits
  Cells,      \* cells given to NrCellId, 16 bits
  Plmns,      \* networks
  Ids,        \* UE identities, octet strings
  Beyond      \* octets found past the end of a buffer

ASSUME ValuesAreIntegers == \A v \in Values : v \subseteq Bits(64)
ASSUME CellsAreShorts == \A c \in Cells : c \in Nat /\ c < 65536
ASSUME PlmnsAreNumbers ==
  \A p \in Plmns : /\ p \in [mcc : Nat, mnc : Nat, len : {2, 3}]
                   /\ p.mcc < 1000 /\ p.mnc < 1000
                   /\ p.len = 2 => p.mnc < 100
ASSUME IdsAreOctets ==
  \A s \in Ids : /\ s.kind = "octets" /\ s.size \in Nat /\ s.unused = 0
                 /\ s.ones \subseteq Bits(8 * s.size)

VARIABLES
  string,     \* the string, or the UEID, in memory
  written,    \* by whom, and from which value
  read        \* by whom, and the value returned

vars == <<string, written, read>>

Nothing == [by |-> "none"]
Overflow == {-1}     \* no integer: the copy runs past the eight bytes
Call(by, value) == [by |-> by, value |-> value]

NoString == [kind |-> "none", size |-> 0, unused |-> 0]

Init ==
  /\ string = NoString
  /\ written = Nothing
  /\ read = Nothing

-----------------------------------------------------------------------------
(* Writing *)

\* A writer allocates the buffer it writes.
Write(s, by, value) ==
  /\ string = NoString
  /\ string' = s
  /\ written' = Call(by, value)
  /\ read' = Nothing

\* The string is released with the message it belongs to.
Release ==
  /\ string # NoString
  /\ string' = NoString
  /\ written' = Nothing
  /\ read' = Nothing

WriteField(f, v) ==
  /\ Accepts(f, v)
  /\ Write(FieldString(f, v), f.name, v)

WriteMacro(m, v) == Write(MacroString(m, v), m.name, v)

WriteCell(c, beyond) == Write(CellString(c, beyond), "NrCellId", c)

WritePlmn(p) ==
  Write([kind |-> "plmn", size |-> 3, unused |-> 0, octets |-> PlmnOctets(p)], "plmn", p)

\* The id of a MeasurementItemList: an OctetString of its characters.
WriteId(s) == Write(s, "id", s.ones)

-----------------------------------------------------------------------------
(* Reading *)

\* Readers leave the string alone.
Read(by, value) ==
  /\ read' = Call(by, value)
  /\ UNCHANGED <<string, written>>

ReadField(f) == Readable(f, string) /\ Read(f.name, FieldValue(f, string))

ReadMacro(r, octet) ==
  /\ MacroAccepts(r, string)
  /\ Read(r.name, MacroValue(r, string, octet))

\* octet_string_to_int_64 copies the whole string into eight bytes.
HostValue(s) == IF s.size > 8 THEN Overflow ELSE s.ones

ReadHost == string.kind = "octets" /\ Read("host", HostValue(string))

ReadPlmn == string.kind = "plmn" /\ Read("plmn", OctetsPlmn(string.octets))

ReadPlmnT == string.kind = "plmn_t" /\ Read("plmn_t", PlmnTPlmn(string.digits))

ToPlmnT ==
  /\ string.kind = "plmn"
  /\ string' = [kind |-> "plmn_t", size |-> 0, unused |-> 0, digits |-> PlmnT(string.octets)]
  /\ read' = Nothing
  /\ UNCHANGED written

\* The caller of PLMN_T_TO_TBCD knows the length of the network code.  "by"
\* tells whether the octets went through a plmn_t an odd number of times.
FromPlmnT ==
  /\ string.kind = "plmn_t"
  /\ string' = [kind |-> "plmn", size |-> 3, unused |-> 0,
                octets |-> PlmnTOctets(string.digits, written.value.len)]
  /\ written' = [written EXCEPT !.by = IF @ = "plmn" THEN "plmn_t" ELSE "plmn"]
  /\ read' = Nothing

-----------------------------------------------------------------------------
(* FillUeID draws the identity of the AMF and its network at random; the     *)
(* remainder by a power of two keeps the low bits.  The identity of the UE   *)
(* must fit the eight bytes it is copied to.                                 *)

Amf(name) == CHOOSE f \in AmfFields : f.name = name

\* Mutant: the region is drawn from all the values of its eight bits.
DrawnRegionWide == 8

DrawnRegion == 6

Drawn(draw) ==
  [amf_ptr |-> draw \cap Bits(6), amf_set |-> draw \cap Bits(10),
   amf_region |-> draw \cap Bits(DrawnRegion)]

UeId(id, draw, p) ==
  IF HostValue(id) = Overflow THEN [status |-> "overflow"]
  ELSE IF \E n \in DOMAIN Drawn(draw) : ~Accepts(Amf(n), Drawn(draw)[n])
  THEN [status |-> "aborted"]
  ELSE [status |-> "filled", amf_id |-> HostValue(id), plmn |-> MessagePlmnOctets(p),
        guami |-> [n \in DOMAIN Drawn(draw) |-> FieldString(Amf(n), Drawn(draw)[n])]]

FillUeID(id, draw, p) ==
  /\ p.mcc < 505 /\ p.mnc < 99 /\ p.len = 2
  /\ Write([kind |-> "ueid", size |-> 0, unused |-> 0, ue |-> UeId(id, draw, p)],
           "FillUeID", [id |-> id, draw |-> draw])

-----------------------------------------------------------------------------

WriteSome ==
  \/ \E f \in Fields, v \in Values : WriteField(f, v)
  \/ \E m \in Macros, v \in Values : WriteMacro(m, v)
  \/ \E c \in Cells, octet \in Beyond : WriteCell(c, octet)
  \/ \E p \in Plmns : WritePlmn(p)
  \/ \E s \in Ids : WriteId(s)
  \/ \E id \in Ids, draw \in Values, p \in Plmns : FillUeID(id, draw, p)

ReadSome ==
  \/ \E f \in Fields : ReadField(f)
  \/ \E r \in Readers, octet \in Beyond : ReadMacro(r, octet)
  \/ ReadHost
  \/ ReadPlmn
  \/ ReadPlmnT

Next ==
  \/ string = NoString /\ WriteSome
  \/ ReadSome
  \/ ToPlmnT
  \/ FromPlmnT
  \/ Release

Spec == Init /\ [][Next]_vars

-----------------------------------------------------------------------------
(* Properties *)

\* Bit strings keep their ones inside their octets, and a value read back is
\* an integer of 64 bits (of a short string, or an overflow).
TypeOK ==
  /\ string.kind \in {"none", "bits", "octets", "primitive", "plmn", "plmn_t", "ueid"}
  /\ string.kind \in {"bits", "octets", "primitive"} =>
       string.ones \subseteq Bits(8 * string.size) /\ string.unused \in 0..7
  /\ written = Nothing => read = Nothing

FieldNames == {f.name : f \in Fields}

\* What a function of conversions.c writes, whichever of its readers accepts it
\* by the size and the unused bits reads as the integer written, also where
\* the string was meant for another field of the same shape; but a cell
\* identity with bit 31 comes back with the upper half all ones
\* (conversions.c:112).  The macro of MACRO_ENB_ID, which accepts a macro_enb
\* too and reads its octets in the opposite order, is not one of them.
FieldRoundTrip ==
  read.by \in FieldNames /\ written.by \in FieldNames =>
    \/ read.value = written.value
    \/ /\ read.by = "nr_cell" /\ 31 \in written.value
       /\ read.value = written.value \cup 32..63

\* An integer in octets, a tracking area among them, is read back up to its
\* width by the macro of as many octets, whichever macro wrote it
\* (conversions.h:133-184, 250-276, 437-444).
IntegersReadBySize ==
  LET width == [int8 |-> 8, int16 |-> 16, tac |-> 16, int24 |-> 24,
                int32 |-> 32, int32_bits |-> 32]
      octets == [int8 |-> 1, int16 |-> 2, int24 |-> 3, int32 |-> 4]
  IN  /\ written.by \in DOMAIN width
      /\ read.by \in DOMAIN octets
      /\ string.size = octets[read.by]
      => read.value = written.value \cap Bits(width[written.by])

\* What the macros of the node identities and of the IPv4 address write, the
\* macro named after them reads back, up to the width of the field; an address
\* survives exactly when its lowest octet repeats the bits 4 to 11 that are
\* sent in its place (conversions.h:412).
MacroRoundTrip ==
  LET width == [MACRO_GNB_ID |-> 28, MACRO_ENB_ID |-> 20, ipv4 |-> 32]
  IN  read.by \in DOMAIN width /\ read.by = written.by =>
        IF read.by = "ipv4"
        THEN (read.value = written.value \cap Bits(32))
               <=> (\A b \in Bits(8) : b \in written.value <=> b + 4 \in written.value)
        ELSE read.value = written.value \cap Bits(width[read.by])

\* The unused bits of a field are zero, as the encoding rules ask.
UnusedBitsAreZero ==
  written.by \in FieldNames \cup {"MACRO_ENB_ID"} => Carried(string) = string.ones

\* Cells below 4096 stay apart on the wire, though their text fills the
\* string unevenly, the encoder drops the low nibble of the last octet and
\* octets after the text are whatever was there.  From 4096 on they repeat.
CellsStayDistinct ==
  written.by = "NrCellId" /\ written.value < 4096 /\ read = Nothing =>
    \A c \in Cells, octet \in Beyond :
      c < 4096 /\ Carried(CellString(c, octet)) = Carried(string) => c = written.value

\* A network survives its three octets, with codes of two and three digits,
\* and a plmn_t made of them holds its country.
PlmnRoundTrip ==
  written.by = "plmn" =>
    /\ read.by = "plmn" => read.value = written.value
    /\ read.by = "plmn_t" => read.value.mcc = written.value.mcc

\* The octets of a network after an odd or even number of trips through a plmn_t.
Travelled(p, by) ==
  IF by = "plmn" THEN PlmnOctets(p) ELSE PlmnTOctets(PlmnT(PlmnOctets(p)), p.len)

\* However often a network went through a plmn_t, where an absent third digit
\* becomes a zero, its octets are those of no other network: 01 and 001 stay
\* apart ("ambiguous", conversions.h:370).
PlmnsStayDistinct ==
  string.kind = "plmn" =>
    \A p \in Plmns : Travelled(p, written.by) = string.octets => p = written.value

\* No draw of FillUeID is refused by the assertions of the writers, and what
\* it fills in reads back as the remainders it drew; an identity of up to eight
\* octets is kept whole.
UeIdIsComplete ==
  string.kind = "ueid" =>
    /\ string.ue.status # "aborted"
    /\ string.ue.status = "filled" =>
         /\ string.ue.amf_id = written.value.id.ones
         /\ \A n \in DOMAIN string.ue.guami :
              FieldValue(Amf(n), string.ue.guami[n]) = Drawn(written.value.draw)[n]
=============================================================================
