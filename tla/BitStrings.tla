---------------------------- MODULE BitStrings ----------------------------
(***************************************************************************)
(* The conversions between integers and ASN.1 bit and octet strings.  They *)
(* only move bits, so an unsigned integer is the set of the positions of   *)
(* its one bits and a string is the set of the addresses of its one bits:  *)
(* bit j of byte i of a buffer has address 8 * i + j.  A writer or reader  *)
(* has a layout, the function from the addresses it touches to the bits of *)
(* the integer found there.                                                *)
(***************************************************************************)
EXTENDS Integers

Bits(n) == 0..(n - 1)

-----------------------------------------------------------------------------
(* Layouts *)

\* Mutant: the last byte is written without its shift.
UnshiftedLayout(size, unused) == [a \in Bits(8 * size - unused) |-> a]

\* Byte i holds bits 8 * i to 8 * i + 7, and the last byte is shifted over the
\* unused bits, which stay zero.
LittleEndian(size, unused) ==
  [a \in Bits(8 * size) \ {8 * (size - 1) + j : j \in Bits(unused)} |->
     IF a < 8 * (size - 1) THEN a ELSE a - unused]

\* The most significant byte first.
BigEndian(size) ==
  [a \in Bits(8 * size) |-> 8 * (size - 1 - (a \div 8)) + (a % 8)]

\* The same for an integer shifted left by a nibble: the last one stays zero.
BigEndianNibbles(size) ==
  [a \in {b \in Bits(8 * size) : BigEndian(size)[b] >= 4} |-> BigEndian(size)[a] - 4]

\* The last byte takes the integer shifted by 4, the others by multiples of 8.
BigEndianShortLast(size) ==
  [a \in Bits(8 * size) |-> IF a < 8 * (size - 1) THEN BigEndian(size)[a]
                                                  ELSE a - 8 * (size - 1) + 4]

-----------------------------------------------------------------------------
(* The functions of conversions.c come in pairs: a writer that asserts that *)
(* its argument is below 2^limit (or has a parameter of that width) and a   *)
(* reader that asserts the size and the number of unused bits.              *)

Field(name, size, unused, limit) ==
  [name |-> name, size |-> size, unused |-> unused, limit |-> limit]

AmfFields == {Field("amf_region", 1, 0, 6), Field("amf_set", 2, 6, 10),
              Field("amf_ptr", 1, 2, 6)}

CellFields == {Field("nr_cell", 5, 4, 36), Field("macro_gnb", 4, 0, 32),
               Field("eutra_cell", 4, 4, 28)}

EnbFields == {Field("macro_enb", 3, 4, 20), Field("home_enb", 4, 4, 28),
              Field("short_macro_enb", 3, 6, 18), Field("long_macro_enb", 3, 3, 21)}

NgEnbFields == {Field("macro_ng_enb", 3, 4, 20), Field("short_macro_ng_enb", 3, 6, 18),
                Field("long_macro_ng_enb", 3, 3, 21)}

Fields == AmfFields \cup CellFields \cup EnbFields \cup NgEnbFields

\* What a writer leaves behind, given the layout it uses.
Written(f, layout, v) ==
  [kind |-> "bits", size |-> f.size, unused |-> f.unused,
   ones |-> {a \in DOMAIN layout : layout[a] \in v}]

Accepts(f, v) == v \subseteq Bits(f.limit)

\* Mutant: an octet too few is allocated.
FieldStringShort(f, v) ==
  [Written(f, LittleEndian(f.size, f.unused), v) EXCEPT !.size = @ - 1]

FieldString(f, v) == Written(f, LittleEndian(f.size, f.unused), v)

\* What a layout finds in the bits of a buffer.
Found(layout, ones) == {layout[a] : a \in DOMAIN layout \cap ones}

\* Mutant: the readers do not look at the unused bits.
ReadableOfAnyShift(f, s) == s.kind = "bits" /\ s.size = f.size

\* The assertions of a reader.
Readable(f, s) == s.kind = "bits" /\ s.size = f.size /\ s.unused = f.unused

\* The byte shifted by 24 is an int: or-ed into the 64 bits of the cell
\* identity, a set sign bit fills the upper half.
SignExtended(v) == IF 31 \in v THEN v \cup 32..63 ELSE v

\* Mutant: the reader leaves out the shift of the last byte.
FieldValueUnshifted(f, s) == Found(UnshiftedLayout(f.size, f.unused), s.ones)

FieldValue(f, s) ==
  LET v == Found(LittleEndian(f.size, f.unused), s.ones)
  IN  IF f.name = "nr_cell" THEN SignExtended(v) ELSE v

-----------------------------------------------------------------------------
(* The macros of conversions.h that write: any integer is taken, what does   *)
(* not fit is dropped.  A macro that sets no bits_unused is for octets.      *)

Macro(name, kind, size, unused, layout) ==
  [name |-> name, kind |-> kind, size |-> size, unused |-> unused, layout |-> layout]

OctetIntegers ==
  {Macro("int8", "octets", 1, 0, BigEndian(1)), Macro("int16", "octets", 2, 0, BigEndian(2)),
   Macro("int24", "octets", 3, 0, BigEndian(3)), Macro("int32", "octets", 4, 0, BigEndian(4)),
   Macro("int16_bits", "bits", 2, 0, BigEndian(2)), Macro("int24_bits", "bits", 3, 0, BigEndian(3)),
   Macro("int32_bits", "bits", 4, 0, BigEndian(4))}

\* The encryption and the integrity algorithms alike.
Algorithms == {Macro("algorithms", "bits", 2, 0, BigEndian(2))}

\* Both directions alike.
MaxBitRates == {Macro("bitrate", "primitive", 5, 0, BigEndian(5))}

RadioIdentities == {Macro("c_rnti", "bits", 2, 0, BigEndian(2))}

\* Mutant: the area in the first two of the three octets.
TrackingAreasFirst == {Macro("tac", "octets", 3, 0, BigEndian(2))}

TrackingAreas ==
  {Macro("tac", "octets", 3, 0, [a \in 8..23 |-> BigEndian(2)[a - 8]])}

Addresses == {Macro("ipv4", "bits", 4, 0, BigEndianShortLast(4))}

Imeisvs == {Macro("imeisv", "bits", 8, 0, BigEndianShortLast(8))}

GnbMacros == {Macro("MACRO_GNB_ID", "bits", 4, 0, BigEndianNibbles(4))}

EnbMacros == {Macro("MACRO_ENB_ID", "bits", 3, 4, BigEndianNibbles(3))}

\* int_64_to_octet_string copies the eight bytes in host order.
HostIntegers == {Macro("host", "octets", 8, 0, LittleEndian(8, 0))}

Macros == OctetIntegers \cup Algorithms \cup MaxBitRates \cup RadioIdentities
            \cup TrackingAreas \cup Addresses \cup Imeisvs \cup GnbMacros
            \cup EnbMacros \cup HostIntegers

MacroString(m, v) ==
  [kind |-> m.kind, size |-> m.size, unused |-> m.unused,
   ones |-> {a \in DOMAIN m.layout : m.layout[a] \in v}]

-----------------------------------------------------------------------------
(* The macros that read.  Few check the size of what they are given: past    *)
(* the end they find whatever is there.                                      *)

Reader(name, kinds, sizes, unused, layout) ==
  [name |-> name, kinds |-> kinds, sizes |-> sizes, unused |-> unused,
   layout |-> layout]

AnySize == 1..15
AnyUnused == 0..7

OctetReaders ==
  {Reader("int8", {"octets"}, {1}, AnyUnused, BigEndian(1)),
   Reader("int16", {"octets"}, {2, 3}, AnyUnused, BigEndian(2)),
   Reader("int24", {"octets"}, {2, 3}, AnyUnused, BigEndian(3)),
   Reader("int32", {"octets", "bits"}, AnySize, AnyUnused, BigEndian(4))}

AddressReaders == {Reader("ipv4", {"bits"}, {4}, {0}, BigEndian(4))}

GnbReaders == {Reader("MACRO_GNB_ID", {"bits"}, AnySize, {0}, BigEndianNibbles(4))}

\* Mutant: the lowest nibble is read where the writer leaves zeros.
EnbReadersUnshifted ==
  {Reader("MACRO_ENB_ID", {"bits"}, AnySize, {4}, BigEndian(3))}

EnbReaders == {Reader("MACRO_ENB_ID", {"bits"}, AnySize, {4}, BigEndianNibbles(3))}

Readers == OctetReaders \cup AddressReaders \cup GnbReaders \cup EnbReaders

MacroAccepts(r, s) == s.kind \in r.kinds /\ s.size \in r.sizes /\ s.unused \in r.unused

\* Past the end every octet is taken to hold the same bits.
MacroValue(r, s, octet) ==
  Found(r.layout, {a \in DOMAIN r.layout :
                     IF a < 8 * s.size THEN a \in s.ones
                     ELSE (octet \div 2 ^ (a % 8)) % 2 = 1})
===========================================================================
