---------------------------- MODULE Identities ----------------------------
(***************************************************************************)
(* The identities that are not plain bit fields: a PLMN as three octets of *)
(* decimal digits, directly and through a plmn_t, and the cell identity    *)
(* that NrCellId wraps.  An octet is a pair of nibbles, the low one first. *)
(***************************************************************************)
EXTENDS Integers, Sequences

Hundreds(n) == n \div 100
Tens(n) == (n \div 10) % 10
Units(n) == n % 10
Number(h, t, u) == 100 * h + 10 * t + u

Absent == 15       \* the third digit of a network code of two

-----------------------------------------------------------------------------
(* PLMN: mcc, mnc and the length of the network code, 2 or 3.              *)

\* Mutant: the digits of the network code in their written order.
PlmnOctetsUnswapped(p) ==
  <<Hundreds(p.mcc), Tens(p.mcc), Units(p.mcc),
    IF p.len = 2 THEN Absent ELSE Hundreds(p.mnc), Units(p.mnc), Tens(p.mnc)>>

\* MCC_MNC_TO_PLMNID, OUR_MCC_MNC_TO_PLMNID and MCC_MNC_TO_TBCD alike.
PlmnOctets(p) ==
  <<Hundreds(p.mcc), Tens(p.mcc), Units(p.mcc),
    IF p.len = 2 THEN Absent ELSE Hundreds(p.mnc), Tens(p.mnc), Units(p.mnc)>>

\* PLMNID_TO_MCC_MNC and TBCD_TO_MCC_MNC alike.
OctetsPlmn(o) ==
  [mcc |-> Number(o[1], o[2], o[3]),
   mnc |-> Number(IF o[4] = Absent THEN 0 ELSE o[4], o[5], o[6]),
   len |-> IF o[4] = Absent THEN 2 ELSE 3]

\* cp_plmn_identity_to_octant_string of three numbers, the one that is called.
\* Its overload for an octet (kpm-indication.h:266-276) writes other nibbles
\* and is called by nobody.
MessagePlmnOctets(p) == PlmnOctets(p)

\* TBCD_TO_PLMN_T: an absent digit becomes a zero.
PlmnT(o) ==
  [MCCdigit3 |-> o[1], MCCdigit2 |-> o[2], MCCdigit1 |-> o[3],
   MNCdigit3 |-> IF o[4] = Absent THEN 0 ELSE o[4],
   MNCdigit1 |-> o[5], MNCdigit2 |-> o[6]]

\* Mutant: a code of two digits gets the zero of the plmn_t as its third.
PlmnTOctetsAmbiguous(t, len) ==
  <<t.MCCdigit1, t.MCCdigit2, t.MCCdigit3, t.MNCdigit3, t.MNCdigit1, t.MNCdigit2>>

\* PLMN_T_TO_TBCD
PlmnTOctets(t, len) ==
  <<t.MCCdigit1, t.MCCdigit2, t.MCCdigit3,
    IF len = 2 THEN Absent ELSE t.MNCdigit3, t.MNCdigit1, t.MNCdigit2>>

\* PLMN_T_TO_MCC_MNC
PlmnTPlmn(t) ==
  [mcc |-> Number(t.MCCdigit3, t.MCCdigit2, t.MCCdigit1),
   mnc |-> Number(IF t.MNCdigit3 = Absent THEN 0 ELSE t.MNCdigit3,
                  t.MNCdigit2, t.MNCdigit1),
   len |-> IF t.MNCdigit3 = Absent THEN 2 ELSE 3]

-----------------------------------------------------------------------------
(* NrCellId: the 16 bits of the cell times 16, as decimal text, in a bit     *)
(* string of five octets.                                                    *)

Digits(n) ==
  LET length == IF n < 10 THEN 1 ELSE IF n < 100 THEN 2 ELSE IF n < 1000 THEN 3
                ELSE IF n < 10000 THEN 4 ELSE 5
  IN  [k \in 1..length |-> (n \div 10 ^ (length - k)) % 10]

\* The text as characters, its terminator, and what the string object holds
\* after it.
Characters(n, beyond) ==
  LET text == Digits(n)
  IN  [k \in 1..5 |-> IF k <= Len(text) THEN 48 + text[k]
                      ELSE IF k = Len(text) + 1 THEN 0 ELSE beyond]

BitsOf(bytes) ==
  {a \in 0..(8 * Len(bytes) - 1) : (bytes[(a \div 8) + 1] \div 2 ^ (a % 8)) % 2 = 1}

\* Mutant: a string of four octets, the size the identity needs in bits.
CellStringShort(cell, beyond) ==
  [kind |-> "bits", size |-> 5, unused |-> 4,
   ones |-> BitsOf(SubSeq(Characters((cell * 16) % 65536, beyond), 1, 4))]

CellString(cell, beyond) ==
  [kind |-> "bits", size |-> 5, unused |-> 4,
   ones |-> BitsOf(Characters((cell * 16) % 65536, beyond))]

\* What the encoder sends of a bit string: not its unused bits.
Carried(s) == {a \in s.ones : a >= 8 * s.size - 8 + s.unused \/ a < 8 * s.size - 8}
===========================================================================
