--------------------------- MODULE MCConversions ---------------------------
(* Every layout moves bits one by one: integers with one bit, with all bits *)
(* below one and with alternating bits show where each bit goes.            *)
EXTENDS Conversions

MCValues ==
  {{b} : b \in 0..63} \cup {Bits(n) : n \in 0..64}
    \cup {{b \in 0..63 : b % 3 = k} : k \in 0..2}
    \cup {{b \in 0..63 : b % 12 \in {0, 4, 8}}}

\* Texts of one to five digits, the first of each length, and both sides of
\* the wrap at 4096.
MCCells == (0..19) \cup {62, 63, 100} \cup (624..631) \cup {4094, 4095, 4096, 4097, 4159, 65535}

MCPlmns ==
  {[mcc |-> c, mnc |-> n, len |-> 3] : c \in {0, 1, 111, 222, 450, 504, 999},
                                       n \in {0, 1, 10, 12, 99, 100, 120, 999}}
    \cup {[mcc |-> c, mnc |-> n, len |-> 2] : c \in {1, 111, 450}, n \in {0, 6, 60, 98, 99}}

\* Identities of one, five, eight and nine characters.
MCIds == {[kind |-> "octets", size |-> n, unused |-> 0, ones |-> {b \in Bits(8 * n) : b % 8 \in {4, 5}}]
            : n \in {1, 5, 8, 9}}

MCBeyond == {0, 60, 255}
=============================================================================
