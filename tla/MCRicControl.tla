---------------------------- MODULE MCRicControl ----------------------------
(***************************************************************************)
(* Requests for model checking: the usual four IEs around every parameter  *)
(* list of ParameterLists and every UE id, and every sequence of at most    *)
(* MaxIEs IEs from OddIEs.                                                  *)
(***************************************************************************)
EXTENDS RicControl

CONSTANT MaxIEs

UpTo(n, S) == UNION {[1..k -> S] : k \in 0..n}

Values ==
  {AsInt(c) : c \in {0, 3, 15}} \cup {AsInt(18), AsInt(-1)}
  \cup {AsOctets(c) : c \in {0, 5}} \cup {AsBits(c) : c \in {0, 2}}
  \cup {[type |-> "bits", bytes |-> <<>>], [type |-> "octets", bytes |-> <<>>],
        [type |-> "other"]}

Element(v) == [type |-> "element", value |-> v]
Structure(items) == [type |-> "structure", items |-> items]

\* Lists whose first item is one of S, with and without a second item that
\* would name a cell were it first.
Lists(S) == {<<>>} \cup {<<x>> : x \in S} \cup {<<x, Element(AsInt(3))>> : x \in S}

Level4 == {Element(v) : v \in Values} \cup {[type |-> "other"]}
Shallow == {Element(AsInt(3)), [type |-> "other"]}
Level3 == {Structure(l) : l \in Lists(Level4)} \cup Shallow
Level2 == {Structure(l) : l \in Lists(Level3)} \cup Shallow
ParameterLists ==
  {<<>>} \cup {<<Structure(l)>> : l \in {<<x>> : x \in Level2}}
    \cup {<<x>> : x \in Shallow} \cup {<<Structure(<<>>), Element(AsInt(3))>>}

\* The parameters of all levels, and those of Nest.
MCItem ==
  Level4 \cup Level3 \cup Level2 \cup {Structure(<<x>>) : x \in Level2} \cup {Structure(<<>>)}
    \cup UNION {{n[1], Under(n)[1], Under(Under(n))[1], Under(Under(Under(n)))[1]} :
                  n \in {Nest(AsInt(c)) : c \in {3, 15}}}

Header(outcome, id) ==
  [kind |-> "RICcontrolHeader", outcome |-> outcome, ueID |-> id]
Msg(outcome, items) ==
  [kind |-> "RICcontrolMessage", outcome |-> outcome, items |-> items]

Gnb(ids) == [type |-> "gNB", ids |-> ids]
UeIDs == {Gnb(<<>>), Gnb(<<7>>), Gnb(<<8, 7>>), [type |-> "other"]}

Usual ==
  {<<[kind |-> "RICrequestID"], [kind |-> "RANfunctionID"], Header("format1", u),
     Msg("format1", items)>> : u \in {Gnb(<<7>>)}, items \in ParameterLists}
  \cup {<<Header("format1", u), Msg("format1", Nest(AsInt(3)))>> : u \in UeIDs}

OddIEs ==
  {[kind |-> k] : k \in {"RICrequestID", "RICcallProcessID", "other"}}
  \cup {Header(o, Gnb(<<8>>)) : o \in {"error", "other", "format1"}}
  \cup {Header("format1", Gnb(<<7>>))}
  \cup {Msg(o, <<>>) : o \in {"empty", "error", "other"}}
  \cup {Msg("format1", Nest(AsInt(c))) : c \in {3, 15}}

MCRequest == Usual \cup UpTo(MaxIEs, OddIEs)
=============================================================================
