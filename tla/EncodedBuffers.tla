-------------------------- MODULE EncodedBuffers --------------------------
(***************************************************************************)
(* Who owns the encoded buffers.  Indication headers and RAN function      *)
(* descriptions each keep one in m_buffer; E2Sim keeps copies of the       *)
(* descriptions it advertises.  The heap is a set of blocks; an object     *)
(* sits in a slot.  Memory of a new object holds whatever was there, and   *)
(* no constructor sets m_buffer before it encodes.                         *)
(***************************************************************************)
EXTENDS FunctionDescriptions

CONSTANTS
  Address,     \* blocks of the heap
  Slot,        \* places for objects
  Function,    \* RAN functions E2Sim may be told of
  Time,        \* collection start times of headers
  NodeType,    \* node types given to KpmFunctionDescription
  Null, Wild   \* pointers to nothing, and to no block of the heap

ASSUME PointersDiffer == Null \notin Address /\ Wild \notin Address /\ Null # Wild

VARIABLES
  memory,      \* the blocks, and whether freeing has gone wrong
  objects,     \* per slot, the object there
  e2sim,       \* per function, the copies E2Sim was given
  stray        \* history: a header was made where a pointer was left over

vars == <<memory, objects, e2sim, stray>>

Unused == [kind |-> "unused"]
Absent == [kind |-> "none"]
Name == [kind |-> "name"]
Lists == [kind |-> "lists"]

Header(t) == [kind |-> "header", time |-> t]
Description == {KpmDescription(n) : n \in NodeType} \cup {RcDescription}
Content == {Header(t) : t \in Time} \cup Description
Owner == [kind : {"owner"}, content : Content, buffer : Address]
Owns(content, a) == [kind |-> "owner", content |-> content, buffer |-> a]

Init ==
  /\ memory = [blocks |-> [a \in Address |-> Unused], crashed |-> FALSE]
  /\ objects = [s \in Slot |-> Absent]
  /\ e2sim = [f \in Function |-> {}]
  /\ stray = FALSE

-----------------------------------------------------------------------------
(* The heap *)

Filled(m, a, content) == [m EXCEPT !.blocks = [@ EXCEPT ![a] = content]]

\* Freeing a null pointer is nothing; anything that is no allocated block is a
\* crash, the mildest of what may follow.
Freed(m, p) ==
  IF p = Null THEN m
  ELSE IF p \in Address /\ m.blocks[p] # Unused
  THEN Filled(m, p, Unused)
  ELSE [m EXCEPT !.crashed = TRUE]

-----------------------------------------------------------------------------
(* Headers *)

\* Encode frees the buffer it believes is from an earlier encoding.
HeaderEncoded(found) == Freed(memory, found)

\* found: what m_buffer holds before the constructor runs.
CreateHeader(s, found, t, a) ==
  LET m == HeaderEncoded(found)
  IN  /\ objects[s] = Absent
      /\ m.blocks[a] = Unused
      /\ stray' = (stray \/ found # Null)
      /\ IF m.crashed
         THEN memory' = m /\ UNCHANGED objects
         ELSE /\ memory' = Filled(m, a, Header(t))
              /\ objects' = [objects EXCEPT ![s] = Owns(Header(t), a)]
      /\ UNCHANGED e2sim

DestroyHeader(s) ==
  /\ objects[s] # Absent /\ objects[s].content.kind = "header"
  /\ memory' = Freed(memory, objects[s].buffer)
  /\ objects' = [objects EXCEPT ![s] = Absent]
  /\ UNCHANGED <<e2sim, stray>>

-----------------------------------------------------------------------------
(* Function descriptions *)

\* l: the four lists of metrics the report styles are cloned from, and the
\* containers of the clones, which the styles copy by value.  Nothing frees
\* them: they are not of the descriptor, and no object points to them.
CreateKpmDescription(s, nbType, a, l) ==
  /\ objects[s] = Absent
  /\ a # l
  /\ memory.blocks[a] = Unused /\ memory.blocks[l] = Unused
  /\ memory' = Filled(Filled(memory, l, Lists), a, KpmDescription(nbType))
  /\ objects' = [objects EXCEPT ![s] = Owns(KpmDescription(nbType), a)]
  /\ UNCHANGED <<e2sim, stray>>

\* ~OctetString frees its structure, not the octets.
NameReleased(m, n) == m

\* Mutant: the descriptor is deleted without freeing its contents.
DescriptorKept(m, n) == m

\* ASN_STRUCT_FREE_CONTENTS_ONLY frees the octets of the short name, which the
\* descriptor shares with an OctetString that is gone by then.
DescriptorFreed(m, n) == Freed(m, n)

CreateRcDescription(s, a, n) ==
  /\ objects[s] = Absent
  /\ a # n
  /\ memory.blocks[a] = Unused /\ memory.blocks[n] = Unused
  /\ memory' = DescriptorFreed(
                 NameReleased(Filled(Filled(memory, n, Name), a, RcDescription), n), n)
  /\ objects' = [objects EXCEPT ![s] = Owns(RcDescription, a)]
  /\ UNCHANGED <<e2sim, stray>>

\* Mutant: a virtual destructor runs those of both classes.
DescriptionFreedTwice(m, p) == Freed(Freed(m, p), p)

\* The reference count deletes a FunctionDescription whatever was created: of
\* the two destructors that free m_buffer one runs.
DescriptionFreed(m, p) == Freed(m, p)

DestroyDescription(s) ==
  /\ objects[s] # Absent /\ objects[s].content.kind # "header"
  /\ memory' = DescriptionFreed(memory, objects[s].buffer)
  /\ objects' = [objects EXCEPT ![s] = Absent]
  /\ UNCHANGED <<e2sim, stray>>

\* RegisterFunctionDescToE2Sm: E2Sim is given a copy of its own, each time.
Register(f, s, a) ==
  /\ objects[s] # Absent /\ objects[s].content \in Description
  /\ memory.blocks[a] = Unused
  /\ memory' = Filled(memory, a, memory.blocks[objects[s].buffer])
  /\ e2sim' = [e2sim EXCEPT ![f] = @ \cup {Owns(objects[s].content, a)}]
  /\ UNCHANGED <<objects, stray>>

-----------------------------------------------------------------------------

Next ==
  /\ ~memory.crashed
  /\ \/ \E s \in Slot, a \in Address :
          \/ \E t \in Time, found \in Address \cup {Null, Wild} : CreateHeader(s, found, t, a)
          \/ \E n \in NodeType, l \in Address : CreateKpmDescription(s, n, a, l)
          \/ \E n \in Address : CreateRcDescription(s, a, n)
          \/ \E f \in Function : Register(f, s, a)
     \/ \E s \in Slot : DestroyHeader(s) \/ DestroyDescription(s)

Spec == Init /\ [][Next]_vars

-----------------------------------------------------------------------------
(* Properties *)

TypeOK ==
  /\ memory \in [blocks : [Address -> Content \cup {Unused, Lists}], crashed : BOOLEAN]
  /\ objects \in [Slot -> Owner \cup {Absent}]
  /\ DOMAIN e2sim = Function /\ \A f \in Function : e2sim[f] \subseteq Owner
  /\ stray \in BOOLEAN

Owners == {<<"object", s>> : s \in {x \in Slot : objects[x] # Absent}}
            \cup UNION {{<<"e2sim", f, copy>> : copy \in e2sim[f]} : f \in Function}
Of(o) == IF o[1] = "object" THEN objects[o[2]] ELSE o[3]

EveryOwnerHasItsBlock ==
  /\ ~memory.crashed
  /\ \A o \in Owners : memory.blocks[Of(o).buffer] = Of(o).content
  /\ \A o, p \in Owners : Of(o).buffer = Of(p).buffer => o = p

\* As long as no header was made over a left-over pointer, every header, every
\* description and every copy of E2Sim has a block of its own that still holds
\* what was encoded, whatever was destroyed since; nothing is freed twice
\* (function-description.cc:43, kpm-function-description.cc:175).
BuffersAreOwned == ~stray => EveryOwnerHasItsBlock

\* No encoded buffer outlives its owner, and no short name its descriptor: what
\* nobody owns is, at most, lists of a KPM description
\* (ric-control-function-description.cc:47-48, 85-95).
BuffersAreFreed ==
  ~stray =>
    {a \in Address : memory.blocks[a] \notin {Unused, Lists}} = {Of(o).buffer : o \in Owners}

Elements(sequence) == {sequence[k] : k \in DOMAIN sequence}

\* Bins 3 to 6 of a cell, advertised under names no helper reports
\* (kpm-function-description.cc:140-143).
Misnamed(report) == IF report.message = 1 THEN Elements(McsBins(<<3, 4, 5, 6>>)) ELSE {}

\* What E2Sim advertises for a node of type 0 or 1 has, in a style with the
\* message format of the report, the metrics of every report the helpers of the
\* node make, those misnamed apart; for any other node type no style has any.
ReportsAreAdvertised ==
  ~stray => \A f \in Function : \A copy \in e2sim[f] :
    LET described == memory.blocks[copy.buffer]
        styles == Elements(ReportStyles(described.nbType))
    IN  described.kind = "kpm" =>
          IF described.nbType \in {0, 1}
          THEN \A r \in Reports(described.nbType) : \E style \in styles :
                 /\ style.message = r.message
                 /\ Elements(r.metrics) \ Elements(style.metrics) \subseteq Misnamed(r)
          ELSE \A style \in styles : style.metrics = <<>>

-----------------------------------------------------------------------------
(* What the source says of itself *)

\* kpm-indication.cc:243, "free an existing buffer, if there is one (for
\* re-encoding)": what Encode frees is a buffer of this header, so everything
\* else keeps its own.
HeaderFreesItsOwn == EveryOwnerHasItsBlock
===========================================================================
