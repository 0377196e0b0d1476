----------------------- MODULE EncodedBuffers_proofs -----------------------
(***************************************************************************)
(* Who owns the encoded buffers, for every heap, and any number of objects *)
(* and functions: type correctness first, then the ownership of the blocks *)
(* as one inductive invariant, from which both safety properties follow,   *)
(* last what the descriptions in them advertise, metric by metric.         *)
(***************************************************************************)
EXTENDS EncodedBuffers, TLAPS

\* A heap that may hold, for a moment, the short name of a description.
Heap == [blocks : [Address -> Content \cup {Unused, Lists, Name}], crashed : BOOLEAN]
Memory == [blocks : [Address -> Content \cup {Unused, Lists}], crashed : BOOLEAN]

\* What a block may hold is told apart by its kind.
LEMMA Contents ==
  /\ Unused \notin Content /\ Name \notin Content /\ Lists \notin Content
  /\ Name # Unused /\ Lists # Unused
  /\ \A c \in Content, a \in Address :
       Owns(c, a) \in Owner /\ Owns(c, a) # Absent
         /\ Owns(c, a).content = c /\ Owns(c, a).buffer = a
  /\ Absent \notin Owner
  /\ \A t \in Time : Header(t) \in Content /\ Header(t) \notin Description
  /\ \A n \in NodeType : KpmDescription(n) \in Description
  /\ RcDescription \in Description /\ Description \subseteq Content
<1>1. \A c \in Content : c.kind \in {"header", "kpm", "rc"}
  BY DEF Content, Description, Header, KpmDescription, RcDescription
<1>2. Unused.kind = "unused" /\ Name.kind = "name" /\ Lists.kind = "lists"
  BY DEF Unused, Name, Lists
<1>3. /\ Unused \notin Content /\ Name \notin Content /\ Lists \notin Content
      /\ Name # Unused /\ Lists # Unused
  BY <1>1, <1>2
<1>4. /\ \A c \in Content, a \in Address :
           Owns(c, a) \in Owner /\ Owns(c, a) # Absent
             /\ Owns(c, a).content = c /\ Owns(c, a).buffer = a
      /\ Absent \notin Owner
  BY DEF Owner, Owns, Absent
<1>5. \A t \in Time : Header(t) \in Content /\ Header(t) \notin Description
  BY DEF Content, Description, Header, KpmDescription, RcDescription
<1>6. /\ \A n \in NodeType : KpmDescription(n) \in Description
      /\ RcDescription \in Description /\ Description \subseteq Content
  BY DEF Content, Description
<1> QED BY <1>3, <1>4, <1>5, <1>6

\* Filling and freeing touch one block.
LEMMA FilledHeap ==
  ASSUME NEW m \in Heap, NEW a \in Address, NEW c \in Content \cup {Unused, Lists, Name}
  PROVE  /\ Filled(m, a, c) \in Heap
         /\ Filled(m, a, c).blocks = [m.blocks EXCEPT ![a] = c]
         /\ Filled(m, a, c).crashed = m.crashed
  BY DEF Filled, Heap

LEMMA FilledMemory ==
  ASSUME NEW m \in Memory, NEW a \in Address, NEW c \in Content \cup {Unused, Lists}
  PROVE  /\ Filled(m, a, c) \in Memory
         /\ Filled(m, a, c).blocks = [m.blocks EXCEPT ![a] = c]
         /\ Filled(m, a, c).crashed = m.crashed
  BY DEF Filled, Memory

LEMMA FreedMemory ==
  ASSUME NEW m \in Memory, NEW p
  PROVE  /\ Freed(m, p) \in Memory
         /\ p \in Address /\ m.blocks[p] # Unused =>
              Freed(m, p) = Filled(m, p, Unused)
<1>1. p \in Address => Filled(m, p, Unused) \in Memory
  BY FilledMemory
<1>2. [m EXCEPT !.crashed = TRUE] \in Memory
  BY DEF Memory
<1> QED BY <1>1, <1>2, PointersDiffer DEF Freed

\* The short name is gone when the description is made: what is left is the
\* description in its block.
LEMMA RcMemory ==
  ASSUME NEW m \in Memory, NEW a \in Address, NEW n \in Address, a # n,
         m.blocks[n] = Unused
  PROVE  DescriptorFreed(NameReleased(Filled(Filled(m, n, Name), a, RcDescription), n), n)
           = Filled(m, a, RcDescription)
<1> DEFINE named == Filled(m, n, Name)
           both == Filled(named, a, RcDescription)
<1>1. m \in Heap
  BY DEF Heap, Memory
<1>2. /\ named \in Heap /\ named.blocks = [m.blocks EXCEPT ![n] = Name]
      /\ named.crashed = m.crashed
  BY <1>1, FilledHeap
<1>3. RcDescription \in Content
  BY Contents
<1> HIDE DEF named
<1>4. /\ both \in Heap /\ both.blocks = [named.blocks EXCEPT ![a] = RcDescription]
      /\ both.crashed = m.crashed
  BY <1>2, <1>3, FilledHeap
<1>5. both.blocks[n] # Unused
  BY <1>2, <1>4, Contents DEF Heap
<1> HIDE DEF both
<1>6. Freed(both, n) = Filled(both, n, Unused)
  BY <1>5, PointersDiffer DEF Freed
<1>7. /\ Filled(both, n, Unused) \in Heap
      /\ Filled(both, n, Unused).blocks = [both.blocks EXCEPT ![n] = Unused]
      /\ Filled(both, n, Unused).crashed = both.crashed
  <2> DEFINE S == Content \cup {Unused, Lists, Name}
  <2>1. both \in Heap /\ Unused \in S
    BY <1>4
  <2>2. ASSUME NEW c \in S
        PROVE  /\ Filled(both, n, c) \in Heap
               /\ Filled(both, n, c).blocks = [both.blocks EXCEPT ![n] = c]
               /\ Filled(both, n, c).crashed = both.crashed
    BY <2>1, FilledHeap
  <2> HIDE DEF S
  <2> QED BY <2>1, <2>2
<1>8. /\ Filled(m, a, RcDescription) \in Heap
      /\ Filled(m, a, RcDescription).blocks = [m.blocks EXCEPT ![a] = RcDescription]
      /\ Filled(m, a, RcDescription).crashed = m.crashed
  BY <1>1, <1>3, FilledHeap
<1>9. [both.blocks EXCEPT ![n] = Unused] = [m.blocks EXCEPT ![a] = RcDescription]
  BY <1>2, <1>4 DEF Memory
<1>10. Filled(both, n, Unused) = Filled(m, a, RcDescription)
  BY <1>4, <1>7, <1>8, <1>9 DEF Heap
<1> QED BY <1>6, <1>10 DEF DescriptorFreed, NameReleased, both, named

\* A KPM description is in its block, and the lists in theirs.
LEMMA KpmMemory ==
  ASSUME NEW m \in Memory, NEW a \in Address, NEW l \in Address, a # l, NEW c \in Content
  PROVE  LET both == Filled(Filled(m, l, Lists), a, c)
         IN  /\ both \in Memory /\ both.crashed = m.crashed
             /\ both.blocks = [m.blocks EXCEPT ![l] = Lists, ![a] = c]
<1> DEFINE one == Filled(m, l, Lists)
<1>1. one \in Memory /\ one.blocks = [m.blocks EXCEPT ![l] = Lists] /\ one.crashed = m.crashed
  BY FilledMemory
<1> HIDE DEF one
<1>2. /\ Filled(one, a, c) \in Memory
      /\ Filled(one, a, c).blocks = [one.blocks EXCEPT ![a] = c]
      /\ Filled(one, a, c).crashed = one.crashed
  BY <1>1, FilledMemory
<1> QED BY <1>1, <1>2 DEF one

-----------------------------------------------------------------------------
(* Types *)

LEMMA TypeInit == Init => TypeOK
<1> SUFFICES ASSUME Init PROVE TypeOK
  OBVIOUS
<1> DEFINE clear == [a \in Address |-> Unused]
<1>1. clear \in [Address -> Content \cup {Unused, Lists}]
  OBVIOUS
<1> HIDE DEF clear
<1>2. memory \in [blocks : [Address -> Content \cup {Unused, Lists}], crashed : BOOLEAN]
  <2>1. memory = [blocks |-> clear, crashed |-> FALSE]
    BY DEF Init, clear
  <2> QED BY <1>1, <2>1
<1> QED BY <1>2 DEF Init, TypeOK

\* Every action leaves well-formed objects, a header made over any left-over
\* pointer included.
LEMMA TypeStep == TypeOK /\ [Next]_vars => TypeOK'
<1> SUFFICES ASSUME TypeOK, [Next]_vars PROVE TypeOK'
  OBVIOUS
<1>1. memory \in Memory
  BY DEF TypeOK, Memory
<1>2. ASSUME NEW s \in Slot, NEW a \in Address, NEW t \in Time,
             NEW found \in Address \cup {Null, Wild}, CreateHeader(s, found, t, a)
      PROVE  TypeOK'
  <2> DEFINE m == Freed(memory, found)
  <2>1. m \in Memory
    BY <1>1, FreedMemory
  <2>2. Header(t) \in Content /\ Owns(Header(t), a) \in Owner
    BY Contents
  <2> HIDE DEF m
  <2>3. Filled(m, a, Header(t)) \in Memory
    BY <2>1, <2>2, FilledMemory
  <2>4. memory' \in Memory
    BY <1>2, <2>1, <2>3 DEF CreateHeader, HeaderEncoded, m
  <2>5. objects' \in [Slot -> Owner \cup {Absent}]
    BY <1>2, <2>2 DEF CreateHeader, TypeOK
  <2>6. stray' \in BOOLEAN /\ e2sim' = e2sim
    BY <1>2 DEF CreateHeader, TypeOK
  <2> QED BY <2>4, <2>5, <2>6 DEF TypeOK, Memory
<1>3. ASSUME NEW s \in Slot, NEW a \in Address, NEW n \in NodeType, NEW l \in Address,
             CreateKpmDescription(s, n, a, l)
      PROVE  TypeOK'
  <2>1. KpmDescription(n) \in Content /\ Owns(KpmDescription(n), a) \in Owner
    BY Contents
  <2>2. memory' \in Memory
    BY <1>1, <1>3, <2>1, KpmMemory DEF CreateKpmDescription
  <2>3. objects' \in [Slot -> Owner \cup {Absent}]
    BY <1>3, <2>1 DEF CreateKpmDescription, TypeOK
  <2> QED BY <1>3, <2>2, <2>3 DEF TypeOK, Memory, CreateKpmDescription
<1>4. ASSUME NEW s \in Slot, NEW a \in Address, NEW n \in Address, CreateRcDescription(s, a, n)
      PROVE  TypeOK'
  <2>1. RcDescription \in Content /\ Owns(RcDescription, a) \in Owner
    BY Contents
  <2>2. memory' = Filled(memory, a, RcDescription)
    BY <1>1, <1>4, RcMemory DEF CreateRcDescription
  <2>3. memory' \in Memory
    BY <1>1, <2>1, <2>2, FilledMemory
  <2>4. objects' \in [Slot -> Owner \cup {Absent}]
    BY <1>4, <2>1 DEF CreateRcDescription, TypeOK
  <2> QED BY <1>4, <2>3, <2>4 DEF TypeOK, Memory, CreateRcDescription
<1>5. ASSUME NEW s \in Slot, NEW a \in Address, NEW f \in Function, Register(f, s, a)
      PROVE  TypeOK'
  <2>1. objects[s] \in Owner
    BY <1>5 DEF Register, TypeOK
  <2>2. objects[s].content \in Content /\ objects[s].buffer \in Address
    BY <2>1 DEF Owner
  <2>3. memory.blocks[objects[s].buffer] \in Content \cup {Unused, Lists}
    BY <1>1, <2>2 DEF Memory
  <2>4. memory' \in Memory
    BY <1>1, <1>5, <2>3, FilledMemory DEF Register
  <2>5. Owns(objects[s].content, a) \in Owner
    BY <2>2, Contents
  <2>6. DOMAIN e2sim' = Function /\ \A g \in Function : e2sim'[g] \subseteq Owner
    BY <1>5, <2>5 DEF Register, TypeOK
  <2> QED BY <1>5, <2>4, <2>6 DEF TypeOK, Memory, Register
<1>6. ASSUME NEW s \in Slot, DestroyHeader(s) \/ DestroyDescription(s) PROVE TypeOK'
  <2>1. memory' = Freed(memory, objects[s].buffer)
    BY <1>6 DEF DestroyHeader, DestroyDescription, DescriptionFreed
  <2>2. memory' \in Memory
    BY <1>1, <2>1, FreedMemory
  <2>3. objects' \in [Slot -> Owner \cup {Absent}] /\ UNCHANGED <<e2sim, stray>>
    BY <1>6 DEF DestroyHeader, DestroyDescription, TypeOK
  <2> QED BY <2>2, <2>3 DEF TypeOK, Memory
<1>7. CASE UNCHANGED vars
  BY <1>7 DEF TypeOK, vars
<1> QED BY <1>2, <1>3, <1>4, <1>5, <1>6, <1>7 DEF Next

\* The heap, the objects and the copies of E2Sim keep their types
\* (kpm-indication.cc:156, kpm-function-description.cc:162, oran-interface.cc:79).
THEOREM TypeCorrect == Spec => []TypeOK
  BY TypeInit, TypeStep, PTL DEF Spec

-----------------------------------------------------------------------------
(* Ownership *)

Kept == {a \in Address : memory.blocks[a] \notin {Unused, Lists}}

\* Every owner has its block, and every block but those of lost lists an owner:
\* without the second half a block just allocated might be that of an owner gone.
Owned == EveryOwnerHasItsBlock /\ Kept = {Of(o).buffer : o \in Owners}

\* The buffers of owners are blocks, and none of them is unused.
LEMMA OwnersHoldBlocks ==
  ASSUME TypeOK, Owned, NEW o \in Owners
  PROVE  /\ Of(o) \in Owner /\ Of(o).buffer \in Address /\ Of(o).content \in Content
         /\ memory.blocks[Of(o).buffer] = Of(o).content
         /\ memory.blocks[Of(o).buffer] # Unused
<1>1. Of(o) \in Owner
  BY DEF Owners, Of, TypeOK
<1>2. memory.blocks[Of(o).buffer] = Of(o).content
  BY DEF Owned, EveryOwnerHasItsBlock
<1> QED BY <1>1, <1>2, Contents DEF Owner

\* One block more has contents, and perhaps another the lists.
Given(a, c) ==
  /\ memory.blocks[a] = Unused /\ memory'.blocks[a] = c
  /\ \A b \in Address \ {a} :
       \/ memory'.blocks[b] = memory.blocks[b]
       \/ memory.blocks[b] = Unused /\ memory'.blocks[b] = Lists
  /\ memory'.crashed = memory.crashed

LEMMA FilledIsGiven ==
  ASSUME TypeOK, NEW a \in Address, NEW c \in Content, memory.blocks[a] = Unused,
         memory' = Filled(memory, a, c)
  PROVE  Given(a, c)
<1>1. memory \in Memory
  BY DEF TypeOK, Memory
<1>2. memory'.blocks = [memory.blocks EXCEPT ![a] = c] /\ memory'.crashed = memory.crashed
  BY <1>1, FilledMemory
<1> QED BY <1>1, <1>2 DEF Given, Memory

\* One owner more, with a block that was unused: x is its name, and the other
\* owners are as they were.
LEMMA OneMore ==
  ASSUME TypeOK, Owned, NEW a \in Address, NEW c \in Content, NEW x,
         Given(a, c),
         x \notin Owners, Owners' = Owners \cup {x},
         \A o \in Owners : Of(o)' = Of(o),
         Of(x)' = Owns(c, a)
  PROVE  Owned'
<1>1. \A o \in Owners : /\ Of(o).buffer \in Address /\ Of(o).buffer # a
                        /\ memory.blocks[Of(o).buffer] = Of(o).content
                        /\ memory.blocks[Of(o).buffer] # Unused
  BY OwnersHoldBlocks DEF Given
<1>2. Of(x)'.content = c /\ Of(x)'.buffer = a /\ c \notin {Unused, Lists}
  BY Contents
<1>3. ~memory'.crashed
  BY DEF Owned, EveryOwnerHasItsBlock, Given
<1>4. \A o \in Owners' : memory'.blocks[Of(o)'.buffer] = Of(o)'.content
  BY <1>1, <1>2 DEF Given
<1>5. ASSUME NEW o \in Owners', NEW p \in Owners', Of(o)'.buffer = Of(p)'.buffer
      PROVE  o = p
  <2>1. o \in Owners /\ p \in Owners => Of(o).buffer = Of(p).buffer
    BY <1>5
  <2> QED BY <1>1, <1>2, <1>5, <2>1 DEF Owned, EveryOwnerHasItsBlock
<1>6. Kept' = Kept \cup {a}
  BY <1>2 DEF Kept, Given
<1>7. {Of(o)'.buffer : o \in Owners'} = {Of(o).buffer : o \in Owners} \cup {a}
  BY <1>2
<1>8. Kept' = {Of(o)'.buffer : o \in Owners'}
  BY <1>6, <1>7 DEF Owned
<1> QED BY <1>3, <1>4, <1>5, <1>8 DEF Owned, EveryOwnerHasItsBlock

\* One owner fewer, and its block freed.
LEMMA OneFewer ==
  ASSUME TypeOK, Owned, NEW x \in Owners,
         memory' = Freed(memory, Of(x).buffer),
         Owners' = Owners \ {x},
         \A o \in Owners \ {x} : Of(o)' = Of(o)
  PROVE  Owned'
<1> DEFINE a == Of(x).buffer
<1>1. a \in Address /\ memory.blocks[a] # Unused
  BY OwnersHoldBlocks
<1>2. memory \in Memory
  BY DEF TypeOK, Memory
<1>3. memory' = Filled(memory, a, Unused)
  BY <1>1, <1>2, FreedMemory
<1>4. memory'.blocks = [memory.blocks EXCEPT ![a] = Unused] /\ memory'.crashed = memory.crashed
  BY <1>1, <1>2, <1>3, FilledMemory
<1>5. \A o \in Owners \ {x} : Of(o).buffer \in Address /\ Of(o).buffer # a
                             /\ memory.blocks[Of(o).buffer] = Of(o).content
  BY OwnersHoldBlocks DEF Owned, EveryOwnerHasItsBlock
<1>6. ~memory'.crashed
  BY <1>4 DEF Owned, EveryOwnerHasItsBlock
<1>7. \A o \in Owners' : memory'.blocks[Of(o)'.buffer] = Of(o)'.content
  BY <1>2, <1>4, <1>5 DEF Memory
<1>8. ASSUME NEW o \in Owners', NEW p \in Owners', Of(o)'.buffer = Of(p)'.buffer
      PROVE  o = p
  <2>1. Of(o).buffer = Of(p).buffer
    BY <1>8
  <2> QED BY <1>8, <2>1 DEF Owned, EveryOwnerHasItsBlock
<1>9. Kept' = Kept \ {a}
  BY <1>2, <1>4 DEF Kept, Memory
<1>10. {Of(o)'.buffer : o \in Owners'} = {Of(o).buffer : o \in Owners} \ {a}
  BY <1>5
<1>11. Kept' = {Of(o)'.buffer : o \in Owners'}
  BY <1>9, <1>10 DEF Owned
<1> QED BY <1>6, <1>7, <1>8, <1>11 DEF Owned, EveryOwnerHasItsBlock

\* A slot filled is one owner more, whatever is made there.
LEMMA ObjectMade ==
  ASSUME TypeOK, Owned, NEW s \in Slot, NEW a \in Address, NEW c \in Content,
         objects[s] = Absent, Given(a, c),
         objects' = [objects EXCEPT ![s] = Owns(c, a)], e2sim' = e2sim
  PROVE  Owned'
<1> DEFINE x == <<"object", s>>
<1>1. x \notin Owners
  BY DEF Owners
<1>2. objects'[s] = Owns(c, a) /\ \A y \in Slot \ {s} : objects'[y] = objects[y]
  BY DEF TypeOK
<1>3. Owners' = Owners \cup {x}
  BY <1>2, Contents DEF Owners
<1>4. \A o \in Owners : Of(o)' = Of(o)
  BY <1>2 DEF Owners, Of
<1>5. Of(x)' = Owns(c, a)
  BY <1>2 DEF Of
<1> QED BY <1>1, <1>3, <1>4, <1>5, OneMore

\* The copy E2Sim takes holds what the object's block holds.
LEMMA Copied ==
  ASSUME TypeOK, Owned, NEW f \in Function, NEW s \in Slot, NEW a \in Address,
         Register(f, s, a)
  PROVE  Owned'
<1> DEFINE o == <<"object", s>>
<1>1. o \in Owners /\ Of(o) = objects[s]
  BY DEF Register, Owners, Of
<1>2. PICK c \in Content : c = objects[s].content /\ c = memory.blocks[objects[s].buffer]
  BY <1>1, OwnersHoldBlocks
<1> DEFINE copy == Owns(c, a)
           x == <<"e2sim", f, copy>>
<1>3. memory' = Filled(memory, a, c) /\ memory.blocks[a] = Unused
  BY <1>2 DEF Register
<1>4. copy.buffer = a
  BY Contents
<1>5. /\ objects' = objects /\ DOMAIN e2sim' = Function
      /\ e2sim'[f] = e2sim[f] \cup {copy}
      /\ \A y \in Function \ {f} : e2sim'[y] = e2sim[y]
  BY <1>2 DEF TypeOK, Register
<1> HIDE DEF copy
<1>6. Given(a, c)
  BY <1>3, FilledIsGiven
<1>7. Of(x) = copy /\ Of(x)' = copy
  BY DEF Of
<1>8. x \notin Owners
  BY <1>3, <1>4, <1>7, OwnersHoldBlocks
<1>9. Owners' = Owners \cup {x}
  BY <1>5 DEF Owners
<1>10. \A p \in Owners : Of(p)' = Of(p)
  BY <1>5 DEF Owners, Of
<1> QED BY <1>6, <1>7, <1>8, <1>9, <1>10, OneMore DEF copy

\* A destructor frees the block of its object, and the slot is empty.
LEMMA Destroyed ==
  ASSUME TypeOK, Owned, NEW s \in Slot, DestroyHeader(s) \/ DestroyDescription(s)
  PROVE  Owned'
<1> DEFINE x == <<"object", s>>
<1>1. x \in Owners /\ Of(x) = objects[s]
  BY DEF DestroyHeader, DestroyDescription, Owners, Of
<1>2. memory' = Freed(memory, Of(x).buffer)
  BY <1>1 DEF DestroyHeader, DestroyDescription, DescriptionFreed
<1>3. objects'[s] = Absent /\ \A y \in Slot \ {s} : objects'[y] = objects[y]
  BY DEF DestroyHeader, DestroyDescription, TypeOK
<1>4. e2sim' = e2sim
  BY DEF DestroyHeader, DestroyDescription
<1>5. Owners' = Owners \ {x}
  BY <1>3, <1>4 DEF Owners
<1>6. \A o \in Owners \ {x} : Of(o)' = Of(o)
  BY <1>3, <1>4 DEF Owners, Of
<1> QED BY <1>1, <1>2, <1>5, <1>6, OneFewer

\* At first there are no owners and no blocks.
LEMMA OwnedInit == Init => Owned
<1> SUFFICES ASSUME Init PROVE Owned
  OBVIOUS
<1>1. \A a \in Address : memory.blocks[a] = Unused
  BY DEF Init
<1>2. ~memory.crashed
  BY DEF Init
<1>3. Owners = {} /\ Kept = {}
  BY <1>1 DEF Init, Owners, Kept
<1> QED BY <1>2, <1>3 DEF Owned, EveryOwnerHasItsBlock

\* Only a header made over a left-over pointer breaks the ownership, and that
\* is remembered.
LEMMA OwnedStep == TypeOK /\ (~stray => Owned) /\ [Next]_vars => (~stray => Owned)'
<1> SUFFICES ASSUME TypeOK, ~stray => Owned, [Next]_vars, ~stray' PROVE Owned'
  OBVIOUS
<1>1. ASSUME NEW s \in Slot, NEW a \in Address, NEW t \in Time,
             NEW found \in Address \cup {Null, Wild}, CreateHeader(s, found, t, a)
      PROVE  Owned'
  <2>1. found = Null /\ Owned
    BY <1>1 DEF CreateHeader
  <2>2. HeaderEncoded(found) = memory /\ ~memory.crashed
    BY <2>1 DEF HeaderEncoded, Freed, Owned, EveryOwnerHasItsBlock
  <2>3. /\ objects[s] = Absent /\ memory.blocks[a] = Unused
        /\ memory' = Filled(memory, a, Header(t))
        /\ objects' = [objects EXCEPT ![s] = Owns(Header(t), a)] /\ e2sim' = e2sim
    BY <1>1, <2>2 DEF CreateHeader
  <2>4. Header(t) \in Content
    BY Contents
  <2>5. Given(a, Header(t))
    BY <2>3, <2>4, FilledIsGiven
  <2> QED BY <2>1, <2>3, <2>4, <2>5, ObjectMade
<1>2. ASSUME NEW s \in Slot, NEW a \in Address, NEW n \in NodeType, NEW l \in Address,
             CreateKpmDescription(s, n, a, l)
      PROVE  Owned'
  <2>1. KpmDescription(n) \in Content
    BY Contents
  <2>2. /\ objects[s] = Absent /\ a # l
        /\ memory.blocks[a] = Unused /\ memory.blocks[l] = Unused
        /\ memory' = Filled(Filled(memory, l, Lists), a, KpmDescription(n))
        /\ objects' = [objects EXCEPT ![s] = Owns(KpmDescription(n), a)]
        /\ e2sim' = e2sim /\ stray' = stray
    BY <1>2 DEF CreateKpmDescription
  <2>3. memory \in Memory
    BY DEF TypeOK, Memory
  <2>4. /\ memory'.blocks = [memory.blocks EXCEPT ![l] = Lists, ![a] = KpmDescription(n)]
        /\ memory'.crashed = memory.crashed
    BY <2>1, <2>2, <2>3, KpmMemory
  <2>5. Given(a, KpmDescription(n))
    BY <2>2, <2>3, <2>4 DEF Given, Memory
  <2> QED BY <2>1, <2>2, <2>5, Contents, ObjectMade
<1>3. ASSUME NEW s \in Slot, NEW a \in Address, NEW n \in Address, CreateRcDescription(s, a, n)
      PROVE  Owned'
  <2>1. memory \in Memory /\ RcDescription \in Content
    BY Contents DEF TypeOK, Memory
  <2>2. memory' = Filled(memory, a, RcDescription)
    BY <1>3, <2>1, RcMemory DEF CreateRcDescription
  <2>3. /\ objects[s] = Absent /\ memory.blocks[a] = Unused
        /\ objects' = [objects EXCEPT ![s] = Owns(RcDescription, a)]
        /\ e2sim' = e2sim /\ stray' = stray
    BY <1>3 DEF CreateRcDescription
  <2>4. Given(a, RcDescription)
    BY <2>1, <2>2, <2>3, FilledIsGiven
  <2> QED BY <2>1, <2>3, <2>4, ObjectMade
<1>4. ASSUME NEW s \in Slot, NEW a \in Address, NEW f \in Function, Register(f, s, a)
      PROVE  Owned'
  <2>1. Owned
    BY <1>4 DEF Register
  <2> QED BY <1>4, <2>1, Copied
<1>5. ASSUME NEW s \in Slot, DestroyHeader(s) \/ DestroyDescription(s) PROVE Owned'
  <2>1. Owned
    BY <1>5 DEF DestroyHeader, DestroyDescription
  <2> QED BY <1>5, <2>1, Destroyed
<1>6. CASE UNCHANGED vars
  <2>1. Owned /\ UNCHANGED <<memory, objects, e2sim>>
    BY <1>6 DEF vars
  <2> QED BY <2>1 DEF Owned, EveryOwnerHasItsBlock, Kept, Owners, Of
<1> QED BY <1>1, <1>2, <1>3, <1>4, <1>5, <1>6 DEF Next

\* Unless a header is made over a left-over pointer, every header, description
\* and copy has a block of its own that holds what was encoded
\* (kpm-indication.cc:243, kpm-function-description.cc:175, function-description.cc:43).
THEOREM BuffersStayOwned == Spec => []BuffersAreOwned
<1>1. (~stray => Owned) => BuffersAreOwned
  BY DEF Owned, BuffersAreOwned
<1> QED BY <1>1, TypeInit, TypeStep, OwnedInit, OwnedStep, PTL DEF Spec

\* Nor does an encoded buffer outlive its owner, or a short name its descriptor:
\* whatever is allocated otherwise is lists of a KPM description
\* (kpm-function-description.cc:162-179, ric-control-function-description.cc:43-50).
THEOREM BuffersAreAlwaysFreed == Spec => []BuffersAreFreed
<1>1. (~stray => Owned) => BuffersAreFreed
  BY DEF Owned, Kept, BuffersAreFreed
<1> QED BY <1>1, TypeInit, TypeStep, OwnedInit, OwnedStep, PTL DEF Spec

-----------------------------------------------------------------------------
(* What the descriptions advertise *)

\* A sequence, of whatever elements.
IsList(s) == \E n \in Nat : s = [k \in 1..n |-> s[k]]

\* A list is a sequence over any set that has its elements.
LEMMA ListsAreSequences ==
  ASSUME NEW s, NEW S, IsList(s), Elements(s) \subseteq S
  PROVE  s \in Seq(S)
<1>1. PICK n \in Nat : s = [k \in 1..n |-> s[k]]
  BY DEF IsList
<1>2. \A k \in 1..n : s[k] \in S
  BY <1>1 DEF Elements
<1>3. [k \in 1..n |-> s[k]] \in Seq(S)
  BY <1>2
<1> QED BY <1>1, <1>3

\* And any sequence is a list.
LEMMA SequencesAreLists == ASSUME NEW S, NEW s \in Seq(S) PROVE IsList(s)
<1>1. Len(s) \in Nat /\ s = [k \in 1..Len(s) |-> s[k]]
  OBVIOUS
<1> QED BY <1>1 DEF IsList

\* A list and another behind it have the elements of both.
LEMMA Concatenated ==
  ASSUME NEW s, NEW t, IsList(s), IsList(t)
  PROVE  IsList(s \o t) /\ Elements(s \o t) = Elements(s) \cup Elements(t)
<1> DEFINE S == Elements(s) \cup Elements(t)
<1>1. s \in Seq(S) /\ t \in Seq(S)
  BY ListsAreSequences
<1> HIDE DEF S
<1>2. /\ s \o t \in Seq(S) /\ Len(s \o t) = Len(s) + Len(t)
      /\ \A k \in 1..(Len(s) + Len(t)) :
           (s \o t)[k] = IF k <= Len(s) THEN s[k] ELSE t[k - Len(s)]
  BY <1>1
<1>3. ASSUME NEW k \in DOMAIN s PROVE s[k] \in Elements(s \o t)
  <2>1. k \in DOMAIN (s \o t) /\ (s \o t)[k] = s[k]
    BY <1>1, <1>2, <1>3
  <2> QED BY <2>1 DEF Elements
<1>4. ASSUME NEW k \in DOMAIN t PROVE t[k] \in Elements(s \o t)
  <2>1. Len(s) + k \in DOMAIN (s \o t) /\ (s \o t)[Len(s) + k] = t[k]
    BY <1>1, <1>2, <1>4
  <2> QED BY <2>1 DEF Elements
<1>5. Elements(s \o t) \subseteq Elements(s) \cup Elements(t)
  BY <1>1, <1>2 DEF Elements
<1>6. IsList(s \o t)
  BY <1>2, SequencesAreLists
<1> QED BY <1>3, <1>4, <1>5, <1>6 DEF Elements

\* Every element of the list s is in the list t or in the set X.
Within(s, t, X) == IsList(s) /\ IsList(t) /\ Elements(s) \subseteq Elements(t) \cup X

\* It stays so when a list is put behind each, or behind t only.
LEMMA WithinExtended ==
  ASSUME NEW s, NEW t, NEW X, Within(s, t, X)
  PROVE  /\ \A u, v : Within(u, v, X) => Within(s \o u, t \o v, X)
         /\ \A u : IsList(u) => Within(s \o u, t \o u, X) /\ Within(s, t \o u, X)
<1>1. ASSUME NEW u, NEW v, Within(u, v, X) PROVE Within(s \o u, t \o v, X)
  <2>1. IsList(s \o u) /\ Elements(s \o u) = Elements(s) \cup Elements(u)
    BY <1>1, Concatenated DEF Within
  <2>2. IsList(t \o v) /\ Elements(t \o v) = Elements(t) \cup Elements(v)
    BY <1>1, Concatenated DEF Within
  <2> QED BY <1>1, <2>1, <2>2 DEF Within
<1>2. ASSUME NEW u, IsList(u) PROVE Within(s, t \o u, X) /\ Within(u, u, X)
  <2>1. IsList(t \o u) /\ Elements(t \o u) = Elements(t) \cup Elements(u)
    BY <1>2, Concatenated DEF Within
  <2> QED BY <1>2, <2>1 DEF Within
<1> QED BY <1>1, <1>2

\* Metrics that stand alone, and members of a family.
LEMMA MetricLists ==
  ASSUME NEW F, IsList(F)
  PROVE  /\ IsList(Metrics(F)) /\ Elements(Metrics(F)) = {Alone(F[k]) : k \in DOMAIN F}
         /\ \A family : /\ IsList(Members(family, F))
                        /\ Elements(Members(family, F)) = {<<family, F[k]>> : k \in DOMAIN F}
<1>1. PICK n \in Nat : DOMAIN F = 1..n
  BY DEF IsList
<1>2. IsList(Metrics(F)) /\ Elements(Metrics(F)) = {Alone(F[k]) : k \in DOMAIN F}
  BY <1>1 DEF Metrics, Elements, IsList
<1>3. ASSUME NEW family
      PROVE  /\ IsList(Members(family, F))
             /\ Elements(Members(family, F)) = {<<family, F[k]>> : k \in DOMAIN F}
  BY <1>1 DEF Members, Elements, IsList
<1> QED BY <1>2, <1>3

\* A list whose names are all in another adds no metric to it.
LEMMA FewerMetrics ==
  ASSUME NEW F, NEW G, IsList(F), IsList(G),
         \A k \in DOMAIN F : \E j \in DOMAIN G : F[k] = G[j]
  PROVE  Elements(Metrics(F)) \subseteq Elements(Metrics(G))
<1>1. /\ Elements(Metrics(F)) = {Alone(F[k]) : k \in DOMAIN F}
      /\ Elements(Metrics(G)) = {Alone(G[k]) : k \in DOMAIN G}
  BY MetricLists
<1>2. {Alone(F[k]) : k \in DOMAIN F} \subseteq {Alone(G[k]) : k \in DOMAIN G}
  OBVIOUS
<1> QED BY <1>1, <1>2

\* The bins of the modulation scheme: those a cell reports beyond 1 and 2 are
\* the four misnamed ones.
LEMMA BinsOfCells ==
  /\ IsList(McsBins(<<1, 2, 3, 4, 5, 6>>)) /\ IsList(McsBins(<<1, 2>>))
  /\ IsList(WideBins(<<3, 4, 5, 6>>)) /\ IsList(SinrBins)
  /\ Elements(McsBins(<<1, 2, 3, 4, 5, 6>>))
       \subseteq Elements(McsBins(<<1, 2>>)) \cup Elements(McsBins(<<3, 4, 5, 6>>))
<1> DEFINE all == <<1, 2, 3, 4, 5, 6>>
           low == <<1, 2>>
           high == <<3, 4, 5, 6>>
           sinr == <<34, 46, 58, 70, 82, 94, 127>>
<1>1. IsList(all) /\ DOMAIN all = 1..6
  BY DEF IsList
<1>2. IsList(low) /\ DOMAIN low = 1..2
  BY DEF IsList
<1>3. IsList(high) /\ DOMAIN high = 1..4
  BY DEF IsList
<1>4. IsList(sinr)
  BY DEF IsList
<1>5. \A k \in 1..6 : (\E j \in 1..2 : all[k] = low[j]) \/ (\E j \in 1..4 : all[k] = high[j])
  OBVIOUS
<1> HIDE DEF all, low, high, sinr
<1>6. IsList(McsBins(all)) /\ Elements(McsBins(all)) = {<<"CARR.PDSCHMCSDist.Bin", all[k]>> : k \in 1..6}
  BY <1>1, MetricLists DEF McsBins
<1>7. IsList(McsBins(low)) /\ Elements(McsBins(low)) = {<<"CARR.PDSCHMCSDist.Bin", low[k]>> : k \in 1..2}
  BY <1>2, MetricLists DEF McsBins
<1>8. IsList(McsBins(high)) /\ Elements(McsBins(high)) = {<<"CARR.PDSCHMCSDist.Bin", high[k]>> : k \in 1..4}
  BY <1>3, MetricLists DEF McsBins
<1>9. IsList(WideBins(high))
  BY <1>3, MetricLists DEF WideBins
<1>10. IsList(SinrBins)
  BY <1>4, MetricLists DEF SinrBins, sinr
<1>11. Elements(McsBins(all)) \subseteq Elements(McsBins(low)) \cup Elements(McsBins(high))
  BY <1>5, <1>6, <1>7, <1>8
<1> QED BY <1>6, <1>7, <1>9, <1>10, <1>11 DEF all, low, high

\* The metrics of the cells a UE measures are lists.
LEMMA CellsAround == IsList(Neighbours) /\ IsList(ServingCell)
<1>1. IsList(Neighbours)
  BY DEF Neighbours, IsList
<1>2. IsList(ServingCell)
  <2> DEFINE cell == <<"HO.SrcCellQual.RS-SINR", "HO.SrcCellQual.RS-SINR-Converted", "HO.SrcCellID">>
  <2>1. IsList(cell)
    BY DEF IsList
  <2> HIDE DEF cell
  <2>2. IsList(Metrics(cell))
    BY <2>1, MetricLists
  <2> QED BY <2>2 DEF ServingCell, cell
<1> QED BY <1>1, <1>2

\* The metrics at the head of a UE's report are advertised in another order,
\* those behind them as they are reported.
LEMMA NrUeIsAdvertised == Elements(NrUeReport) \subseteq Elements(NrUeAdvertised)
<1> DEFINE reported ==
             <<"UEID", "DRB.EstabSucc.5QI", "DRB.RelActNbr.5QI", "QosFlow.PdcpPduVolumeDL_Filter",
               "DRB.PdcpPduNbrDl.Qos", "TB.TotNbrDl.1", "TB.TotNbrDlInitial",
               "TB.TotNbrDlInitial.Qpsk", "TB.TotNbrDlInitial.16Qam", "TB.TotNbrDlInitial.64Qam",
               "TB.ErrTotalNbrDl.1", "QosFlow.PdcpPduVolumeDL_Filter", "RRU.PrbUsedDl">>
           advertised ==
             <<"UEID", "DRB.EstabSucc.5QI", "DRB.RelActNbr.5QI", "QosFlow.PdcpPduVolumeDL_Filter",
               "DRB.PdcpPduNbrDl.Qos", "TB.TotNbrDl.1", "DRB.RelActNbr.5QI",
               "TB.TotNbrDlInitial", "TB.TotNbrDlInitial.Qpsk", "TB.TotNbrDlInitial.16Qam",
               "TB.TotNbrDlInitial.64Qam", "TB.ErrTotalNbrDl.1",
               "QosFlow.PdcpPduVolumeDL_Filter", "RRU.PrbUsedDl">>
           size == <<"DRB.BufferSize.Qos">>
           rate == <<"DRB.UEThpDl">>
           bins == McsBins(<<1, 2, 3, 4, 5, 6>>)
           Whole(s) == s \o bins \o SinrBins \o Metrics(size)
                         \o ServingCell \o Neighbours \o Metrics(rate)
<1>1. IsList(reported) /\ DOMAIN reported = 1..13
  <2>1. DOMAIN reported = 1..13
    OBVIOUS
  <2>2. reported = [k \in DOMAIN reported |-> reported[k]]
    OBVIOUS
  <2> HIDE DEF reported
  <2> QED BY <2>1, <2>2 DEF IsList
<1>2. IsList(advertised) /\ DOMAIN advertised = 1..14
  <2>1. DOMAIN advertised = 1..14
    OBVIOUS
  <2>2. advertised = [k \in DOMAIN advertised |-> advertised[k]]
    OBVIOUS
  <2> HIDE DEF advertised
  <2> QED BY <2>1, <2>2 DEF IsList
<1>3. IsList(size) /\ IsList(rate)
  BY DEF IsList
<1>4. \A k \in 1..13 : \E j \in 1..14 : reported[k] = advertised[j]
  <2>1. \A k \in 1..13 : reported[k] = advertised[IF k <= 6 THEN k ELSE k + 1]
    OBVIOUS
  <2>2. \A k \in 1..13 : (IF k <= 6 THEN k ELSE k + 1) \in 1..14
    OBVIOUS
  <2> QED BY <2>1, <2>2
<1>5. NrUeReport = Whole(Metrics(reported)) /\ NrUeAdvertised = Whole(Metrics(advertised))
  BY DEF NrUeReport, NrUeAdvertised
<1>6. IsList(bins)
  BY BinsOfCells
<1> HIDE DEF reported, advertised, size, rate, bins
<1>7. Elements(Metrics(reported)) \subseteq Elements(Metrics(advertised))
  BY <1>1, <1>2, <1>4, FewerMetrics
<1>8. IsList(Metrics(reported)) /\ IsList(Metrics(advertised))
  BY <1>1, <1>2, MetricLists
<1>9. IsList(Metrics(size)) /\ IsList(Metrics(rate))
  BY <1>3, MetricLists
<1>10. Within(Metrics(reported), Metrics(advertised), {})
  BY <1>7, <1>8 DEF Within
<1>11. Within(Whole(Metrics(reported)), Whole(Metrics(advertised)), {})
  BY <1>6, <1>9, <1>10, BinsOfCells, CellsAround, WithinExtended
<1> QED BY <1>5, <1>11 DEF Within

\* What a cell reports is advertised but for the misnamed bins, with or without
\* its transport blocks.
LEMMA NrCellIsAdvertised ==
  ASSUME NEW reduced \in BOOLEAN
  PROVE  Elements(NrCellReport(reduced))
           \subseteq Elements(NrCellAdvertised) \cup Elements(McsBins(<<3, 4, 5, 6>>))
<1> DEFINE cell == <<"cellID">>
           blocks == <<"TB.TotNbrDl.1", "TB.TotNbrDlInitial">>
           shared == <<"numActiveUes", "TB.TotNbrDlInitial.Qpsk", "TB.TotNbrDlInitial.16Qam",
                       "TB.TotNbrDlInitial.64Qam", "RRU.PrbUsedDl", "TB.ErrTotalNbrDl.1",
                       "QosFlow.PdcpPduVolumeDL_Filter">>
           advertised ==
             <<"cellID", "TB.TotNbrDl.1", "TB.TotNbrDlInitial", "numActiveUes",
               "TB.TotNbrDlInitial.Qpsk", "TB.TotNbrDlInitial.16Qam", "TB.TotNbrDlInitial.64Qam",
               "RRU.PrbUsedDl", "TB.ErrTotalNbrDl.1", "QosFlow.PdcpPduVolumeDL_Filter">>
           usage == <<"DRB.BufferSize.Qos", "DRB.MeanActiveUeDl", "PRB.AvailableDl",
                      "RRB.AvailablePUl", "DRB.QCI", "RRB.UseageDl", "RRB.UseageUl">>
           optional == IF reduced THEN <<>> ELSE Metrics(blocks)
           head == Metrics(cell) \o optional \o Metrics(shared)
           all == McsBins(<<1, 2, 3, 4, 5, 6>>)
           low == McsBins(<<1, 2>>)
           wide == WideBins(<<3, 4, 5, 6>>)
           X == Elements(McsBins(<<3, 4, 5, 6>>))
<1>1. /\ IsList(cell) /\ DOMAIN cell = 1..1
      /\ IsList(blocks) /\ DOMAIN blocks = 1..2
  BY DEF IsList
<1>2. IsList(shared) /\ DOMAIN shared = 1..7
  BY DEF IsList
<1>3. IsList(advertised) /\ DOMAIN advertised = 1..10
  BY DEF IsList
<1>4. IsList(usage)
  BY DEF IsList
<1>5. IsList(<<>>) /\ Elements(<<>>) = {}
  BY DEF IsList, Elements
<1>6. /\ \A k \in 1..1 : cell[k] = advertised[k]
      /\ \A k \in 1..2 : blocks[k] = advertised[k + 1]
      /\ \A k \in 1..7 : shared[k] = advertised[k + 3]
  OBVIOUS
<1>7. /\ NrCellReport(reduced) = head \o all \o SinrBins \o Metrics(usage)
      /\ NrCellAdvertised = Metrics(advertised) \o low \o wide \o SinrBins \o Metrics(usage)
  BY DEF NrCellReport, NrCellAdvertised
<1>8. IsList(wide) /\ Within(all, low, X)
  BY BinsOfCells DEF Within
<1> HIDE DEF cell, blocks, shared, advertised, usage, all, low, wide, X
<1>9. /\ Elements(Metrics(cell)) \subseteq Elements(Metrics(advertised))
      /\ Elements(Metrics(blocks)) \subseteq Elements(Metrics(advertised))
      /\ Elements(Metrics(shared)) \subseteq Elements(Metrics(advertised))
  <2>1. \A k \in 1..1 : k \in 1..10
    OBVIOUS
  <2>2. \A k \in 1..2 : k + 1 \in 1..10
    OBVIOUS
  <2>3. \A k \in 1..7 : k + 3 \in 1..10
    OBVIOUS
  <2>4. Elements(Metrics(cell)) \subseteq Elements(Metrics(advertised))
    BY <1>1, <1>3, <1>6, <2>1, FewerMetrics
  <2>5. Elements(Metrics(blocks)) \subseteq Elements(Metrics(advertised))
    BY <1>1, <1>3, <1>6, <2>2, FewerMetrics
  <2>6. Elements(Metrics(shared)) \subseteq Elements(Metrics(advertised))
    BY <1>2, <1>3, <1>6, <2>3, FewerMetrics
  <2> QED BY <2>4, <2>5, <2>6
<1>10. /\ IsList(Metrics(cell)) /\ IsList(Metrics(blocks)) /\ IsList(Metrics(shared))
       /\ IsList(Metrics(advertised)) /\ IsList(Metrics(usage))
  BY <1>1, <1>2, <1>3, <1>4, MetricLists
<1>11. IsList(optional) /\ Elements(optional) \subseteq Elements(Metrics(advertised))
  BY <1>5, <1>9, <1>10
<1> HIDE DEF optional
<1>12. Within(head, Metrics(advertised), X)
  <2>1. /\ IsList(Metrics(cell) \o optional)
        /\ Elements(Metrics(cell) \o optional) = Elements(Metrics(cell)) \cup Elements(optional)
    BY <1>10, <1>11, Concatenated
  <2>2. /\ IsList(head)
        /\ Elements(head) = Elements(Metrics(cell) \o optional) \cup Elements(Metrics(shared))
    BY <1>10, <2>1, Concatenated
  <2> QED BY <1>9, <1>10, <1>11, <2>1, <2>2 DEF Within
<1> HIDE DEF head
<1>13. Within(head \o all, Metrics(advertised) \o low \o wide, X)
  BY <1>8, <1>12, WithinExtended
<1>14. Within(head \o all \o SinrBins \o Metrics(usage),
              Metrics(advertised) \o low \o wide \o SinrBins \o Metrics(usage), X)
  BY <1>10, <1>13, BinsOfCells, WithinExtended
<1> QED BY <1>7, <1>14 DEF Within, X

\* The styles are those of cells and of UEs, one of each in the format of its
\* reports.
LEMMA StylesOfNode ==
  ASSUME NEW n
  PROVE  LET styles == Elements(ReportStyles(n))
         IN  /\ [message |-> 1, metrics |-> MetricsOf(TRUE, n)] \in styles
             /\ [message |-> 2, metrics |-> MetricsOf(FALSE, n)] \in styles
             /\ \A style \in styles : style.metrics \in {MetricsOf(TRUE, n), MetricsOf(FALSE, n)}
<1> DEFINE cell == MetricsOf(TRUE, n)
           ue == MetricsOf(FALSE, n)
           all == ReportStyles(n)
<1> HIDE DEF cell, ue
<1>1. /\ DOMAIN all = 1..5
      /\ all[1] = [message |-> 1, metrics |-> cell]
      /\ all[2] = [message |-> 1, metrics |-> ue]
      /\ all[3] = [message |-> 2, metrics |-> ue]
      /\ all[4] = [message |-> 3, metrics |-> cell]
      /\ all[5] = [message |-> 3, metrics |-> ue]
  BY DEF ReportStyles, cell, ue
<1> HIDE DEF all
<1>2. \A k \in 1..5 : all[k].metrics \in {cell, ue}
  <2>1. \A k \in 1..5 : k = 1 \/ k = 2 \/ k = 3 \/ k = 4 \/ k = 5
    OBVIOUS
  <2> QED BY <1>1, <2>1
<1>3. all[1] \in Elements(all) /\ all[3] \in Elements(all)
  BY <1>1 DEF Elements
<1>4. \A style \in Elements(all) : style.metrics \in {cell, ue}
  BY <1>1, <1>2 DEF Elements
<1> QED BY <1>1, <1>3, <1>4 DEF all, cell, ue

\* Each report has its style, whatever the node type.
LEMMA EveryReportHasItsStyle ==
  ASSUME NEW n
  PROVE  LET styles == Elements(ReportStyles(n))
         IN  IF n \in {0, 1}
             THEN \A r \in Reports(n) : \E style \in styles :
                    /\ style.message = r.message
                    /\ Elements(r.metrics) \ Elements(style.metrics) \subseteq Misnamed(r)
             ELSE \A style \in styles : style.metrics = <<>>
<1> DEFINE styles == Elements(ReportStyles(n))
           Suits(style, r) ==
             /\ style.message = r.message
             /\ Elements(r.metrics) \ Elements(style.metrics) \subseteq Misnamed(r)
           Style(format, metrics) == [message |-> format, metrics |-> metrics]
<1>1. /\ Style(1, MetricsOf(TRUE, n)) \in styles /\ Style(2, MetricsOf(FALSE, n)) \in styles
      /\ \A style \in styles : style.metrics \in {MetricsOf(TRUE, n), MetricsOf(FALSE, n)}
  BY StylesOfNode
<1>2. \A format, s, t : Elements(s) \ Elements(t) \subseteq Misnamed(Style(format, s))
                          => Suits(Style(format, t), Style(format, s))
  OBVIOUS
<1>3. \A s : Suits(Style(1, s), Style(1, s)) /\ Suits(Style(2, s), Style(2, s))
  BY <1>2
<1>4. Suits(Style(2, NrUeAdvertised), Style(2, NrUeReport))
  BY <1>2, NrUeIsAdvertised
<1>5. ASSUME NEW reduced \in BOOLEAN
      PROVE  Suits(Style(1, NrCellAdvertised), Style(1, NrCellReport(reduced)))
  <2>1. Misnamed(Style(1, NrCellReport(reduced))) = Elements(McsBins(<<3, 4, 5, 6>>))
    BY DEF Misnamed
  <2> QED BY <1>2, <2>1, NrCellIsAdvertised
<1>6. n = 0 => \A r \in Reports(n) : \E style \in styles : Suits(style, r)
  <2> SUFFICES ASSUME n = 0 PROVE \A r \in Reports(n) : \E style \in styles : Suits(style, r)
    OBVIOUS
  <2>1. MetricsOf(TRUE, n) = LteCellReport /\ MetricsOf(FALSE, n) = LteUeReport
    BY DEF MetricsOf, LteCellReport, LteUeReport, LteCellAdvertised, LteUeAdvertised
  <2>2. Reports(n) = {Style(1, LteCellReport), Style(2, LteUeReport)}
    BY DEF Reports
  <2> HIDE DEF styles, Suits, Style
  <2> QED BY <1>1, <1>3, <2>1, <2>2
<1>7. n = 1 => \A r \in Reports(n) : \E style \in styles : Suits(style, r)
  <2> SUFFICES ASSUME n = 1 PROVE \A r \in Reports(n) : \E style \in styles : Suits(style, r)
    OBVIOUS
  <2>1. MetricsOf(TRUE, n) = NrCellAdvertised /\ MetricsOf(FALSE, n) = NrUeAdvertised
    BY DEF MetricsOf
  <2>2. Reports(n) = {Style(1, NrCellReport(FALSE)), Style(1, NrCellReport(TRUE)),
                      Style(2, NrUeReport)}
    BY DEF Reports
  <2> HIDE DEF styles, Suits, Style
  <2> QED BY <1>1, <1>4, <1>5, <2>1, <2>2
<1>8. n \notin {0, 1} => \A style \in styles : style.metrics = <<>>
  <2>1. n \notin {0, 1} => MetricsOf(TRUE, n) = <<>> /\ MetricsOf(FALSE, n) = <<>>
    BY DEF MetricsOf
  <2> HIDE DEF styles
  <2> QED BY <1>1, <2>1
<1> HIDE DEF styles
<1>9. IF n \in {0, 1}
      THEN \A r \in Reports(n) : \E style \in styles : Suits(style, r)
      ELSE \A style \in styles : style.metrics = <<>>
  <2> HIDE DEF Suits
  <2> QED BY <1>6, <1>7, <1>8
<1> QED BY <1>9 DEF styles

\* Whatever E2Sim advertises for a node has the metrics of the reports its
\* helpers make, the four misnamed bins apart, and for a type that is neither
\* LTE nor NR it has none (kpm-function-description.cc:43-158, 368-391).
THEOREM ReportsAreDescribed == Spec => []ReportsAreAdvertised
<1>1. ASSUME NEW f \in Function, NEW copy \in e2sim[f],
             memory.blocks[copy.buffer].kind = "kpm"
      PROVE  LET n == memory.blocks[copy.buffer].nbType
                 styles == Elements(ReportStyles(n))
             IN  IF n \in {0, 1}
                 THEN \A r \in Reports(n) : \E style \in styles :
                        /\ style.message = r.message
                        /\ Elements(r.metrics) \ Elements(style.metrics) \subseteq Misnamed(r)
                 ELSE \A style \in styles : style.metrics = <<>>
  BY EveryReportHasItsStyle
<1>2. ReportsAreAdvertised
  BY <1>1 DEF ReportsAreAdvertised
<1> QED BY <1>2, PTL DEF Spec
=============================================================================
