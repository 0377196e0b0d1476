# ns-O-RAN E2 termination: TLA+ specifications and proofs

This directory specifies the module `oran-interface` of this repository: the E2
termination that ns-3 base stations run inside the simulator, the messages it
builds for the near-RT RIC and the messages it decodes.  The modules are
translated from `src/model` and `src/helper`; TLC checks them on small
instances and TLAPS proves what is marked as proved for every instance.

    tlc -workers 2 -config MCRicSubscription.cfg MCRicSubscription
    tlapm RicSubscription_proofs.tla

## The system

| part | source | state | operations |
|------|--------|-------|------------|
| RIC subscription handler | `oran-interface.cc:152-290` | locals of one call: ids, accepted and rejected actions | `ProcessRicSubscriptionRequest` |
| E2 termination | `oran-interface.cc` | `m_e2sim`, RIC address, E2Sim's tables | `Register*ToE2Sm`, `Start`/`DoStart`, `SendE2Message`, destructor |
| RIC control message | `ric-control-message.cc` | five members decoded from IEs, two of them raw pointers | constructor, `GetTargetCell`, `GetUeId` |
| Indication helpers | `helper/*.cc` | `m_msgValues`: a cell list, a set of UE lists | `Add...Item`, `CreateIndicationMessage` |
| KPM indication message | `kpm-indication.cc:330-950` | `m_buffer`, `m_size`; item trees owned by lists | constructor (fill, encode), destructor |
| KPM indication header | `kpm-indication.cc:156-328` | `m_buffer`, `m_size` | constructor, destructor |
| Function descriptions | `*function-description.cc` | `m_buffer`, freed by base and derived class; the metrics they advertise | constructor, destructor |
| Bit strings, octet strings | `asn1c-types.cc`, `conversions.c`, `conversions.h`, `kpm-indication.h` | bytes | conversions |
| E2Sim, asn1c codecs, RIC | not in this repository | callback tables, SCTP association | external |

How they interact.  The ns-3 thread creates function descriptions, registers
them and their callbacks with `E2Sim` (which keeps a copy of the encoded
buffer), then calls `Start`, which detaches a thread running E2Sim's loop on a
raw `this`.  On that thread E2Sim calls the callback of the function a message
names.  The subscription callback runs `ProcessRicSubscriptionRequest` (which
sends the response), keeps the ids it returns, builds a KPM header and message
and sends an indication with those ids; later reports leave from the ns-3
thread through `SendE2Message`.  The control callback constructs a
`RicControlMessage` from the PDU and the application asks its getters for a UE
and a target cell.  The conversions are called by whoever fills an ASN.1
structure.

What is hard here:

* *Message order is the peer's.*  IEs and actions come in any order and number;
  nested loops reuse the name `i`; the last id written is the one returned.
* *Two threads, one association.*  The response must precede every indication;
  a function is advertised before its callback exists; the destructor deletes
  `E2Sim` under a detached thread.
* *Ownership by convention.*  A Format 1 report borrows items of a list it does
  not own, two commented-out frees guard against double frees, a default list
  dies at the end of a `case`; two destructors of one hierarchy free the same
  buffer, and only a non-virtual one is reached; a descriptor outlives the
  string whose octets it shares.
* *Members no constructor initialises*: `m_buffer`, the two Format 1 pointers.
* *Failure half way*: an IE that does not decode, a message left unencoded.
* *Bytes with two orders*: writers and readers of fields of the same size in
  opposite byte orders, shifts by unused bits, a sign-extending shift, nibbles.
* *Memory nobody frees*: lists of metrics are cloned by value and left behind.

`PROJECT.json` lists each of these hazards at its line, with the property that
would catch it, or the reason why none states it.

What makes each part correct: the handler answers each request once, completely
and consistently with what it returns; the termination sends the response
first, loses nothing and serves every request; the control message takes each
member from the last IE that can supply it and never from a freed one; the
indication reports every UE once, in columns that belong to one UE, from lists
that are alive and have one owner; every encoded buffer has one owner, dies with
it and holds what was encoded until then; what is advertised covers what is
reported; a conversion and its inverse are inverse, and a function of
`conversions.c` that accepts what another wrote reads the same integer.  Of the
macros the last does not hold (see the facts below).

## Modules

| module | models | checked by |
|--------|--------|-----------|
| `SubscriptionRequest` | IEs, actions, ids, what a request asks for; no behaviour | used by the next three |
| `SubscriptionAnswer` | abstract: receive, answer once, return | refinement `AnswersSpec` |
| `RicSubscription` | `ProcessRicSubscriptionRequest`, a step per loop iteration | `subscription` |
| `E2Termination` | ns-3 thread, e2sim thread, E2Sim's tables, RIC; composes `RicSubscription` | `termination` |
| `RicControl` | decode loop, getters, uninitialised members | `control` |
| `KpmIndication` | helpers, measurement lists, message construction, encoding, release | `indication` |
| `FunctionDescriptions` | metrics advertised per style and node type, metrics the helpers report; no behaviour | used by the next |
| `EncodedBuffers` | headers, descriptions, E2Sim's copies and the heap blocks they own | `buffers` |
| `BitStrings` | bit fields and integers as sets of bit positions, layouts, readers | used by `Conversions` |
| `Identities` | PLMNs as digits, `plmn_t`, the text in `NrCellId` | used by `Conversions` |
| `Conversions` | a string written once, then read by any reader that accepts it | `conversions` |
| `..._proofs` | theorems about the module named | TLAPS |
| `SubscriptionAnswer_proofs` | the refinement, and what the handler returns | TLAPS |

Every definition of a module that stands for code is mapped to its lines in
`PROJECT.json` (`map`).  Operators whose comment starts with "Mutant" are
variants of the definition below them with a plausible bug in it; nothing uses
them, and each makes the property it belongs to fail.

### RicSubscription

`pc`, `request`, `i` (outer loop), `j` (inner loop, also called `i` in the
code), `foundAction`, `params` (the four `req...` locals), the two id vectors,
`sent` (responses given to E2Sim) and `result` (the returned struct) are the
frame of one call.  `acceptAt` is a history variable: where each accepted
action stood.  `ReadRequestId`, `ReadRanFunctionId`, `SkipIE`, `EnterDetails`
are the cases of the switch; `AcceptAction` and `RejectAction` the branches of
the inner loop; `RejectAction` records the id too and leaves `actionIdsReject`
alone, since the `push_back` there is commented out.  The event trigger is
copied and ignored by the code and is not part of the model.  Ids are members
of sets whose widths are assumed (`IdWidths`): the E2AP ranges fit the fields.

`SubscriptionAnswer` says the same without loops: one atomic `Answer` that
echoes the last RIC Request ID and accepts the first acceptable action of every
Details IE.  The mapping sets `phase` from `pc`; the loops are stutters.

### E2Termination

The module extends `RicSubscription`, whose variables are `handlerVars` and whose
specification is `HandlerSpec`; `RunHandler` takes one of its steps and publishes
what it sent and returned.  Registration is two steps, as in the code: first the description,
then the callback (`RegisterKpmCallbackToE2Sm` and `RegisterSmCallbackToE2Sm`).
E2Sim is external: it advertises what has a description when its loop starts
and looks the callback up per message.  The RIC sends only to advertised
functions, names each subscription by one or more RIC Request IDs that no other
carries (`RequestIds`; the code answers under the last) and sends each message
once.  A function may be registered again, while the loop runs too, but belongs
to one service model.  The callback is the one of
`examples/oran-interface-example.cc`.  After
`Destroy` the thread's next step is undefined (`RunOnDeleted`).

### RicControl

A member's value is the index of the IE it was copied from, `Null` or `Wild`.
`Construct` chooses null or wild for the two pointers, as an allocation may.
Decoders are external: each IE carries its outcome (`error`, `format1`, `other`,
`empty`).  A getter through a wild pointer returns anything or faults.  The
parameter tree is walked through first items only, as in the code; `Item` is the
set of parameters, structures of other items included, so that trees have any
depth without a recursive definition.

### KpmIndication

A `MeasurementItemList` lives at an address from allocation to the release of
its last `Ptr`; items live and die with it.  The set of UE lists is iterated in
address order because it is a `std::set<Ptr<...>>`: `Kth` is the pointer with
k - 1 smaller ones.  A record is a pair of a
list's data and a position, or `Undefined` (out of bounds, freed memory).
`CreateIndicationMessage` is `Construct` plus one step per phase of
`FillAndEncodeKpmIndicationMessage`; the block of the cell case ends in
`LeaveFormat1`, before `Encode`, and takes its local `Ptr` along.  Lists come
with any number of items in `Counts`: the helpers always add a fixed, positive
number, but `KpmIndicationMessageValues` is public and the code has branches for
empty lists.  The number of items abstracts names and values.  The unencoded
trees are leaked by the code and are not modelled as owned blocks.

### EncodedBuffers and FunctionDescriptions

The heap is a function from addresses to what was encoded there; freeing what is
no allocated block crashes, the mildest of what may follow.  An object in a slot
is a header or a description with its `m_buffer`.  `CreateHeader` chooses the
pointer the memory held (`found`): the null check of `Encode` frees it whenever
it is not null; the history variable `stray` records that it was not.
`CreateRcDescription` follows the octets of the short name through the
`OctetString` that makes them, the descriptor that shares them and the
`ASN_STRUCT_FREE_CONTENTS_ONLY` that frees them.  `DestroyDescription` runs the
one destructor the reference count reaches, that of the base class: it is not
virtual.  `Register` gives E2Sim a copy each time it is called, for the same
function too; the model keeps all of them, since what E2Sim does with an earlier
one is not in this repository.  `CreateKpmDescription` fills a second block with
`Lists`: the four source lists of metrics and the containers of their clones,
which the report styles copy by value (`kpm-function-description.cc:274-385`).
Nothing frees them, so every KPM description leaks one such block, and
`BuffersAreFreed` says that this is all that is left behind: whatever else is
allocated is the buffer of a live object or of a copy of E2Sim.  The rest of the
tree a description is encoded from is data of `KpmDescription` and
`RcDescription`, not blocks.  Nothing is claimed once a header has freed a
left-over pointer (`stray`).  `FunctionDescriptions` holds the
lists of metric names of `kpm-function-description.cc`, the style of each node
type, and the names the LTE and NR helpers report.

### BitStrings, Identities, Conversions

An integer is the set of positions of its one bits, a string the set of the
addresses of its one bits: every conversion but the decimal ones only moves bits,
so a writer and a reader are a layout each.  `Fields` are the pairs of
`conversions.c` with the size, unused bits and limits their assertions name;
`Macros` and `Readers` are the macros of `conversions.h`; `SignExtended` is the
shift of a promoted byte in `cp_nr_cell_id_to_u64`.  `Conversions` writes one
string, then lets every reader whose assertion accepts it read it; `ToPlmnT` and
`FromPlmnT` exchange a PLMN with a `plmn_t`.  `FillUeID` draws what the code draws,
passes it to the writers and copies the identity into eight bytes
(`Overflow` for a longer one).  `FieldRoundTrip` speaks of every pair of a writer
and a reader of `conversions.c`, `IntegersReadBySize` of the macros for integers
in octets, also where one reads what another wrote.  The constants are what the C types and the
standard allow: cells are 16-bit integers (`CellsAreShorts`), country and network
codes have up to three digits and two where the length says so
(`PlmnsAreNumbers`), identities are octet strings (`IdsAreOctets`).

## Runs

| run | shows | bounds |
|-----|-------|--------|
| `subscription` | everything above about the handler, its termination and its refinement | up to 3 IEs drawn from every kind, Details IEs with up to 3 actions, 2 ids |
| `termination` | response before indication, one response per request, drops only in the registration window, every request served | 2 functions registered any number of times, up to 2 requests of 3 shapes (accepted action alone, last, or followed by another), control messages, fewer than 3 reports from ns-3 |
| `control` | members, pointers and getters after any prefix of the IEs | every list of up to 3 of twelve IEs, every parameter tree of depth 4 with second items that must not count |
| `indication` | ownership, report contents, when a message is encoded | 3 addresses, 2 values, lists of 0 to 2 items |
| `conversions` | what is read back, by whom, and what the encoder carries | every single bit, every prefix and alternating patterns of 64 bits; cells on both sides of every length of text and of the wrap; PLMNs of every digit pattern; ids of 1, 5, 8 and 9 octets |
| `buffers` | no buffer freed twice, shared or outliving its owner; advertised metrics cover reports | 2 objects, 1 function, 6 blocks (symmetric), node types 0, 1 and an unknown one; nothing after a stray free (`CONSTRAINT Defined`) |
| `returned_action`, `late_registration_drop`, `missing_format1`, `bit_string_cell`, `default_cell_list`, `header_buffer` | one divergence each, listed under "findings" | as above |

Why the bounds are enough.  Two Details IEs with an IE on either side, and three
actions of three types, reach every order of accept and reject before and after
the first acceptable action and across a second Details IE.  Two requests and
two reports are enough for a response to be overtaken.  A member is taken from
one IE and disturbed by at most two more; three IEs hold all of that.  Three
addresses hold two UEs and a cell, or three UEs of which two are equal.  A layout
moves each bit on its own, so integers with one bit show where it goes and
the others what it does to its neighbours.  Two objects and a copy of E2Sim are
enough for one to free what another holds; the six blocks hold those three, a
second copy, the block a short name takes while a description is made and the
lists of a KPM description, or fewer owners and the lists of up to three.
`Defined` cuts the states after a header freed a left-over pointer, of which the
invariants claim nothing but `TypeOK`, which is proved there too; the run
`header_buffer`, which has no constraint, shows what follows.

`CHECK_DEADLOCK FALSE` is said for the termination (the application may stop
calling, or be gone), for indications (a crashed program takes no step) and for
buffers (so too).

Fairness.  `RicSubscription` has weak fairness on `Step`: the handler is
straight-line code with two bounded loops and never waits.  `E2Termination` has
weak fairness on the e2sim thread: the operating system runs it.  Nothing is
assumed of the ns-3 thread or the RIC.  `SubscriptionServed` is therefore
conditional: the request is answered and reported on, was dropped, or the
termination has been deleted.  The other modules state safety only.

## Findings

1. *Returned action* (`oran-interface.cc:251`).  The id returned is that of the
   last action of the request, not of the accepted one; indications then carry
   an id the response did not accept.  `SoleActionReturned` and
   `IndicationUsesAcceptedAction` state the cases where the two agree.
2. *Late registration* (`oran-interface.cc:94`).  A request can arrive between
   the two halves of a registration; `DropsOnlyMidRegistration` shows it is the
   only way to lose one.
3. *Format 1 check* (`ric-control-message.cc:355`) tests a pointer that was
   never initialised.
4. *Bit-string cells* (`ric-control-message.cc:518`): the nibble taken is padding.
5. *Default cell list* (`kpm-indication.cc:909`): its items are freed at the
   `break`, before `Encode` reads them.
6. *Header buffer* (`kpm-indication.cc:244`): `Encode` frees the pointer the
   memory of the new header happened to hold.

Facts the models state without a run of their own:

* The list of rejected actions of a response is always empty: the `push_back` at
  `oran-interface.cc:253` is commented out, while the comment at line 241 says
  that all other actions are rejected.  Actions of type insert are accepted too,
  which lines 157 and 240 do not say.
* An unknown target type becomes `FORMART3`, which has no case, so nothing is
  encoded; the log at `indication-message-helper.cc:71` says it defaults to UE.
* `kpm-function-description.cc:367` numbers node types 1 (NR) and 2 (eNB); the
  code uses 1 for gNB and 0 for LTE.  Type 2 advertises no metric at all.
* Bins 3 to 6 of the cell metrics are advertised under names with full-width
  digits (`kpm-function-description.cc:140-143`), which no helper reports.
* 36-bit cell identities with bit 31 come back sign-extended from
  `cp_nr_cell_id_to_u64`; the lowest octet of an IPv4 address is replaced by its
  bits 4 to 11; a PLMN that goes through a `plmn_t` once has digits exchanged,
  though no two come out alike (`PlmnsStayDistinct`); `OCTET_STRING_TO_INT16`
  accepts three octets and drops the last, so it misreads a tracking area;
  cells from 4096 on repeat in `NrCellId`.  Nothing in `src/` but `FillUeID`,
  which has no caller either, calls the conversions.
* The functions and the macros of the macro eNB identity use opposite byte orders
  for strings of the same size and unused bits.  `BIT_STRING_TO_MACRO_ENB_ID`
  (`conversions.h:530-535`) asserts only the four unused bits, accepts what
  `cp_macro_enb_id_to_bit_string` wrote and reads another identity, and so does
  `cp_macro_enb_id_to_u32` with a string of the macro.  The behaviours of
  `Conversions` contain both misreadings; `FieldRoundTrip` speaks of the functions
  alone and `MacroRoundTrip` of a macro and its own reader, because no line claims
  that the families agree.
* `FillUeID` copies an identity of more than eight characters past its integer.
* Every KPM description leaks four lists of metrics and the containers of their
  clones (`kpm-function-description.cc:274-385`); no line says otherwise.

## Proofs

All theorems hold for every value of the constants.  Their assumptions are the
named `ASSUME`s of the modules, which TLC evaluates on the runs.  Every invariant
of the passing runs is a theorem, and so is every action property.

`RicSubscription_proofs` assumes `IdWidths` and `RequestsAreIELists` (requests
are finite lists of IEs).

* `TypeCorrect`: `HandlerSpec => []HandlerTypeOK`, which is inductive: besides
  types it says that inside the inner loop `i` is at a Details IE and `j` at most
  one past its actions.
* `AnswerCorrect`: `HandlerSpec => [](AcceptedIsFirst /\ AnswerIsComplete /\
  ReturnMatchesResponse)`.  None of the three is inductive: what has been
  accepted must be related to how far the loops are.  `AnswerInv` does that:
  between IEs the covered Details IEs are exactly the accepting ones behind
  `i`; inside one, `foundAction` says whether an acceptable action lies behind
  `j`.  TLC checks `AnswerInv` in the run `subscription`.

`SubscriptionAnswer_proofs` adds `Collected`: part way through the loops,
`params` holds the ids of the last IE behind `i` that has them and the id of the
last action passed.  With `AnswerInv` it gives `LastActionReturned`,
`OnlyActionReturned` and `HandlerAnswers`: the initial states and every step of
the handler are those of `SubscriptionAnswer`, or stutters.  The theorem is the
safety part of the refinement; `SendResponse` is the step that maps to `Answer`,
and what it sends is what `Answer` allows because `Collected` covers the whole
request by then.

`E2Termination_proofs` carries the handler's results into the composition.
`HandlerUndisturbed` says that `Spec` implies `HandlerInit` and
`[][HandlerNext]_handlerVars`: a message that arrives starts the handler, and no
step of the ns-3 thread, E2Sim or the RIC touches its frame.  The invariants of
the handler, `AnswerInv` and `Collected` among them, therefore hold in the
composition, and the composition refines `SubscriptionAnswer` as the handler does
(`RequestsAreAnswered`).

* `TypesCorrect` joins `TypeOK` and `HandlerTypeOK`.
* `ResponsesComeFirst` uses `Responded`: whoever holds the ids of a subscription
  (the returning handler, the reporting callback, the application's set) holds
  them after the response was appended.
* `DropsMidRegistration` uses `Registered`: a registered function has its callback
  unless its registration is half done, only registered functions are advertised
  and only advertised ones are asked.
* `OneResponseEach` uses `IdsApart` (no two subscriptions share a RIC Request ID,
  which the RIC sees to) and `AnsweredOnce`: the inbox repeats no message, the
  request in the handler's loops is in the inbox no more, and every response is
  that of a subscription neither waiting nor under way.  So the response about to
  be sent can repeat none: `Collected` says its ids are those of the request under
  way.
* `IndicationsAreAccepted` uses `Vouched`: whoever holds the ids of a subscription
  whose last action is the one its list has accepted (`AcceptsLastAction`) holds
  an action that an earlier response named as accepted.

`RicControl_proofs` assumes `ItemsAreTyped` and `RequestsAreIELists`.  The
inductive invariant `Held` joins `TypeOK`, `MembersFromLastIE`, `NoDanglingMember`
and `Answered` (a getter that has answered from a decoded member gave the value
of its IE).  From it follow `TypeCorrect`, `LastIEWins`, `MembersAreLive`,
`CellsArrive` and `GettersRepeat`.

`KpmIndication_proofs` assumes that addresses are numbers and finitely many
(`AddressesAreOrdered`) and that `None` is neither an address nor a list.
`Owning` says that the cell list is none of the UE lists, that the local `Ptr` is
the cell's or the only one to its list, and `ListsHaveOwners`; `Borrowing` that a
tree to be encoded names a list that is alive, `Measured` that only a message
with measurements reaches the encoder, `m_buffer` untouched.  They give
`NoListIsLost`, `CellReportsAreExact` and `EncodedWhenMeasured`.  `Typed` adds that
a tree of UEs on its way to the encoder is the matrix of the lists the helper
holds at that moment.  Two lemmas say what the matrix is: `EachHasItsPlace`, that
the rank of an address among finitely many is a bijection to `1..n`, so that
iterating the set reaches every list once; and `MatrixEntries`, that position
`(m - 1) * U + u` is metric `m` of UE `u`, or undefined.  `TypeCorrect`,
`ColumnsOfUes` and `UesAreReported` follow, the last by a bijection between the
places of the matrix that hold a metric of some data and the UEs that have it.

`EncodedBuffers_proofs` assumes `PointersDiffer`.  `Owned` is `EveryOwnerHasItsBlock`
and that the blocks in use are those of the owners: without the second half an
allocation could take a block an owner still names.  It holds as long as `stray`
is false.  From it follow `BuffersStayOwned` and `BuffersAreAlwaysFreed`, which
leaves out the lists of KPM descriptions and nothing else; blocks of lists are
apart from all others, so leaking them disturbs no owner (`KpmMemory`).
`ReportsAreDescribed`
adds that a description E2Sim has copied was encoded by the constructor of its
node type; the rest compares the lists of names of helpers and descriptions as
sets of elements, concatenation as their union (`Concatenated`, `Within`).

`Conversions_proofs` assumes what `Conversions` does of its constants.  The
inductive invariant `Memory` says that the string in memory is the one its writer
made of the value, or that network after trips through a `plmn_t`, and that what
was read is what a reader that accepts this string computes from it.  The theorems
are then facts about pairs of conversions.

* `LayoutRoundTrip` (a little-endian layout of any size and number of unused bits
  finds every bit it placed) gives `FieldsRoundTrip`: two fields of the same size
  and unused bits have the same layout, and the cell identity with its sign
  extension is alone of its shape.
* `BigEndianBits`, `NibblesBits` and `SameLayout` do the same for the macros:
  `MacrosRoundTrip` and `IntegersAreReadBySize`; `AddressValue` says which four
  bits an address loses.
* `TypeCorrect` and `UnusedBitsStayZero` follow from where each layout reaches.
* `PlmnsRoundTrip` and `PlmnsStayApart` from arithmetic on three digits: the
  digits exchanged by a `plmn_t` are still all there, and `PLMN_T_TO_TBCD` is told
  the length it lost.
* `UeIdsAreComplete` from `DrawsFit`: the literals of the draws are within what the
  writers assert.
* `CellsStayApart`: below 4096 the product with sixteen does not wrap, and its text
  has at most five digits.  Of two texts of different length the longer has a
  digit where the shorter has ended, and the upper nibbles differ (`SameLength`);
  of the same length, the first four digits are carried whole (`CarriedBits`,
  `SameBits`), so the products are less than ten apart (`SameDigits`, from the
  decimal digits of `Decimals`) and the cells equal.

Only model-checked, because the prover reaches neither fairness nor `ENABLED`:
that the handler returns (`CallReturns`), that subscriptions are served
(`SubscriptionServed`), and the fairness in `AnswersSpec`, whose safety part is
`HandlerAnswers`.  What the findings say is shown by counterexamples of TLC.

## Not modelled

* The empty `oran-interface-helper`; the test suite, which asserts that true
  equals true; the examples `l3-rrc-example.cc` and `ric-indication-messages.cc`,
  which use types the module no longer has, and the three that create one object
  or only run E2Sim.  `oran-interface-example.cc`, whose callback is modelled, also
  uses what the module no longer has (`OCuUpContainerValues`,
  `m_pmContainerValues`, a `KpmFunctionDescription` without a node type): the
  model takes from it what the callback does with the parameters it is given.
* Four fifths of `asn1c-types.cc` and the older version of the control decoder
  (`ric-control-message.cc:132-199`), which are commented out; `Snssai`, which no
  compiled code uses.
* `BIT_STRING_TO_MaskedIMEISV`, whose shifts are undefined, and the macros that
  copy whole buffers (IPv6 addresses, `K_eNB*`), which convert nothing; the
  overload of `cp_plmn_identity_to_octant_string` for one octet
  (`kpm-indication.h:266-276`), which writes other octets and which nothing calls.
* `getMesInfoItem` and `getMesDataItem`, which nothing calls; the hash of the UE
  identity; logging, the clock, and time stamps below the second.
* E2Sim's threads, SCTP and the ASN.1 codecs are outside the repository.  A
  second `Start`, and what the loop does on a deleted `E2Sim`, depend on them: the
  first is left out, the second is one undefined step.
* `GetSecondaryCellIdHO`, which returns a member nothing assigns.
