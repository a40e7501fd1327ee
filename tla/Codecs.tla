-------------------------------- MODULE Codecs --------------------------------
(***************************************************************************)
(* The pure conversions: the parts and the text forms of a SteamID, the    *)
(* layout of packets as they are cut short, PKCS#7 padding, and the keys   *)
(* under which asset descriptions are found.                               *)
(* Abstraction: the widths of numbers are constants, so that numbers wrap  *)
(* within TLC's reach; a number whose bits matter is the set of the places *)
(* of its ones, so that | is union; a packet is the lengths of its parts.  *)
(***************************************************************************)
EXTENDS Integers, Sequences, FiniteSets, SequencesExt

CONSTANTS
  AccountBits, InstanceBits, TypeBits, UniverseBits,  \* 32, 20, 4, 8 in the code
  Lengths,     \* 2^32: how many values a length has
  BlockSize,   \* 16
  ChunkSize,   \* 100
  Inputs       \* what the operators are checked on: [kind, ...] records

Low(n) == 0..n - 1   \* the places of the n lowest bits

InstanceAt == AccountBits
TypeAt == InstanceAt + InstanceBits
UniverseAt == TypeAt + TypeBits
Width == UniverseAt + UniverseBits   \* 64

ASSUME CodecsAssumption ==
  /\ {AccountBits, InstanceBits, TypeBits, UniverseBits, Lengths, BlockSize, ChunkSize}
       \subseteq Nat \ {0}
  /\ \A i \in Inputs :
       CASE i.kind = "set" -> i.id \subseteq Low(Width) /\ i.v \subseteq Nat
         [] i.kind = "cut" -> {i.header, i.count, i.n} \subseteq Nat
         [] i.kind = "pad" -> i.data \in Seq(Nat)
         [] i.kind = "keys" -> i.keys \in Seq([class : Nat, instance : STRING])

VARIABLE input
CodecsInit == input \in Inputs
CodecsNext == UNCHANGED input
CodecsSpec == CodecsInit /\ [][CodecsNext]_input

-----------------------------------------------------------------------------
(* SteamID: account number in the low bits, then instance, type, universe. *)

Up(v, at) == {i + at : i \in v} \cap Low(Width)          \* v << at of a uint64
Down(s, at) == {i - at : i \in {j \in s : j >= at}}      \* s >> at

\* Clear the part, put in the value: a value that is too wide runs into the
\* parts above it.
SetPart(s, at, bits, v) == (s \ Up(Low(bits), at)) \cup Up(v, at)

SetUniverse(s, u) == SetPart(s, UniverseAt, UniverseBits, u)
SetType(s, t) == SetPart(s, TypeAt, TypeBits, t)
SetInstance(s, i) == SetPart(s, InstanceAt, InstanceBits, i)
SetAccountID(s, a) == SetPart(s, 0, AccountBits, a)

Universe(s) == Down(s, UniverseAt)
Type(s) == Down(s, TypeAt) \cap Low(TypeBits)
Instance(s) == Down(s, InstanceAt) \cap Low(InstanceBits)   \* there is no getter
AccountID(s) == s \cap Low(AccountBits)

One == {0}
Individual(universe, account) ==
  Up(universe, UniverseAt) \cup Up(One, TypeAt) \cup Up(One, InstanceAt) \cup account

\* The texts STEAM_X:Y:Z and [U:1:Z] are the tuples of their numbers.
ToSteam2ID(s) == <<Universe(s), AccountID(s) \cap Low(1), Down(AccountID(s), 1)>>

\* Y is the lowest bit, which twice Z leaves free: the sum is the union.
FromSteam2IDBug_PlainZ(t) == Individual(IF t[1] = {} THEN One ELSE t[1], t[3])
FromSteam2ID(t) ==
  Individual(IF t[1] = {} THEN One ELSE t[1], (Up(t[3], 1) \cap Low(AccountBits)) \cup t[2])

ToSteam3ID(s) == AccountID(s)
FromSteam3ID(z) == Individual(One, z)

-----------------------------------------------------------------------------
(* Packets, cut to their first n bytes.  A decoder returns the bytes of    *)
(* the body, as [from, to), or nothing.                                    *)

Refused == [from |-> 0, to |-> 0]
Body(from, n) == [from |-> from, to |-> n]

Panics == [from |-> 1, to |-> 0]
Offset(hdrLen) == (8 + hdrLen) % Lengths

decodeProtoPacketBug_NoPrefix(hdrLen, n) == IF n < 8 \/ n < hdrLen THEN Refused ELSE Body(8 + hdrLen, n)
decodeProtoPacket(hdrLen, n) ==
  IF n < 8 \/ n < Offset(hdrLen) THEN Refused
  ELSE IF Offset(hdrLen) < 8 THEN Panics ELSE Body(Offset(hdrLen), n)
decodeGCProtoPayload(hdrLen, n) ==
  IF n < 8 \/ n < Offset(hdrLen) THEN Refused ELSE Body(Offset(hdrLen), n)
decodeNonProtoPacket(n) == IF n < 36 THEN Refused ELSE Body(36, n)
decodeGCBinaryPayload(n) == IF n < 18 THEN Refused ELSE Body(18, n)

\* The sizes of the packets in a Multi of which n bytes are there: all that
\* are whole, or none if the last one is not.
EntriesEnd(sizes) == FoldLeft(LAMBDA sum, size : sum + 4 + size, 0, sizes)
Torn == <<-1>>
decodeMulti(sizes, n) ==
  LET whole == {k \in 0..Len(sizes) : EntriesEnd(SubSeq(sizes, 1, k)) = n} IN
  IF whole = {} THEN Torn ELSE SubSeq(sizes, 1, CHOOSE k \in whole : TRUE)

\* The item IDs of a craft response: as many as it announces and holds.
handleCraftResponse(count, n) ==
  IF n < 8 THEN 0 ELSE LET there == (n - 8) \div 8 IN IF count < there THEN count ELSE there

-----------------------------------------------------------------------------
(* Padding.                                                                *)

pkcs7Pad(data) ==
  LET padding == BlockSize - (Len(data) % BlockSize) IN data \o [i \in 1..padding |-> padding]

Invalid == <<-1>>
pkcs7Unpad(data) ==
  IF data = <<>> \/ Len(data) % BlockSize # 0 \/ data[Len(data)] \notin 1..BlockSize THEN Invalid
  ELSE LET rest == Len(data) - data[Len(data)] IN
       IF \E i \in rest + 1..Len(data) : data[i] # data[Len(data)] THEN Invalid ELSE SubSeq(data, 1, rest)

-----------------------------------------------------------------------------
(* Asset descriptions: a key is a class and an instance, "" for any.       *)

Chunk(keys, i) == SubSeq(keys, i, IF i + ChunkSize > Len(keys) THEN Len(keys) ELSE i + ChunkSize - 1)
ChunkStarts(keys) == {i \in DOMAIN keys : \E m \in 0..Len(keys) : i = 1 + ChunkSize * m}
Chunks(keys) == {Chunk(keys, i) : i \in ChunkStarts(keys)}

\* keyHasInstance, as a class alone reads it: the last instance asked for.
LastAskedBug_Never(chunk, class) == ""
LastAsked(chunk, class) == chunk[Max({i \in DOMAIN chunk : chunk[i].class = class})].instance

\* The key under which the answer for k is put: k's own where the answer names
\* the instance, in the description or in its key; by the class otherwise.
FiledAs(chunk, k, named) ==
  [class |-> k.class, instance |-> IF named /\ k.instance # "" THEN k.instance ELSE LastAsked(chunk, k.class)]

\* What the map may hold in the end for a key: the map of an answer is gone
\* through in any order, and later ones overwrite.
Found(keys, named, key) ==
  {k \in ToSet(keys) : \E chunk \in Chunks(keys) : k \in ToSet(chunk) /\ FiledAs(chunk, k, named) = key}

-----------------------------------------------------------------------------
Parts(s) == <<AccountID(s), Instance(s), Type(s), Universe(s)>>

\* Setting one part of a SteamID to a number that fits leaves all others as
\* they were, and sets that one.
PartsStayApart == input.kind = "set" =>
  LET now == <<SetAccountID(input.id, input.v), SetInstance(input.id, input.v),
               SetType(input.id, input.v), SetUniverse(input.id, input.v)>>
      bits == <<AccountBits, InstanceBits, TypeBits, UniverseBits>> IN
  \A i \in 1..4 : input.v \subseteq Low(bits[i]) => Parts(now[i]) = [Parts(input.id) EXCEPT ![i] = input.v]

\* The text forms keep the account of every SteamID, and all of the SteamID of
\* an individual account: of any universe for STEAM_X:Y:Z, which shows it.
TextsKeepAccount == input.kind = "set" =>
  LET two == FromSteam2ID(ToSteam2ID(input.id))  three == FromSteam3ID(ToSteam3ID(input.id)) IN
  /\ AccountID(two) = AccountID(input.id) /\ AccountID(three) = AccountID(input.id)
  /\ Type(input.id) = One /\ Instance(input.id) = One /\ Universe(input.id) # {} =>
       two = input.id /\ (Universe(input.id) = One => three = input.id)

\* Neither the setters nor the texts lose or mix the parts of a SteamID.
SteamIDsHold == PartsStayApart /\ TextsKeepAccount

\* A packet, payload, Multi or craft response that is cut short is refused
\* unless only its body is: no part of a header is ever taken for the body, and
\* no part of a Multi's packet for a packet.  Lengths so close to the width of a
\* length that the sum with the prefix wraps are left out.
CutIsNoticed == input.kind = "cut" =>
  /\ input.header + 8 < Lengths =>
       \A body \in {decodeProtoPacket(input.header, input.n), decodeGCProtoPayload(input.header, input.n)} :
         body = Refused \/ (8 + input.header <= body.from /\ body.from <= body.to)
  /\ \A body \in {decodeNonProtoPacket(input.n), decodeGCBinaryPayload(input.n)} : body.from <= body.to
  /\ LET sizes == [i \in 1..input.count |-> input.header]  taken == decodeMulti(sizes, input.n) IN
     taken = Torn \/ EntriesEnd(taken) = input.n
  /\ LET ids == handleCraftResponse(input.count, input.n) IN ids <= input.count /\ (ids > 0 => 8 + 8 * ids <= input.n)

\* Unpad undoes Pad, and accepts nothing that Pad does not make.
PaddingInverts == input.kind = "pad" =>
  /\ pkcs7Unpad(pkcs7Pad(input.data)) = input.data
  /\ pkcs7Unpad(input.data) # Invalid => pkcs7Pad(pkcs7Unpad(input.data)) = input.data

\* What is cut short, or padded in any other way, is not taken for data.
NothingIsMisread == CutIsNoticed /\ PaddingInverts

\* The description of every key that was asked for is found under that key and
\* no other is, in whatever chunks they were asked: if the answer names the
\* instances, provided that no class is asked for both with an instance and
\* without, and otherwise provided that each class is asked for once.
Distinguished(keys, named) == \A k, l \in ToSet(keys) :
  k.class = l.class /\ k # l => named /\ k.instance # "" /\ l.instance # ""

DescribedAsAsked == input.kind = "keys" /\ Distinguished(input.keys, input.named) =>
  \A k \in ToSet(input.keys) : Found(input.keys, input.named, k) = {k}
=============================================================================
