--------------------------- MODULE TunnelRoutesProofs ---------------------------
(***************************************************************************)
(* Proofs about TunnelRoutes, for addresses of any number of octets of any *)
(* number of bits and for any settings a gateway pushes.                   *)
(*                                                                         *)
(* First the operators: a mask and its length determine each other, the    *)
(* octets of an address swapped twice are the address, so that a route     *)
(* read back from the kernel's table is the route that was added; every    *)
(* entry of a list of split routes gets its own index in the environment,  *)
(* the helper lets all of them through that it reads, and the script makes *)
(* of them what they mean.  Then the session: RoutesInv, which the three   *)
(* invariants follow from.                                                 *)
(***************************************************************************)
EXTENDS TunnelRoutes, SequenceTheorems, FunctionTheorems, FiniteSetTheorems, TLAPS

-----------------------------------------------------------------------------
(* Masks and octets *)

\* An address has at least one bit.
LEMMA WidthIsNat == Width \in Nat \ {0}
BY WidthAssumption DEF Width

\* A mask of a length has as many bits.
LEMMA MaskBits ==
  ASSUME NEW length \in 0..Width, NEW wraps \in BOOLEAN
  PROVE  /\ MaskFromPrefix(length, wraps) = {bit \in Bits : bit >= Width - length}
         /\ MaskFromPrefix(length, wraps) \in Addresses
         /\ Cardinality(MaskFromPrefix(length, wraps)) = length
<1>1. MaskFromPrefix(length, wraps) = {bit \in Bits : bit >= Width - length}
  <2>1. CASE length = 0
    BY <2>1, WidthIsNat DEF MaskFromPrefix, Bits
  <2>2. CASE length > 0
    <3>1. (Width - length) % Width = Width - length
      BY <2>2, WidthIsNat
    <3> QED  BY <2>2, <3>1, WidthIsNat DEF MaskFromPrefix
  <2> QED  BY <2>1, <2>2
<1>2. {bit \in Bits : bit >= Width - length} = (Width - length)..(Width - 1)
  BY WidthIsNat DEF Bits
<1>3. Cardinality((Width - length)..(Width - 1)) = length
  BY WidthIsNat, FS_Interval
<1> QED  BY <1>1, <1>2, <1>3 DEF Addresses

\* Swapping the octets of a bit's position twice.
OctetSwap(bit) == (Octets - 1 - bit \div OctetBits) * OctetBits + (bit % OctetBits)

\* Quotient and remainder are read off.
LEMMA DivMod ==
  ASSUME NEW q \in Nat, NEW b \in Nat \ {0}, NEW r \in 0..b - 1
  PROVE  (q * b + r) \div b = q /\ (q * b + r) % b = r
OBVIOUS

\* A bit's octet is swapped within the address, and back where it was.
LEMMA SwapBit ==
  ASSUME NEW bit \in Bits
  PROVE  OctetSwap(bit) \in Bits /\ OctetSwap(OctetSwap(bit)) = bit
<1> DEFINE q == bit \div OctetBits
           r == bit % OctetBits
<1>1. q \in Nat /\ r \in 0..OctetBits - 1 /\ bit = q * OctetBits + r
  BY WidthAssumption DEF Bits, Width
<1>2. q < Octets
  BY <1>1, WidthAssumption DEF Bits, Width
<1> DEFINE p == Octets - 1 - q
<1>3. p \in Nat /\ p < Octets /\ OctetSwap(bit) = p * OctetBits + r
  BY <1>1, <1>2, WidthAssumption DEF OctetSwap
<1>4. OctetSwap(bit) \in Bits
  <2>1. p * OctetBits + r \in Nat
    BY <1>1, <1>3, WidthAssumption
  <2>2. (p + 1) * OctetBits <= Octets * OctetBits
    BY <1>3, WidthAssumption
  <2>3. p * OctetBits + r <= Octets * OctetBits - 1
    BY <1>1, <1>3, <2>2, WidthAssumption
  <2> QED  BY <1>3, <2>1, <2>3, WidthAssumption DEF Bits, Width
<1>5. Octets - 1 - p = q
  BY <1>1, WidthAssumption
<1> HIDE DEF p, q, r
<1>6. OctetSwap(bit) \div OctetBits = p /\ OctetSwap(bit) % OctetBits = r
  <2>1. OctetBits \in Nat \ {0}
    BY WidthAssumption
  <2>2. (p * OctetBits + r) \div OctetBits = p /\ (p * OctetBits + r) % OctetBits = r
    BY <1>1, <1>3, <2>1, DivMod
  <2> QED  BY <1>3, <2>2
<1>7. OctetSwap(OctetSwap(bit)) = q * OctetBits + r
  BY <1>5, <1>6 DEF OctetSwap
<1> QED  BY <1>1, <1>4, <1>7

\* The kernel's table is read back as it is: swapping twice is the identity, and
\* swapping keeps the number of bits.
LEMMA SwappedBack ==
  ASSUME NEW bits \in Addresses
  PROVE  Swapped(Swapped(bits)) = bits /\ Cardinality(Swapped(bits)) = Cardinality(bits)
<1>1. \A set : Swapped(set) = {OctetSwap(bit) : bit \in set}
  BY DEF Swapped, OctetSwap
<1>2. \A bit \in bits : OctetSwap(OctetSwap(bit)) = bit
  BY SwapBit DEF Addresses
<1>3. Swapped(Swapped(bits)) = bits
  BY <1>1, <1>2
<1> DEFINE swap == [bit \in bits |-> OctetSwap(bit)]
<1>4. IsFiniteSet(bits)
  <2>1. IsFiniteSet(Bits)
    BY WidthIsNat, FS_Interval DEF Bits
  <2> QED  BY <2>1, FS_Subset DEF Addresses
<1>5. swap \in [bits -> Swapped(bits)]
  BY <1>1
<1>6. swap \in Bijection(bits, Swapped(bits))
  <2>1. \A a, b \in bits : swap[a] = swap[b] => a = b
    BY <1>2
  <2>2. \A b \in Swapped(bits) : \E a \in bits : swap[a] = b
    BY <1>1
  <2> QED  BY <1>5, <2>1, <2>2, Fun_IsBij
<1>7. Cardinality(Swapped(bits)) = Cardinality(bits)
  BY <1>4, <1>6, FS_Bijection DEF ExistsBijection
<1> QED  BY <1>3, <1>7

LEMMA ReadBack ==
  ASSUME NEW route, route.network \in Addresses, route.mask \in Addresses
  PROVE  ParseLine(LineOf(route)) = Cidr(route.network, Cardinality(route.mask))
BY SwappedBack DEF ParseLine, LineOf, HexToDottedQuad, PrefixLengthFromMask

\* Masks are told apart by their lengths.
LEMMA LengthTellsMask ==
  ASSUME NEW m, IsMask(m)
  PROVE  /\ m \in Addresses /\ m # NoAddress
         /\ Cardinality(m) \in 0..Width
         /\ m = MaskFromPrefix(Cardinality(m), TRUE)
<1>1. PICK length \in 0..Width : m = MaskFromPrefix(length, TRUE)
  BY DEF IsMask
<1>2. m \in Addresses /\ Cardinality(m) = length
  BY <1>1, MaskBits
<1>3. m # NoAddress
  BY <1>2, AddressAssumption
<1> QED  BY <1>1, <1>2, <1>3

-----------------------------------------------------------------------------
(* What AddSplitList makes of a list. *)

\* Two entries have different indices, below their number.
LEMMA IndicesDiffer ==
  ASSUME NEW n \in Nat, NEW indexable \in SUBSET (1..n), NEW i \in indexable
  PROVE  /\ Cardinality(indexable) \in Nat
         /\ IndexOf(i, indexable) \in 0..Cardinality(indexable) - 1
         /\ (CHOOSE j \in indexable : IndexOf(j, indexable) = IndexOf(i, indexable)) = i
<1> DEFINE before(j) == indexable \cap (1..j - 1)
<1>1. IsFiniteSet(indexable) /\ Cardinality(indexable) \in Nat
  <2>1. IsFiniteSet(1..n)
    BY FS_Interval
  <2>2. IsFiniteSet(indexable)
    BY <2>1, FS_Subset
  <2> QED  BY <2>2, FS_CardinalityType
<1>2. ASSUME NEW j \in indexable, NEW larger \in SUBSET indexable,
             before(j) \subseteq larger, j \in larger
      PROVE  /\ Cardinality(before(j)) \in Nat
             /\ Cardinality(before(j)) < Cardinality(larger)
             /\ Cardinality(larger) <= Cardinality(indexable)
  <2>1. /\ IsFiniteSet(larger) /\ Cardinality(larger) \in Nat
        /\ Cardinality(larger) <= Cardinality(indexable)
    BY <1>1, FS_Subset, FS_CardinalityType
  <2>2. j \notin before(j) /\ before(j) \in SUBSET larger
    BY <1>2
  <2>3. /\ Cardinality(before(j)) \in Nat /\ Cardinality(before(j)) <= Cardinality(larger)
        /\ Cardinality(larger) # Cardinality(before(j))
    BY <1>2, <2>1, <2>2, FS_Subset, FS_CardinalityType
  <2> QED  BY <2>1, <2>3
<1>3. IndexOf(i, indexable) \in 0..Cardinality(indexable) - 1
  BY <1>1, <1>2 DEF IndexOf
<1>4. \A j, k \in indexable : j < k => IndexOf(j, indexable) # IndexOf(k, indexable)
  <2> SUFFICES ASSUME NEW j \in indexable, NEW k \in indexable, j < k
               PROVE  Cardinality(before(j)) # Cardinality(before(k))
    BY DEF IndexOf
  <2>1. before(k) \in SUBSET indexable /\ before(j) \subseteq before(k) /\ j \in before(k)
    OBVIOUS
  <2>2. Cardinality(before(j)) \in Nat /\ Cardinality(before(j)) < Cardinality(before(k))
    BY <1>2, <2>1
  <2> QED  BY <2>2
<1>5. \A j \in indexable : IndexOf(j, indexable) = IndexOf(i, indexable) => j = i
  BY <1>4
<1> QED  BY <1>1, <1>3, <1>5

\* An environment holds an entry of a list, under some index.
HasEntry(env, prefix, size, entry, wraps) ==
    /\ <<prefix>> \in DOMAIN env /\ env[<<prefix>>] = size
    /\ \E k \in 0..size - 1 : \A field \in Fields :
         /\ <<prefix, k, field>> \in DOMAIN env
         /\ env[<<prefix, k, field>>] = Field(entry, field, wraps)

LEMMA EntriesAreAdded ==
  ASSUME NEW prefix, NEW list \in Seq(Routes), NEW i \in Indexable(list), NEW wraps
  PROVE  /\ Cardinality(Indexable(list)) \in Nat
         /\ HasEntry(AddSplitList(prefix, list, wraps), prefix,
                  Cardinality(Indexable(list)), list[i], wraps)
<1> DEFINE indexable == Indexable(list)
           size == Cardinality(indexable)
           k == IndexOf(i, indexable)
           Entry(index) == list[CHOOSE j \in indexable : IndexOf(j, indexable) = index]
           added == [name \in {prefix} \X (0..size - 1) \X Fields |->
                        Field(Entry(name[2]), name[3], wraps)]
<1>1. Len(list) \in Nat /\ indexable \in SUBSET (1..Len(list))
  BY LenProperties DEF Indexable
<1>2. size \in Nat /\ k \in 0..size - 1 /\ Entry(k) = list[i]
  BY <1>1, IndicesDiffer
<1>3. AddSplitList(prefix, list, wraps) = Over(Count(prefix, indexable), added)
  BY DEF AddSplitList
<1>4. DOMAIN Count(prefix, indexable) = {<<prefix>>} /\ Count(prefix, indexable)[<<prefix>>] = size
  BY DEF Count
<1>5. ASSUME NEW field \in Fields
      PROVE  /\ <<prefix, k, field>> \in DOMAIN added
             /\ <<prefix, k, field>> # <<prefix>>
             /\ added[<<prefix, k, field>>] = Field(list[i], field, wraps)
  <2>1. <<prefix, k, field>> \in {prefix} \X (0..size - 1) \X Fields
    BY <1>2
  <2>2. added[<<prefix, k, field>>] = Field(Entry(k), field, wraps)
    BY <2>1
  <2> QED  BY <1>2, <2>1, <2>2
<1> HIDE DEF indexable, size, k, Entry, added
<1>6. /\ <<prefix>> \in DOMAIN Over(Count(prefix, indexable), added)
      /\ Over(Count(prefix, indexable), added)[<<prefix>>] = size
  BY <1>4 DEF Over
<1>7. \A field \in Fields :
        /\ <<prefix, k, field>> \in DOMAIN Over(Count(prefix, indexable), added)
        /\ Over(Count(prefix, indexable), added)[<<prefix, k, field>>]
             = Field(list[i], field, wraps)
  BY <1>4, <1>5 DEF Over
<1> QED  BY <1>2, <1>3, <1>6, <1>7 DEF HasEntry, size, indexable

\* It sets nothing but the count and the entries.
LEMMA OnlyOfThePrefix ==
  ASSUME NEW prefix, NEW list, NEW wraps,
         NEW name \in DOMAIN AddSplitList(prefix, list, wraps)
  PROVE  name[1] = prefix /\ (Len(name) = 1 => name = <<prefix>>)
<1>1. CASE Indexable(list) = {}
  BY <1>1 DEF AddSplitList
<1>2. CASE Indexable(list) # {}
  <2>1. name \in {<<prefix>>} \cup {prefix} \X (0..Cardinality(Indexable(list)) - 1) \X Fields
    BY <1>2 DEF AddSplitList, Over, Count
  <2> QED  BY <2>1
<1> QED  BY <1>1, <1>2

\* The variables of the two lists do not hide one another, nor are they hidden by
\* a setting.
LEMMA OverKeeps ==
  ASSUME NEW env, NEW more, NEW prefix, NEW size, NEW entry, NEW wraps,
         HasEntry(more, prefix, size, entry, wraps),
         \A name \in DOMAIN env : name[1] # prefix
  PROVE  HasEntry(Over(env, more), prefix, size, entry, wraps)
<1>1. <<prefix>> \notin DOMAIN env
  OBVIOUS
<1>2. \A k, field : <<prefix, k, field>> \notin DOMAIN env
  OBVIOUS
<1>3. \A name : name \in DOMAIN more /\ name \notin DOMAIN env =>
        name \in DOMAIN Over(env, more) /\ Over(env, more)[name] = more[name]
  BY DEF Over
<1> QED  BY <1>1, <1>2, <1>3 DEF HasEntry

LEMMA OverHas ==
  ASSUME NEW env, NEW more, NEW prefix, NEW size, NEW entry, NEW wraps,
         HasEntry(env, prefix, size, entry, wraps)
  PROVE  HasEntry(Over(env, more), prefix, size, entry, wraps)
<1>1. \A name \in DOMAIN env :
        name \in DOMAIN Over(env, more) /\ Over(env, more)[name] = env[name]
  BY DEF Over
<1> QED  BY <1>1 DEF HasEntry

Prefixed == {"CISCO_SPLIT_INC", "CISCO_SPLIT_EXC"}
ListOf(info, prefix) ==
    IF prefix = "CISCO_SPLIT_INC" THEN info.includes ELSE info.excludes

\* Build sets a variable for each of the entries, whatever the settings.
LEMMA EntriesAreBuilt ==
  ASSUME NEW info \in IpInfos, NEW ignoreDns, NEW wraps, NEW prefix \in Prefixed,
         NEW i \in Indexable(ListOf(info, prefix))
  PROVE  /\ Cardinality(Indexable(ListOf(info, prefix))) \in Nat
         /\ HasEntry(Build(info, ignoreDns, wraps), prefix,
                     Cardinality(Indexable(ListOf(info, prefix))),
                     ListOf(info, prefix)[i], wraps)
<1> DEFINE included == AddSplitList("CISCO_SPLIT_INC", info.includes, wraps)
           excluded == AddSplitList("CISCO_SPLIT_EXC", info.excludes, wraps)
           size == Cardinality(Indexable(ListOf(info, prefix)))
           entry == ListOf(info, prefix)[i]
<1>1. info.includes \in Seq(Routes) /\ info.excludes \in Seq(Routes)
  BY DEF IpInfos
<1>2. size \in Nat
  BY <1>1, EntriesAreAdded DEF ListOf
<1>3. HasEntry(Over(included, excluded), prefix, size, entry, wraps)
  <2>1. CASE prefix = "CISCO_SPLIT_INC"
    <3>1. HasEntry(included, prefix, size, entry, wraps)
      BY <1>1, <2>1, EntriesAreAdded DEF ListOf
    <3> QED  BY <3>1, OverHas
  <2>2. CASE prefix = "CISCO_SPLIT_EXC"
    <3>1. HasEntry(excluded, prefix, size, entry, wraps)
      BY <1>1, <2>2, EntriesAreAdded DEF ListOf
    <3>2. \A name \in DOMAIN included : name[1] # prefix
      BY <2>2, OnlyOfThePrefix
    <3> QED  BY <3>1, <3>2, OverKeeps
  <2> QED  BY <2>1, <2>2 DEF Prefixed
<1>4. \A name \in DOMAIN Settings(info, ignoreDns) : name[1] # prefix
  BY DEF Settings, SettingNames, Prefixed
<1>5. HasEntry(Build(info, ignoreDns, wraps), prefix, size, entry, wraps)
  BY <1>3, <1>4, OverKeeps DEF Build
<1> QED  BY <1>2, <1>5

\* Every variable of Build is a setting or of one of the lists.
LEMMA NamesBuilt ==
  ASSUME NEW info, NEW ignoreDns, NEW wraps,
         NEW name \in DOMAIN Build(info, ignoreDns, wraps)
  PROVE  \/ \E n \in SettingNames(info, ignoreDns) : name = <<n>>
         \/ name[1] \in Prefixed /\ (Len(name) = 1 => name = <<name[1]>>)
<1>1. \/ name \in DOMAIN Settings(info, ignoreDns)
      \/ name \in DOMAIN AddSplitList("CISCO_SPLIT_INC", info.includes, wraps)
      \/ name \in DOMAIN AddSplitList("CISCO_SPLIT_EXC", info.excludes, wraps)
  BY DEF Build, Over
<1>2. CASE name \in DOMAIN Settings(info, ignoreDns)
  BY <1>2 DEF Settings
<1> QED  BY <1>1, <1>2, OnlyOfThePrefix DEF Prefixed

\* The settings are built as they are.
LEMMA SettingsAreBuilt ==
  ASSUME NEW info, NEW ignoreDns, NEW wraps, NEW n \in SettingNames(info, ignoreDns)
  PROVE  /\ <<n>> \in DOMAIN Build(info, ignoreDns, wraps)
         /\ Build(info, ignoreDns, wraps)[<<n>>] = Setting(info, n)
<1>1. <<n>> \in DOMAIN Settings(info, ignoreDns)
  BY DEF Settings
<1>2. Settings(info, ignoreDns)[<<n>>] = Setting(info, n)
  BY <1>1 DEF Settings
<1> QED  BY <1>1, <1>2 DEF Build, Over

-----------------------------------------------------------------------------
(* What vpnc-script receives of it. *)

\* The helper stops reading where the settings' split DNS is too long for a line.
LEMMA WhatIsCutShort ==
  ASSUME ip \in IpInfos, ignorePushedDns \in BOOLEAN
  PROVE  useHelper /\ IsTooLong(Built) <=> CutShort(ip)
<1> DEFINE name == <<"CISCO_SPLIT_DNS">>
<1>1. ip.splitDns \in Nat /\ LineLimit \in Nat \ {0}
  BY LengthAssumption DEF IpInfos
<1>2. "CISCO_SPLIT_DNS" \in SettingNames(ip, ignorePushedDns)
        <=> ~ignorePushedDns /\ ip.splitDns > 0
  BY DEF SettingNames
<1>3. name \in DOMAIN Built => "CISCO_SPLIT_DNS" \in SettingNames(ip, ignorePushedDns)
  <2>1. name[1] = "CISCO_SPLIT_DNS" /\ name[1] \notin Prefixed
    BY DEF Prefixed
  <2>2. \A n : name = <<n>> => n = "CISCO_SPLIT_DNS"
    OBVIOUS
  <2> QED  BY <2>1, <2>2, NamesBuilt DEF Built
<1>4. "CISCO_SPLIT_DNS" \in SettingNames(ip, ignorePushedDns)
        => name \in DOMAIN Built /\ Built[name] = ip.splitDns
  <2>1. Setting(ip, "CISCO_SPLIT_DNS") = ip.splitDns
    BY DEF Setting
  <2> QED  BY <2>1, SettingsAreBuilt DEF Built
<1>5. IsTooLong(Built) <=> name \in DOMAIN Built /\ Built[name] >= LineLimit
  BY DEF IsTooLong
<1>6. name \in DOMAIN Built /\ Built[name] >= LineLimit
        <=> ~ignorePushedDns /\ ip.splitDns >= LineLimit
  <2>1. ip.splitDns >= LineLimit => ip.splitDns > 0
    BY <1>1
  <2> QED  BY <1>2, <1>3, <1>4, <2>1
<1> QED  BY <1>5, <1>6 DEF CutShort

\* Then nothing that would configure anything is received.
LEMMA CutShortConfiguresNothing ==
  ASSUME ip \in IpInfos, ignorePushedDns \in BOOLEAN, CutShort(ip)
  PROVE  LET env == Received(Built) IN
         /\ Inside(env) = {} /\ Outside(env) = {}
         /\ ~HasResolvers(env)
<1>1. DOMAIN Received(Built) \subseteq {<<"CISCO_DEF_DOMAIN">>}
  BY WhatIsCutShort DEF Received, Passed, ReadBlock, BeforeSplitDns
<1>2. /\ <<"TUNDEV">> \notin DOMAIN Received(Built)
      /\ <<"CISCO_SPLIT_EXC">> \notin DOMAIN Received(Built)
      /\ <<"INTERNAL_IP4_DNS">> \notin DOMAIN Received(Built)
  <2>1. \A a, b : <<a>> = <<b>> => a = b
    OBVIOUS
  <2> QED  BY <1>1, <2>1
<1> QED  BY <1>2 DEF Inside, Outside, Given, HasResolvers

\* Otherwise, with the helper or without, every entry.
LEMMA EntriesAreReceived ==
  ASSUME ip \in IpInfos, ignorePushedDns \in BOOLEAN, ~CutShort(ip),
         NEW prefix \in Prefixed, NEW i \in Indexable(ListOf(ip, prefix))
  PROVE  /\ Cardinality(Indexable(ListOf(ip, prefix))) \in Nat
         /\ HasEntry(Received(Built), prefix, Cardinality(Indexable(ListOf(ip, prefix))),
                     ListOf(ip, prefix)[i], host.wraps)
<1> DEFINE size == Cardinality(Indexable(ListOf(ip, prefix)))
           entry == ListOf(ip, prefix)[i]
<1>1. size \in Nat /\ HasEntry(Built, prefix, size, entry, host.wraps)
  BY EntriesAreBuilt DEF Built
<1>2. CASE ~useHelper
  BY <1>1, <1>2 DEF Received
<1>3. CASE useHelper
  <2>1. ReadBlock(Built) = DOMAIN Built
    BY <1>3, WhatIsCutShort DEF ReadBlock
  <2>2. \A name : name[1] = prefix /\ name \in DOMAIN Built =>
          name \in DOMAIN Passed(Built) /\ Passed(Built)[name] = Built[name]
    BY <2>1 DEF Passed, IsAllowed, AllowedPrefixes, Prefixed
  <2>3. <<prefix>>[1] = prefix /\ \A k, field : <<prefix, k, field>>[1] = prefix
    OBVIOUS
  <2>4. HasEntry(Passed(Built), prefix, size, entry, host.wraps)
    BY <1>1, <2>2, <2>3 DEF HasEntry
  <2> QED  BY <1>1, <1>3, <2>4 DEF Received
<1> QED  BY <1>2, <1>3

\* With the helper or without, the resolvers, unless they are not wanted.
LEMMA ResolversAreReceived ==
  ASSUME ip \in IpInfos, ignorePushedDns \in BOOLEAN
  PROVE  /\ HasResolvers(Received(Built)) => ~ignorePushedDns
         /\ ~CutShort(ip) /\ ip.dns /\ ~ignorePushedDns => HasResolvers(Received(Built))
<1> DEFINE name == <<"INTERNAL_IP4_DNS">>
<1>1. CASE ignorePushedDns
  <2>1. name \notin DOMAIN Built
    <3>1. "INTERNAL_IP4_DNS" \notin SettingNames(ip, ignorePushedDns)
      BY <1>1 DEF SettingNames
    <3>2. name[1] = "INTERNAL_IP4_DNS" /\ name[1] \notin Prefixed
      BY DEF Prefixed
    <3>3. \A n : name = <<n>> => n = "INTERNAL_IP4_DNS"
      OBVIOUS
    <3> QED  BY <3>1, <3>2, <3>3, NamesBuilt DEF Built
  <2> QED  BY <1>1, <2>1 DEF HasResolvers, Received, Passed, ReadBlock
<1>2. CASE ~ignorePushedDns /\ ~CutShort(ip)
  <2>1. "INTERNAL_IP4_DNS" \in SettingNames(ip, ignorePushedDns)
    BY <1>2 DEF SettingNames
  <2>2. name \in DOMAIN Built /\ Built[name] = Setting(ip, "INTERNAL_IP4_DNS")
    BY <2>1, SettingsAreBuilt DEF Built
  <2>3. Setting(ip, "INTERNAL_IP4_DNS") = ip.dns
    BY DEF Setting
  <2>4. IsAllowed(name)
    BY DEF IsAllowed, AllowedVariables
  <2>5. name \in DOMAIN Received(Built) /\ Received(Built)[name] = ip.dns
    BY <1>2, <2>2, <2>3, <2>4, WhatIsCutShort DEF Received, Passed, ReadBlock
  <2> QED  BY <1>2, <2>5 DEF HasResolvers
<1> QED  BY <1>1, <1>2

\* The helper refuses nothing it reads.
LEMMA RefusedIsCutShort ==
  ASSUME ip \in IpInfos, ignorePushedDns \in BOOLEAN,
         DOMAIN Built \ DOMAIN Received(Built) # {}
  PROVE  /\ CutShort(ip)
         /\ <<"CISCO_SPLIT_DNS">> \in DOMAIN Built \ DOMAIN Received(Built)
<1>1. PICK name \in DOMAIN Built : name \notin DOMAIN Received(Built)
  OBVIOUS
<1>2. IsAllowed(name)
  <2>1. CASE name[1] \in Prefixed
    BY <2>1 DEF IsAllowed, Prefixed, AllowedPrefixes
  <2>2. CASE \E n \in SettingNames(ip, ignorePushedDns) : name = <<n>>
    BY <2>2 DEF IsAllowed, SettingNames, AllowedVariables
  <2> QED  BY <2>1, <2>2, NamesBuilt DEF Built
<1>3. useHelper /\ IsTooLong(Built)
  BY <1>1, <1>2 DEF Received, Passed, ReadBlock
<1>4. <<"CISCO_SPLIT_DNS">> # <<"CISCO_DEF_DOMAIN">>
  OBVIOUS
<1>5. <<"CISCO_SPLIT_DNS">> \notin DOMAIN Received(Built)
  BY <1>3, <1>4 DEF Received, Passed, ReadBlock, BeforeSplitDns
<1> QED  BY <1>3, <1>5, WhatIsCutShort DEF IsTooLong

\* Otherwise the tunnel's name is received, too.
LEMMA NameIsReceived ==
  ASSUME ip \in IpInfos, ignorePushedDns \in BOOLEAN, ~CutShort(ip)
  PROVE  <<"TUNDEV">> \in DOMAIN Received(Built)
<1>1. <<"TUNDEV">> \in DOMAIN Built
  <2>1. "TUNDEV" \in SettingNames(ip, ignorePushedDns)
    BY DEF SettingNames
  <2> QED  BY <2>1, SettingsAreBuilt DEF Built
<1>2. IsAllowed(<<"TUNDEV">>)
  BY DEF IsAllowed, AllowedVariables
<1> QED  BY <1>1, <1>2, WhatIsCutShort DEF Received, Passed, ReadBlock

\* A route of IPv4 is given to the kernel for what it means, by its length or by
\* its mask, in whichever form it was pushed.
LEMMA EntryMeansRoute ==
  ASSUME host \in Hosts, NEW entry \in Routes, IsIpv4(entry), NEW env, NEW prefix, NEW k,
         \A field \in Fields :
           /\ <<prefix, k, field>> \in DOMAIN env
           /\ env[<<prefix, k, field>>] = Field(entry, field, host.wraps)
  PROVE  KernelRoute(Value(env, <<prefix, k, "ADDR">>), MaskGiven(env, prefix, k))
           = Meaning(entry)
<1> DEFINE mask == Meaning(entry).mask
<1>1. Value(env, <<prefix, k, "ADDR">>) = entry.network
  BY DEF Fields, Value, Field
<1>2. /\ Value(env, <<prefix, k, "MASK">>) = Field(entry, "MASK", host.wraps)
      /\ Value(env, <<prefix, k, "MASKLEN">>) = Field(entry, "MASKLEN", host.wraps)
  BY DEF Fields, Value
<1>3. IsMask(mask) /\ Meaning(entry).network = entry.network
  BY DEF IsIpv4, IsRoute, Meaning, KernelRoute
<1>4. host.tool \in {"ip", "route"} /\ host.wraps \in BOOLEAN
  BY DEF Hosts
<1>5. entry.form \in {"dotted", "length"} /\ entry.length \in 0..Width
  BY DEF IsIpv4
<1>6. CASE entry.form = "dotted"
  <2>1. mask = entry.mask
    BY <1>6 DEF Meaning, KernelRoute
  <2>2. /\ Field(entry, "MASK", host.wraps) = mask
        /\ Field(entry, "MASKLEN", host.wraps) = Cardinality(mask)
    BY <1>3, <1>6, <2>1, LengthTellsMask DEF Field, PrefixLength, PrefixLengthFromMask
  <2>3. MaskGiven(env, prefix, k) = mask
    BY <1>2, <1>3, <1>4, <2>2, LengthTellsMask DEF MaskGiven
  <2> QED  BY <1>1, <1>3, <2>1, <2>3, <1>6 DEF Meaning, KernelRoute
<1>7. CASE entry.form = "length"
  <2>1. mask = {bit \in Bits : bit >= Width - entry.length}
    BY <1>7 DEF Meaning, KernelRoute
  <2>2. /\ Field(entry, "MASK", host.wraps) = mask
        /\ Field(entry, "MASKLEN", host.wraps) = entry.length
    BY <1>4, <1>5, <1>7, <2>1, MaskBits DEF Field
  <2>3. MaskGiven(env, prefix, k) = mask
    BY <1>2, <1>4, <1>5, <2>1, <2>2, MaskBits DEF MaskGiven
  <2> QED  BY <1>1, <1>7, <2>1, <2>3 DEF Meaning, KernelRoute
<1> QED  BY <1>5, <1>6, <1>7

\* vpnc-script is given every route of IPv4 that is pushed.
LEMMA MeaningsAreGiven ==
  ASSUME host \in Hosts, ip \in IpInfos, ignorePushedDns \in BOOLEAN, ~CutShort(ip),
         NEW prefix \in Prefixed
  PROVE  /\ Meanings(ListOf(ip, prefix)) \subseteq Given(Received(Built), prefix)
         /\ Meanings(ListOf(ip, prefix)) # {} => <<prefix>> \in DOMAIN Received(Built)
<1> DEFINE list == ListOf(ip, prefix)
           env == Received(Built)
<1> SUFFICES ASSUME NEW route \in Meanings(list)
             PROVE  route \in Given(env, prefix) /\ <<prefix>> \in DOMAIN env
  OBVIOUS
<1>1. list \in Seq(Routes)
  BY DEF ListOf, IpInfos
<1>2. PICK i \in 1..Len(list) : IsIpv4(list[i]) /\ route = Meaning(list[i])
  BY DEF Meanings
<1>3. i \in Indexable(list) /\ list[i] \in Routes
  BY <1>1, <1>2, LenProperties, ElementOfSeq DEF Indexable, IsIpv4
<1> DEFINE size == Cardinality(Indexable(list))
<1>4. size \in Nat /\ HasEntry(env, prefix, size, list[i], host.wraps)
  BY <1>3, EntriesAreReceived
<1>5. PICK k \in 0..size - 1 : \A field \in Fields :
        /\ <<prefix, k, field>> \in DOMAIN env
        /\ env[<<prefix, k, field>>] = Field(list[i], field, host.wraps)
  BY <1>4 DEF HasEntry
<1>6. route = KernelRoute(Value(env, <<prefix, k, "ADDR">>), MaskGiven(env, prefix, k))
  BY <1>2, <1>3, <1>5, EntryMeansRoute
<1>7. <<prefix>> \in DOMAIN env /\ env[<<prefix>>] = size
  BY <1>4 DEF HasEntry
<1> QED  BY <1>6, <1>7 DEF Given

-----------------------------------------------------------------------------
(* The session. *)

IsKernelRoute(route) == route = KernelRoute(route.network, route.mask)

Phases == {"connecting", "configured", "up", "ending", "over", "terminated"}

Types ==
    /\ host \in Hosts /\ ip \in IpInfos /\ installed \in IpInfos
    /\ ignorePushedDns \in BOOLEAN /\ useHelper \in BOOLEAN
    /\ phase \in Phases /\ helperEnded \in BOOLEAN
    /\ \A route \in tunnel : IsRoute(route) /\ IsKernelRoute(route)

\* Nothing is configured at first, and only what could be parsed ever is.
ConfiguredParsed ==
    /\ phase = "connecting" => outside = {} /\ resolver = "system" /\ refused = {}
    /\ phase \in {"configured", "up", "ending"} => ~Throws(installed)

\* Nothing is pushed anew before the session is up.
InstalledIsLatest == phase \in {"connecting", "configured"} => ip = installed

\* What was not received is of what was installed, or of what was to be taken back.
RefusedSplitDns ==
    refused # {} =>
        /\ <<"CISCO_SPLIT_DNS">> \in refused
        /\ CutShort(installed) \/ (phase = "over" /\ CutShort(ip))

\* Of a first block that was cut short nothing was configured, and the helper only
\* ended after such a block.
NothingOfCutShort ==
    /\ CutShort(installed) => outside = {} /\ resolver = "system"
    /\ helperEnded => CutShort(installed)

\* Each route that was asked for is there, or could not be added.
RoutesAccounted ==
    phase \in {"configured", "up"} /\ ~CutShort(installed) =>
        Meanings(installed.includes) \subseteq tunnel \cup failed

\* The report is of what is there.
ReportIsOfTunnel ==
    phase = "up" =>
        report = Reconcile(Pushed(installed.includes),
                           {ParseLine(LineOf(route)) : route \in tunnel})

\* The pushed resolvers are used only where they were pushed and are wanted.
ResolversWanted ==
    resolver = "system" \/ (resolver = "pushed" /\ ~ignorePushedDns)

RoutesInv ==
    /\ Types /\ ConfiguredParsed /\ InstalledIsLatest /\ RefusedSplitDns
    /\ NothingOfCutShort /\ RoutesAccounted /\ ReportIsOfTunnel /\ ResolversWanted
    /\ TakenBack

-----------------------------------------------------------------------------
\* What the script gives the kernel are routes of a network and a mask.
LEMMA GivenAreKernelRoutes ==
  ASSUME NEW env, NEW route \in Inside(env)
  PROVE  IsKernelRoute(route)
<1>1. PICK network, mask : route = KernelRoute(network, mask)
  <2>1. CASE route \in Own(env)
    BY <2>1 DEF Own
  <2>2. CASE route \in Given(env, "CISCO_SPLIT_INC")
    BY <2>2 DEF Given
  <2>3. CASE route = KernelRoute({}, {})
    BY <2>3
  <2> QED  BY <2>1, <2>2, <2>3, route \in Inside(env) DEF Inside
<1>2. route.network = network /\ route.mask = mask
  BY <1>1 DEF KernelRoute
<1> QED  BY <1>1, <1>2 DEF IsKernelRoute

\* SetupTun: the script is given every route, and ends the client if one cannot be
\* parsed, before anything is configured.
LEMMA ConfigureKeepsInv ==
  ASSUME RoutesInv, Configure
  PROVE  RoutesInv'
<1> USE DEF RoutesInv
<1>1. /\ phase = "connecting" /\ ip = installed
      /\ UNCHANGED <<host, ip, ignorePushedDns, useHelper, installed, report>>
  BY DEF Configure, InstalledIsLatest, optionVars
<1>2. host \in Hosts /\ ip \in IpInfos /\ ignorePushedDns \in BOOLEAN
  BY DEF Types
<1>3. CASE Throws(ip)
  <2>1. /\ phase' = "terminated"
        /\ UNCHANGED <<tunnel, outside, resolver, helperEnded, refused, failed>>
    BY <1>1, <1>3 DEF Configure, Terminate, kernelVars, scriptVars
  <2>2. Types'
    BY <1>1, <2>1 DEF Types, Phases
  <2>3. TakenBack'
    BY <1>1, <2>1 DEF TakenBack, ConfiguredParsed
  <2> QED  BY <1>1, <2>1, <2>2, <2>3 DEF ConfiguredParsed, InstalledIsLatest, CutShort,
           RefusedSplitDns, NothingOfCutShort, RoutesAccounted, ReportIsOfTunnel,
           ResolversWanted
<1>4. CASE ~Throws(ip)
  <2> DEFINE env == Received(Built)
             given == Inside(env) \cup Outside(env)
  <2>1. PICK added \in SUBSET {route \in given : IsRoute(route)}, ok \in BOOLEAN :
          /\ tunnel' = Inside(env) \cap added
          /\ outside' = Outside(env) \cap added
          /\ resolver' = IF HasResolvers(env) THEN "pushed" ELSE resolver
          /\ helperEnded' = (useHelper /\ EndsHelper(Built))
          /\ refused' = DOMAIN Built \ DOMAIN env
          /\ failed' = given \ added
          /\ phase' = IF ok THEN "configured" ELSE "ending"
    BY <1>1, <1>4 DEF Configure, RunConnectScript
  <2>2. ~CutShort(ip) => Meanings(ip.includes) \subseteq Inside(env)
    <3> SUFFICES ASSUME ~CutShort(ip) PROVE Meanings(ip.includes) \subseteq Inside(env)
      OBVIOUS
    <3>1. /\ Meanings(ip.includes) \subseteq Given(env, "CISCO_SPLIT_INC")
          /\ Meanings(ip.includes) # {} => <<"CISCO_SPLIT_INC">> \in DOMAIN env
      BY <1>2, MeaningsAreGiven DEF Prefixed, ListOf
    <3>2. <<"TUNDEV">> \in DOMAIN env
      BY <1>2, NameIsReceived
    <3> QED  BY <3>1, <3>2 DEF Inside
  <2>3. Types'
    <3>1. \A route \in tunnel' : IsRoute(route) /\ IsKernelRoute(route)
      BY <2>1, GivenAreKernelRoutes
    <3>2. (\A route \in tunnel : IsRoute(route) /\ IsKernelRoute(route))'
      BY <1>1, <3>1 DEF IsRoute, IsMask, IsKernelRoute, KernelRoute
    <3>3. helperEnded' \in BOOLEAN
      BY <2>1
    <3> QED  BY <1>1, <2>1, <3>2, <3>3 DEF Types, Phases
  <2>4. RefusedSplitDns'
    BY <1>1, <1>2, <2>1, RefusedIsCutShort DEF RefusedSplitDns, CutShort
  <2>5. RoutesAccounted'
    BY <1>1, <2>1, <2>2 DEF RoutesAccounted, CutShort
  <2>8. NothingOfCutShort'
    <3>1. CutShort(ip) => outside' = {} /\ resolver' = "system"
      BY <1>1, <1>2, <2>1, CutShortConfiguresNothing DEF ConfiguredParsed
    <3>2. helperEnded' => CutShort(ip)
      BY <1>2, <2>1, WhatIsCutShort DEF EndsHelper
    <3> QED  BY <1>1, <3>1, <3>2 DEF NothingOfCutShort, CutShort
  <2>6. ResolversWanted'
    BY <1>1, <1>2, <2>1, ResolversAreReceived DEF ResolversWanted
  <2>7. phase' \in {"configured", "ending"}
    BY <2>1
  <2>9. TakenBack'
    BY <1>1, <2>6, <2>7 DEF TakenBack, ResolversWanted
  <2> QED  BY <1>1, <1>4, <2>3, <2>4, <2>5, <2>6, <2>7, <2>8, <2>9 DEF ConfiguredParsed,
           InstalledIsLatest, ReportIsOfTunnel
<1> QED  BY <1>3, <1>4

\* The report, a reconnect, and the end of the mainloop.
LEMMA UpKeepsInv ==
  ASSUME RoutesInv, MakeReport \/ PushAgain \/ MainloopReturns
  PROVE  RoutesInv'
<1> USE DEF RoutesInv
<1>1. /\ UNCHANGED <<host, ignorePushedDns, useHelper, tunnel, outside, resolver,
                     installed, helperEnded, refused, failed>>
      /\ phase \in {"configured", "up"} /\ phase' \in {"up", "ending"}
  BY DEF MakeReport, PushAgain, MainloopReturns, optionVars, kernelVars, scriptVars
<1>2. Types'
  <2>1. ip' \in IpInfos
    BY OffersAssumption DEF MakeReport, PushAgain, MainloopReturns, Types
  <2> QED  BY <1>1, <2>1 DEF Types, Phases
<1>3. ReportIsOfTunnel'
  <2>1. CASE MakeReport
    BY <1>1, <2>1 DEF ReportIsOfTunnel, MakeReport, InstalledIsLatest
  <2>2. CASE PushAgain
    BY <1>1, <2>2 DEF ReportIsOfTunnel, PushAgain
  <2>3. CASE MainloopReturns
    BY <2>3 DEF ReportIsOfTunnel, MainloopReturns
  <2> QED  BY <2>1, <2>2, <2>3
<1>4. ConfiguredParsed' /\ InstalledIsLatest' /\ RefusedSplitDns' /\ NothingOfCutShort'
      /\ RoutesAccounted' /\ ResolversWanted' /\ TakenBack'
  BY <1>1 DEF ConfiguredParsed, InstalledIsLatest, RefusedSplitDns, NothingOfCutShort,
     RoutesAccounted, ResolversWanted, TakenBack, CutShort
<1> QED  BY <1>2, <1>3, <1>4

\* The destructor: the script is given again every excluded route that is pushed
\* now, and a route that cannot be parsed came with a reconnect.
LEMMA DestroyKeepsInv ==
  ASSUME RoutesInv, Destroy
  PROVE  RoutesInv'
<1> USE DEF RoutesInv
<1>1. /\ phase = "ending" /\ ~Throws(installed)
      /\ UNCHANGED <<host, ip, ignorePushedDns, useHelper, installed>>
  BY DEF Destroy, ConfiguredParsed, optionVars
<1>2. host \in Hosts /\ ip \in IpInfos /\ ignorePushedDns \in BOOLEAN
  BY DEF Types
<1>3. CASE Throws(ip)
  <2>1. /\ phase' = "terminated"
        /\ UNCHANGED <<tunnel, outside, resolver, helperEnded, refused, failed>>
    BY <1>3 DEF Destroy, Terminate, kernelVars, scriptVars
  <2>2. Types'
    BY <1>1, <2>1 DEF Types, Phases
  <2>3. TakenBack'
    BY <1>1, <1>3, <2>1 DEF TakenBack, ResolversWanted
  <2> QED  BY <1>1, <2>1, <2>2, <2>3 DEF ConfiguredParsed, InstalledIsLatest, CutShort,
           RefusedSplitDns, NothingOfCutShort, RoutesAccounted, ReportIsOfTunnel,
           ResolversWanted
<1>4. CASE ~Throws(ip) /\ helperEnded
  <2>1. /\ phase' = "over" /\ tunnel' = {}
        /\ UNCHANGED <<outside, resolver, helperEnded, refused, failed>>
    BY <1>4 DEF Destroy, FindHelperGone, scriptVars
  <2>2. Types'
    BY <1>1, <2>1 DEF Types, Phases
  <2>3. outside' = {} /\ resolver' = "system"
    BY <1>4, <2>1 DEF NothingOfCutShort
  <2>4. TakenBack'
    BY <1>1, <2>1, <2>3 DEF TakenBack
  <2> QED  BY <1>1, <2>1, <2>2, <2>3, <2>4 DEF ConfiguredParsed, InstalledIsLatest, CutShort,
           RefusedSplitDns, NothingOfCutShort, RoutesAccounted, ReportIsOfTunnel,
           ResolversWanted
<1>5. CASE ~Throws(ip) /\ ~helperEnded
  <2> DEFINE env == Received(Built)
             given == outside \cap Outside(env)
  <2>1. PICK deleted \in SUBSET given :
          /\ tunnel' = {}
          /\ outside' = outside \ deleted
          /\ resolver' = IF HasResolvers(env) THEN "system" ELSE resolver
          /\ refused' = DOMAIN Built \ DOMAIN env
          /\ failed' = given \ deleted
          /\ phase' = "over"
          /\ UNCHANGED helperEnded
    BY <1>5 DEF Destroy, RunDisconnectScript
  <2>2. ~CutShort(ip) => Meanings(ip.excludes) \subseteq Outside(env)
    BY <1>2, MeaningsAreGiven DEF Prefixed, ListOf, Outside
  <2>3. Types'
    BY <1>1, <2>1 DEF Types, Phases
  <2>4. RefusedSplitDns'
    BY <1>1, <1>2, <2>1, RefusedIsCutShort DEF RefusedSplitDns, CutShort
  <2>5. ResolversWanted'
    BY <1>1, <2>1 DEF ResolversWanted
  <2>6. TakenBack'
    <3>1. CASE ~CutShort(ip)
      <4>1. outside' \cap Meanings(ip.excludes) \subseteq failed'
        BY <2>1, <2>2, <3>1
      <4>2. ip.dns \/ ignorePushedDns => resolver' = "system"
        BY <1>2, <2>1, <3>1, ResolversAreReceived DEF ResolversWanted
      <4> QED  BY <1>1, <2>1, <2>5, <4>1, <4>2 DEF TakenBack, ResolversWanted
    <3>2. CASE CutShort(ip)
      <4>1. ip = installed => outside' = {} /\ resolver' = "system"
        BY <2>1, <3>2 DEF NothingOfCutShort
      <4>2. CutShort(ip)'
        BY <1>1, <3>2 DEF CutShort
      <4> QED  BY <1>1, <2>1, <2>5, <4>1, <4>2 DEF TakenBack, ResolversWanted
    <3> QED  BY <3>1, <3>2
  <2>7. NothingOfCutShort'
    BY <1>1, <2>1 DEF NothingOfCutShort, CutShort
  <2> QED  BY <1>1, <2>1, <2>3, <2>4, <2>5, <2>6, <2>7 DEF ConfiguredParsed,
           InstalledIsLatest, RoutesAccounted, ReportIsOfTunnel
<1> QED  BY <1>3, <1>4, <1>5

\* The invariant of a tunnel's routes: what was asked for is accounted for, the
\* report is of what is there, and only what could be parsed was ever configured
\* (vpn_session.hpp:337-402, vpnc_environment.hpp:18-152).
THEOREM Invariance == Spec => []RoutesInv
<1>1. Init => RoutesInv
  <2> SUFFICES ASSUME Init PROVE RoutesInv
    OBVIOUS
  <2>1. Types
    BY OffersAssumption DEF Init, Types, Phases
  <2>2. ConfiguredParsed /\ InstalledIsLatest /\ RefusedSplitDns /\ NothingOfCutShort
        /\ RoutesAccounted /\ ReportIsOfTunnel /\ ResolversWanted /\ TakenBack
    BY DEF Init, ConfiguredParsed, InstalledIsLatest, RefusedSplitDns, NothingOfCutShort,
       RoutesAccounted, ReportIsOfTunnel, ResolversWanted, TakenBack
  <2> QED  BY <2>1, <2>2 DEF RoutesInv
<1>2. RoutesInv /\ [Next]_vars => RoutesInv'
  <2>1. CASE Next
    BY <2>1, ConfigureKeepsInv, UpKeepsInv, DestroyKeepsInv DEF Next
  <2>2. CASE UNCHANGED vars
    BY <2>2 DEF vars, optionVars, kernelVars, scriptVars, RoutesInv, Types,
       ConfiguredParsed, InstalledIsLatest, RefusedSplitDns, NothingOfCutShort,
       RoutesAccounted, ReportIsOfTunnel, ResolversWanted, TakenBack, CutShort
  <2> QED  BY <2>1, <2>2
<1> QED  BY <1>1, <1>2, PTL DEF Spec

\* For any settings, with the helper or without, vpnc-script receives every variable,
\* unless the helper stopped reading at a line of split DNS that ReadLine does not
\* take (vpnc_environment.hpp:10-12, tun_protocol.hpp:98-118).
THEOREM AllowlistInStep == Spec => []NothingRefused
<1>1. RoutesInv => NothingRefused
  BY DEF RoutesInv, RefusedSplitDns, NothingRefused
<1> QED  BY <1>1, Invariance, PTL

\* For addresses of any width and any pushed routes, a route of IPv4 with a suffix
\* is reported missing only if the script failed at it or never read of it since the
\* split DNS before was too long, and applied only if it is in the kernel's table
\* (route_reconciler.hpp:11, 67-147).
THEOREM MissingIsFailed == Spec => []MissingMeansFailed
<1>1. RoutesInv => MissingMeansFailed
  <2> SUFFICES ASSUME RoutesInv, phase = "up",
                      NEW route \in Meanings(installed.includes)
               PROVE  LET cidr == Cidr(route.network, Cardinality(route.mask)) IN
                      /\ cidr \in report.missing => route \in failed \/ CutShort(installed)
                      /\ cidr \in report.applied => route \in tunnel
    BY DEF MissingMeansFailed
  <2> DEFINE cidr(r) == Cidr(r.network, Cardinality(r.mask))
             kernel == {ParseLine(LineOf(r)) : r \in tunnel}
  <2>1. /\ report.missing = Pushed(installed.includes) \ kernel
        /\ report.applied = Pushed(installed.includes) \cap kernel
    BY DEF RoutesInv, ReportIsOfTunnel, Reconcile
  <2>2. IsRoute(route) /\ IsKernelRoute(route)
    <3>1. PICK i \in 1..Len(installed.includes) :
             /\ IsIpv4(installed.includes[i])
             /\ route = Meaning(installed.includes[i])
      BY DEF Meanings
    <3>2. PICK network, mask : route = KernelRoute(network, mask)
      BY <3>1 DEF Meaning
    <3>3. route.network = network /\ route.mask = mask
      BY <3>2 DEF KernelRoute
    <3> QED  BY <3>1, <3>2, <3>3 DEF IsIpv4, IsKernelRoute
  <2>3. \A r : IsRoute(r) => /\ r.network \in Addresses /\ r.mask \in Addresses
                             /\ r.mask = MaskFromPrefix(Cardinality(r.mask), TRUE)
    BY LengthTellsMask DEF IsRoute, Addresses
  <2>4. \A r \in tunnel : IsRoute(r) /\ ParseLine(LineOf(r)) = cidr(r)
    BY <2>3, ReadBack DEF RoutesInv, Types
  <2>5. route \in tunnel \cup failed \/ CutShort(installed)
    BY DEF RoutesInv, RoutesAccounted
  <2>6. cidr(route) \in report.missing => route \in failed \/ CutShort(installed)
    BY <2>1, <2>4, <2>5
  <2>7. ASSUME cidr(route) \in report.applied
        PROVE  route \in tunnel
    <3>1. PICK r \in tunnel : cidr(r) = cidr(route)
      BY <2>1, <2>4, <2>7
    <3>2. r.network = route.network /\ Cardinality(r.mask) = Cardinality(route.mask)
      BY <3>1 DEF Cidr
    <3>3. r.mask = route.mask
      BY <2>2, <2>3, <2>4, <3>2
    <3>4. route = KernelRoute(route.network, route.mask) /\ r = KernelRoute(r.network, r.mask)
      BY <2>2 DEF RoutesInv, Types, IsKernelRoute
    <3> QED  BY <3>2, <3>3, <3>4
  <2> QED  BY <2>6, <2>7
<1> QED  BY <1>1, Invariance, PTL

\* The second run of vpnc-script takes back what the first did outside the tunnel,
\* as far as the gateway still pushes it and the helper reads it, and pushed
\* resolvers that are not wanted are never used (vpn_session.hpp:395-396).
THEOREM RoutesTakenBack == Spec => []TakenBack
<1>1. RoutesInv => TakenBack
  BY DEF RoutesInv
<1> QED  BY <1>1, Invariance, PTL

=============================================================================
