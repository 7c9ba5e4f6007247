---------------------------- MODULE VpncEnvironment ----------------------------
(***************************************************************************)
(* The environment vpnc-script is given (core/vpnc_environment.hpp), and   *)
(* what the helper lets through (main_helper.cpp).                         *)
(*                                                                         *)
(* A variable's name is <<name>>, or <<name, index, field>> for one of a   *)
(* split route.  A pushed route is a network and a suffix in one of the    *)
(* forms gateways use: "10.0.1.0" alone, a dotted mask that parses or not, *)
(* a length, or a word that is no number; "absent" is a null pointer.      *)
(***************************************************************************)
EXTENDS Ip4, Sequences

CONSTANTS
    Ip6,                \* a network that is an IPv6 one
    LineLimit           \* the line length at which ReadLine gives up; 4096

ASSUME LengthAssumption == LineLimit \in Nat \ {0}

Forms == {"absent", "bare", "dotted", "length", "word"}
Routes ==
    [network : Addresses \cup {Ip6}, form : Forms,
     mask : Addresses \cup {NoAddress}, length : Nat]

\* What libopenconnect holds of the gateway's settings.  The names of split DNS
\* are told apart only by the length of the line they make, 0 without any.
IpInfos ==
    [address : Addresses, netmask : Addresses \cup {NoAddress}, ip6 : BOOLEAN, mtu : Nat,
     dns : BOOLEAN, splitDns : Nat, includes : Seq(Routes), excludes : Seq(Routes)]

-----------------------------------------------------------------------------

Fields == {"ADDR", "MASK", "MASKLEN"}

Field(route, field, wraps) ==
    CASE field = "ADDR" -> route.network
      [] field = "MASK" ->
            IF route.form = "dotted" THEN route.mask ELSE MaskFromPrefix(route.length, wraps)
      [] field = "MASKLEN" ->
            IF route.form = "dotted" THEN PrefixLength(route.mask) ELSE route.length

\* The variables of one environment over those of another.
Over(env, more) ==
    [name \in DOMAIN env \cup DOMAIN more |->
        IF name \in DOMAIN env THEN env[name] ELSE more[name]]

\* The entries with a suffix; each is indexed by how many come before it.
Indexable(list) == {i \in DOMAIN list : list[i].form \notin {"absent", "bare"}}
IndexOf(i, indexable) == Cardinality(indexable \cap (1..i - 1))

Count(prefix, indexable) == [name \in {<<prefix>>} |-> Cardinality(indexable)]

\* A slip: the index also counts the entries that are skipped.
AddSplitListWithGaps(prefix, list, wraps) ==
    IF Indexable(list) = {} THEN << >>
    ELSE Over(Count(prefix, Indexable(list)),
              [name \in {prefix} \X {i - 1 : i \in Indexable(list)} \X Fields |->
                  Field(list[name[2] + 1], name[3], wraps)])

AddSplitList(prefix, list, wraps) ==
    LET indexable == Indexable(list)
        Entry(index) == list[CHOOSE i \in indexable : IndexOf(i, indexable) = index] IN
    IF indexable = {} THEN << >>
    ELSE Over(Count(prefix, indexable),
              [name \in {prefix} \X (0..Cardinality(indexable) - 1) \X Fields |->
                  Field(Entry(name[2]), name[3], wraps)])

\* std::stoi throws on the suffix of one of them.
Throws(ip) ==
    \E list \in {ip.includes, ip.excludes} :
        \E i \in 1..Len(list) : list[i].form = "word"

\* The variables that are set.
SettingNames(ip, ignoreDns) ==
    {"TUNDEV", "VPNGATEWAY", "VPNPID", "INTERNAL_IP4_ADDRESS"}
    \cup (IF ip.mtu > 0 THEN {"INTERNAL_IP4_MTU"} ELSE {})
    \cup (IF ip.ip6 THEN {"INTERNAL_IP6_ADDRESS", "INTERNAL_IP6_NETMASK"} ELSE {})
    \cup (IF ip.netmask = NoAddress THEN {}
          ELSE {"INTERNAL_IP4_NETMASK", "INTERNAL_IP4_NETMASKLEN", "INTERNAL_IP4_NETADDR"})
    \cup (IF ignoreDns THEN {}
          ELSE {"INTERNAL_IP4_DNS", "INTERNAL_IP4_NBNS"}
               \cup (IF ip.dns THEN {"CISCO_DEF_DOMAIN"} ELSE {})
               \cup (IF ip.splitDns > 0 THEN {"CISCO_SPLIT_DNS"} ELSE {}))

Setting(ip, name) ==
    CASE name = "INTERNAL_IP4_ADDRESS" -> ip.address
      [] name = "INTERNAL_IP4_MTU" -> ip.mtu
      [] name = "INTERNAL_IP4_NETMASK" -> ip.netmask
      [] name = "INTERNAL_IP4_NETMASKLEN" -> PrefixLength(ip.netmask)
      [] name = "INTERNAL_IP4_NETADDR" -> NetworkAddress(ip.address, ip.netmask)
      [] name \in {"INTERNAL_IP4_DNS", "INTERNAL_IP4_NBNS", "CISCO_DEF_DOMAIN"} -> ip.dns
      [] name = "CISCO_SPLIT_DNS" -> ip.splitDns
      [] OTHER -> "as it is"

Settings(ip, ignoreDns) ==
    [name \in {<<n>> : n \in SettingNames(ip, ignoreDns)} |-> Setting(ip, name[1])]

Build(ip, ignoreDns, wraps) ==
    Over(Settings(ip, ignoreDns),
         Over(AddSplitList("CISCO_SPLIT_INC", ip.includes, wraps),
              AddSplitList("CISCO_SPLIT_EXC", ip.excludes, wraps)))

-----------------------------------------------------------------------------
(* The helper *)

AllowedVariables ==
    {"reason", "VPNGATEWAY", "TUNDEV", "INTERNAL_IP4_ADDRESS", "INTERNAL_IP4_MTU",
     "INTERNAL_IP4_NETMASK", "INTERNAL_IP4_NETMASKLEN", "INTERNAL_IP4_NETADDR",
     "INTERNAL_IP4_DNS", "INTERNAL_IP4_NBNS", "INTERNAL_IP6_ADDRESS",
     "INTERNAL_IP6_NETMASK", "INTERNAL_IP6_DNS", "CISCO_DEF_DOMAIN", "CISCO_BANNER",
     "CISCO_SPLIT_DNS", "VPNPID", "IDLE_TIMEOUT"}

\* A slip: only the routes to include are indexed.
AllowedInclusions == {"CISCO_SPLIT_INC", "CISCO_IPV6_SPLIT_INC"}

AllowedPrefixes ==
    {"CISCO_SPLIT_INC", "CISCO_SPLIT_EXC", "CISCO_IPV6_SPLIT_INC", "CISCO_IPV6_SPLIT_EXC"}

IsAllowed(name) ==
    \/ Len(name) = 1 /\ name[1] \in AllowedVariables
    \/ name[1] \in AllowedPrefixes

\* The block is written in the order of the names, which has one before split DNS.
BeforeSplitDns == {<<"CISCO_DEF_DOMAIN">>}

IsTooLong(env) ==
    <<"CISCO_SPLIT_DNS">> \in DOMAIN env /\ env[<<"CISCO_SPLIT_DNS">>] >= LineLimit

\* ReadLine fails at a line that is too long, and the block ends there.
ReadBlock(env) ==
    IF IsTooLong(env) THEN DOMAIN env \cap BeforeSplitDns ELSE DOMAIN env

Passed(env) == [name \in {n \in ReadBlock(env) : IsAllowed(n)} |-> env[name]]

\* What follows is read as commands, which are unknown, from the rest of the line on:
\* if that is too long again, the helper takes it for the end of its client.
EndsHelper(env) ==
    IsTooLong(env) /\ env[<<"CISCO_SPLIT_DNS">>] >= 2 * LineLimit

=============================================================================
