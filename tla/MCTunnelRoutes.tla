---------------------------- MODULE MCTunnelRoutes ----------------------------
(***************************************************************************)
(* Settings to check TunnelRoutes with: addresses of two octets of two     *)
(* bits, and every form of a pushed route next to every other.             *)
(***************************************************************************)
EXTENDS TunnelRoutes

Route(network, form, mask, length) ==
    [network |-> network, form |-> form, mask |-> mask, length |-> length]
Dotted(network, mask) == Route(network, "dotted", mask, 0)
Prefixed(network, length) == Route(network, "length", NoAddress, length)

\* Routes of the same network in both forms, of a host, of everything, with bits
\* outside the mask, with a gap in the mask, of IPv6, and malformed ones.
MCRoutes ==
    {Dotted({3}, {2, 3}), Prefixed({3}, 2), Prefixed({1, 3}, 3), Prefixed({0, 3}, 4),
     Prefixed({}, 0), Prefixed({0, 3}, 2), Dotted({3}, {1, 3}), Prefixed(Ip6, 6),
     Dotted({3}, NoAddress), Route({3}, "bare", NoAddress, 0),
     Route({3}, "word", NoAddress, 0), Route({}, "absent", NoAddress, 0)}

MCLists == {<<>>} \cup {<<a>> : a \in MCRoutes} \cup {<<a, b>> : a, b \in MCRoutes}

IpInfo(netmask, dns, splitDns, includes, excludes) ==
    [address |-> {0, 2, 3}, netmask |-> netmask, ip6 |-> splitDns > 0, mtu |-> splitDns,
     dns |-> dns, splitDns |-> splitDns, includes |-> includes, excludes |-> excludes]

ShortLists == {<<>>} \cup {<<a>> : a \in MCRoutes}

\* Split DNS that fits a line, one that does not, and one whose rest does not.
MCOffers ==
    {IpInfo(NoAddress, TRUE, 0, list, <<>>) : list \in MCLists}
    \cup {IpInfo({1, 2, 3}, TRUE, 1, <<Prefixed({1, 3}, 3)>>, list) : list \in MCLists}
    \cup {IpInfo({1, 2, 3}, TRUE, splitDns, <<Prefixed({1, 3}, 3)>>, list) :
              splitDns \in {2, 4}, list \in ShortLists}

MCReoffers ==
    {IpInfo({1, 2, 3}, dns, 1, <<>>, list) : dns \in BOOLEAN, list \in ShortLists}
    \cup {IpInfo({1, 2, 3}, TRUE, 2, <<>>, list) : list \in ShortLists}

=============================================================================
