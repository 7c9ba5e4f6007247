---------------------------- MODULE RouteReconciler ----------------------------
(***************************************************************************)
(* How the kernel's routes are read back (core/route_table.hpp) and        *)
(* compared with the pushed ones (core/route_reconciler.hpp).              *)
(***************************************************************************)
EXTENDS Ip4, Sequences

Cidr(destination, prefixLength) ==
    [destination |-> destination, prefixLength |-> prefixLength]

\* A suffix that is neither a mask nor a length.
NotALength == -1

DefaultRoute == Cidr({}, 0)

\* /proc/net/route shows an address with its octets swapped.
HexToDottedQuad(hex) == Swapped(hex)

ParseLine(line) ==
    Cidr(HexToDottedQuad(line.destination), PrefixLengthFromMask(line.mask))

Normalise(route) ==
    Cidr(route.network,
         CASE route.form = "bare" -> Width
           [] route.form = "length" -> route.length
           [] route.form = "dotted" -> PrefixLength(route.mask)
           [] route.form = "word" -> NotALength)

\* The routes that TunnelInfo collects and Reconcile looks up, in comparable form.
Pushed(list) == {Normalise(list[i]) : i \in {j \in 1..Len(list) : list[j].form # "absent"}}

\* An applied route is not looked at again, the default route included.
Reconcile(pushed, kernel) ==
    [applied |-> pushed \cap kernel, missing |-> pushed \ kernel,
     unexpected |-> kernel \ pushed, fullTunnel |-> DefaultRoute \in kernel \ pushed]

=============================================================================
