------------------------------ MODULE TunnelRoutes ------------------------------
(***************************************************************************)
(* What becomes of the routes and resolvers a gateway pushes: they are     *)
(* made an environment, which the helper filters; vpnc-script acts on it;  *)
(* the kernel's table is read back and reported; a re-entry may push       *)
(* others; and the destructor runs vpnc-script on what was pushed last     *)
(* (core/vpn_session.hpp, SetupTun to Destroy).                            *)
(***************************************************************************)
EXTENDS VpncEnvironment, RouteReconciler

CONSTANTS
    Offers,             \* the settings gateways push
    Reoffers            \* those they push on a reconnect

ASSUME OffersAssumption == Offers \cup Reoffers \subseteq IpInfos

VARIABLES
    host,           \* the tool vpnc-script uses, and how the processor shifts
    ip,             \* libopenconnect's oc_ip_info
    ignorePushedDns,
    useHelper,
    phase,          \* of the session
    tunnel,         \* the kernel's routes on the tunnel's interface
    outside,        \* those vpnc-script added to other interfaces
    resolver,       \* whose resolvers the system uses
    report,         \* the RouteReport
    helperEnded,    \* by a block it could not read
    installed,      \* history: the settings vpnc-script was first run on
    refused,        \* history: the variables vpnc-script did not get
    failed          \* history: the routes vpnc-script was given in vain

optionVars == <<host, ignorePushedDns, useHelper>>
kernelVars == <<tunnel, outside, resolver>>
scriptVars == <<helperEnded, refused, failed>>
vars == <<optionVars, ip, phase, kernelVars, report, installed, scriptVars>>

\* ip(8) is told the length, route(8) the mask.
Hosts == [tool : {"ip", "route"}, wraps : BOOLEAN]

Init ==
    /\ host \in Hosts
    /\ ip \in Offers
    /\ ignorePushedDns \in BOOLEAN
    /\ useHelper \in BOOLEAN
    /\ phase = "connecting"
    /\ tunnel = {} /\ outside = {} /\ resolver = "system"
    /\ report = Reconcile({}, {})
    /\ helperEnded = FALSE
    /\ installed = ip /\ refused = {} /\ failed = {}

-----------------------------------------------------------------------------
(* The kernel and vpnc-script *)

KernelRoute(network, mask) == [network |-> network, mask |-> mask]

IsMask(mask) == \E length \in 0..Width : mask = MaskFromPrefix(length, TRUE)

\* What the kernel takes.
IsRoute(route) ==
    /\ route.network \notin {Ip6, NoAddress}
    /\ IsMask(route.mask)
    /\ route.network \subseteq route.mask

\* A line of /proc/net/route.
LineOf(route) == [destination |-> Swapped(route.network), mask |-> Swapped(route.mask)]

Value(env, name) == IF name \in DOMAIN env THEN env[name] ELSE NoAddress

MaskGiven(env, prefix, i) ==
    LET length == Value(env, <<prefix, i, "MASKLEN">>) IN
    CASE host.tool = "route" -> Value(env, <<prefix, i, "MASK">>)
      [] host.tool = "ip" ->
            IF length \in 0..Width THEN MaskFromPrefix(length, TRUE) ELSE NoAddress

Given(env, prefix) ==
    IF <<prefix>> \notin DOMAIN env THEN {}
    ELSE {KernelRoute(Value(env, <<prefix, i, "ADDR">>), MaskGiven(env, prefix, i)) :
             i \in 0..env[<<prefix>>] - 1}

Own(env) ==
    IF <<"INTERNAL_IP4_NETADDR">> \notin DOMAIN env THEN {}
    ELSE {KernelRoute(env[<<"INTERNAL_IP4_NETADDR">>], env[<<"INTERNAL_IP4_NETMASK">>])}

\* Without a list of routes to include, everything goes through the tunnel; without
\* its name, nothing can.
Inside(env) ==
    IF <<"TUNDEV">> \notin DOMAIN env THEN {}
    ELSE Own(env) \cup (IF <<"CISCO_SPLIT_INC">> \in DOMAIN env
                        THEN Given(env, "CISCO_SPLIT_INC") ELSE {KernelRoute({}, {})})

Outside(env) == Given(env, "CISCO_SPLIT_EXC")

HasResolvers(env) == <<"INTERNAL_IP4_DNS">> \in DOMAIN env /\ env[<<"INTERNAL_IP4_DNS">>]

-----------------------------------------------------------------------------
(* The session *)

\* std::stoi throws where nobody catches: in the worker thread, or in a destructor.
Terminate == phase' = "terminated" /\ UNCHANGED <<kernelVars, scriptVars>>

\* What RunVpncScript hands over, and the helper to the script.
Built == Build(ip, ignorePushedDns, host.wraps)
Received(env) == IF useHelper THEN Passed(env) ELSE env

\* Any of the routes may not be added, and the script may fail as a whole.
RunConnectScript ==
    LET env == Received(Built)
        given == Inside(env) \cup Outside(env) IN
    \E added \in SUBSET {route \in given : IsRoute(route)}, ok \in BOOLEAN :
        /\ tunnel' = Inside(env) \cap added
        /\ outside' = Outside(env) \cap added
        /\ resolver' = IF HasResolvers(env) THEN "pushed" ELSE resolver
        /\ helperEnded' = (useHelper /\ EndsHelper(Built))
        /\ refused' = DOMAIN Built \ DOMAIN env
        /\ failed' = given \ added
        /\ phase' = IF ok THEN "configured" ELSE "ending"

\* SetupTun, once it has a device.
Configure ==
    /\ phase = "connecting"
    /\ IF Throws(ip) THEN Terminate ELSE RunConnectScript
    /\ UNCHANGED <<optionVars, ip, report, installed>>

MakeReport ==
    /\ phase = "configured"
    /\ phase' = "up"
    /\ report' = Reconcile(Pushed(ip.includes), {ParseLine(LineOf(route)) : route \in tunnel})
    /\ UNCHANGED <<optionVars, ip, kernelVars, installed, scriptVars>>

\* libopenconnect reconnects; nothing here hears of the gateway's new settings.
PushAgain ==
    /\ phase = "up" /\ ip = installed
    /\ ip' \in Reoffers
    /\ UNCHANGED <<optionVars, phase, kernelVars, report, installed, scriptVars>>

MainloopReturns ==
    /\ phase = "up"
    /\ phase' = "ending"
    /\ UNCHANGED <<optionVars, ip, kernelVars, report, installed, scriptVars>>

\* A slip: the settings are freed before the script is run again.
DisconnectWithoutSettings ==
    /\ phase' = "over"
    /\ tunnel' = {}
    /\ UNCHANGED <<outside, resolver, scriptVars>>

\* The routes of the tunnel go with its interface.
RunDisconnectScript ==
    LET env == Received(Built)
        given == outside \cap Outside(env) IN
    \E deleted \in SUBSET given :
        /\ tunnel' = {}
        /\ outside' = outside \ deleted
        /\ resolver' = IF HasResolvers(env) THEN "system" ELSE resolver
        /\ refused' = DOMAIN Built \ DOMAIN env
        /\ failed' = given \ deleted
        /\ phase' = "over"
        /\ UNCHANGED helperEnded

\* There is nobody to run it any more; the client may also end by SIGPIPE.
FindHelperGone ==
    /\ phase' = "over"
    /\ tunnel' = {}
    /\ UNCHANGED <<outside, resolver, scriptVars>>

Destroy ==
    /\ phase = "ending"
    /\ CASE Throws(ip) -> Terminate
         [] ~Throws(ip) /\ helperEnded -> FindHelperGone
         [] ~Throws(ip) /\ ~helperEnded -> RunDisconnectScript
    /\ UNCHANGED <<optionVars, ip, report, installed>>

Next ==
    \/ Configure
    \/ MakeReport
    \/ PushAgain
    \/ MainloopReturns
    \/ Destroy

Spec == Init /\ [][Next]_vars

-----------------------------------------------------------------------------
(* Properties *)

\* What a pushed route stands for, if it is a route of IPv4.
Meaning(route) ==
    KernelRoute(route.network,
                IF route.form = "dotted" THEN route.mask
                ELSE {bit \in Bits : bit >= Width - route.length})

IsIpv4(route) ==
    /\ route.form \in {"dotted", "length"}
    /\ route.length \in 0..Width
    /\ IsRoute(Meaning(route))

Meanings(list) == {Meaning(list[i]) : i \in {j \in 1..Len(list) : IsIpv4(list[j])}}

\* These settings' names of split DNS make a line at which the helper stops reading.
CutShort(settings) ==
    useHelper /\ ~ignorePushedDns /\ settings.splitDns >= LineLimit

\* vpnc_environment.hpp:10-12, "keep them in step with the helper's allowlist":
\* every variable the client builds reaches vpnc-script through the helper as it
\* does without one, unless the line of split DNS is too long for ReadLine, which
\* costs that variable and all behind it.
NothingRefused ==
    refused # {} =>
        /\ \E settings \in {installed, ip} : CutShort(settings)
        /\ <<"CISCO_SPLIT_DNS">> \in refused

\* route_reconciler.hpp:11, "Missing means vpnc-script failed to install a pushed
\* route": so it is for a route of IPv4 with a suffix, whichever of the two forms
\* it is pushed in, whether ip(8) or route(8) adds it, and whether the helper is
\* in between, unless this never read of it since the line of split DNS before was
\* too long; and what is applied is in the kernel's table.
MissingMeansFailed ==
    phase = "up" =>
        \A route \in Meanings(installed.includes) :
            LET cidr == Cidr(route.network, Cardinality(route.mask)) IN
            /\ cidr \in report.missing => route \in failed \/ CutShort(installed)
            /\ cidr \in report.applied => route \in tunnel

\* vpn_session.hpp:395-396: the second run of vpnc-script takes back the routes
\* outside the tunnel and the resolvers, but for what it fails at, what the gateway
\* no longer pushed after a reconnect, and all of it if the gateway then pushed more
\* split DNS than the helper reads (too much of it at first configures nothing to
\* take back); a route that cannot be parsed ends the client before anything is
\* configured, unless it came with a reconnect; and resolvers the user does not
\* want are never used.
TakenBack ==
    /\ phase = "over" /\ (ip = installed \/ ~CutShort(ip)) =>
         /\ outside \cap Meanings(ip.excludes) \subseteq failed
         /\ ip.dns \/ ignorePushedDns => resolver = "system"
    /\ ignorePushedDns => resolver = "system"
    /\ phase = "terminated" /\ ip = installed => outside = {} /\ resolver = "system"

=============================================================================
