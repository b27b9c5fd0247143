---------------------------- MODULE WebhookTarget ----------------------------
(***************************************************************************)
(* Where a webhook may go: the check of the URL when a job is created and    *)
(* again before the POST, and the check of the address the host name         *)
(* resolved to, at the moment of connecting.                               *)
(*                                                                         *)
(* An address is its form ("4", "6", or "mapped": IPv4 in IPv6), the network  *)
(* it lies in, and whether it has a zone.                                   *)
(***************************************************************************)
EXTENDS Naturals

\* The predicates of netip.Addr: not IsGlobalUnicast (which takes the loopback
\* and link-local out as well); IsPrivate.
NotGlobalUnicast == {"unspecified", "loopback", "linkLocal", "multicast", "broadcast"}
Private == {"private", "uniqueLocal"}

\* The part of 2000::/3 that the server can meet, and webhookBlockedNetworks.
GlobalUnicast6 == {"global", "teredo", "documentation6", "6to4"}
Blocked == {"thisNetwork", "shared", "ietf", "testNet", "benchmark", "reserved",
            "teredo", "documentation6", "6to4"}

\* Every address of IPv4 lies in one of these.
Networks4 == {"global"} \cup NotGlobalUnicast \cup Private \cup (Blocked \ GlobalUnicast6)

Unmap(a) == IF a.form = "mapped" THEN [a EXCEPT !.form = "4"] ELSE a

\* publicWebhookIP
PublicIP(ip) ==
    LET a == Unmap(ip) IN
    /\ a.net \notin NotGlobalUnicast \cup Private /\ ~a.zone
    /\ a.form = "6" => a.net \in GlobalUnicast6
    /\ a.net \notin Blocked

\* validateWebhookHost; a host is a name, which may spell an address.
HostAllowed(host) ==
    IF host.literal THEN PublicIP(host.address) ELSE host.name # "local"

\* ValidateURL
URLAllowed(u) ==
    /\ u.parses
    /\ u.scheme = "https"
    /\ u.host.name # "none"
    /\ ~u.extra        \* user information or a fragment
    /\ HostAllowed(u.host)

\* The addresses that a connection to the host may try: DNS may give any.
Resolve(host, addresses) == IF host.literal THEN {host.address} ELSE addresses
=============================================================================
