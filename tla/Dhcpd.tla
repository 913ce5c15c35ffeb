-------------------------------- MODULE Dhcpd -------------------------------
(* The DHCP server of netutils/dhcpd: the table of leases and the handlers   *)
(* of the four messages, for clients that send anything at any time.         *)
(*                                                                           *)
(* Addresses are numbers, those of the server StartIp .. EndIp, and 0 is no  *)
(* address.  Time passes in ticks, and an entry of the table holds the ticks *)
(* that are left, so that it has expired when none is.                       *)
EXTENDS Integers

CONSTANTS
    Macs,           \* hardware addresses of the clients
    NoMac,          \* the hardware address 00:00:00:00:00:00
    StartIp,        \* ds_startip
    EndIp,          \* ds_endip, StartIp + CONFIG_NETUTILS_DHCPD_MAXLEASES - 1
    Skip,           \* addresses that end in 0 or 255
    Me,             \* ds_serverip
    NoServer,       \* no DHCP_OPTION_SERVER_ID in a message
    Servers,        \* the servers on the network
    LEASETIME, MINLEASETIME, MAXLEASETIME, OFFERTIME, DECLINETIME

ASSUME AddrAssumption ==
    /\ StartIp \in Nat \ {0} /\ EndIp \in Nat /\ Skip \subseteq Nat
    /\ NoMac \notin Macs /\ Me \in Servers /\ NoServer \notin Servers
ASSUME TimeAssumption ==
    /\ LEASETIME \in Nat \ {0} /\ OFFERTIME \in Nat \ {0} /\ DECLINETIME \in Nat \ {0}
    /\ MINLEASETIME \in Nat \ {0} /\ MAXLEASETIME \in Nat \ {0}

VARIABLES
    leases,     \* ds_leases, by address
    granted     \* history: the lease last acknowledged to each client

dhcpdVars == <<leases, granted>>

Addrs == StartIp .. EndIp
Lease(mac, left) == [mac |-> mac, allocated |-> TRUE, left |-> left]
Free == [mac |-> NoMac, allocated |-> FALSE, left |-> 0]
NoGrant == [ip |-> 0, left |-> 0]
Max2(a, b) == IF a > b THEN a ELSE b

\* What the server reads of a message: its type, the client, the options
\* "server identifier", "requested address" and "lease time", and ciaddr.
Message == [type : {"discover", "request", "decline", "release", "inform"},
            mac : Macs, server : Servers \cup {NoServer},
            req : Nat, ci : Nat, time : Nat]

-----------------------------------------------------------------------------
\* dhcpd_findbymac: the first entry of the client, expired or not.
FindByMac(mac, ip) ==
    /\ leases[ip].mac = mac
    /\ \A i \in Addrs : i < ip => leases[i].mac # mac
Known(mac) == \E ip \in Addrs : leases[ip].mac = mac

\* dhcpd_findbyipaddr and dhcpd_leaseexpired.
Taken(ip) == leases[ip].allocated /\ leases[ip].left > 0

\* Mutant: the lease of another client is not looked at.
VerifyReqIpAny(ip) == ip \in Addrs

\* dhcpd_verifyreqip
VerifyReqIp(ip) == ip \in Addrs /\ ~Taken(ip)

\* dhcpd_allocipaddr: the first address that is not taken.
AllocIpAddr(ip) ==
    /\ ip \notin Skip /\ ~Taken(ip)
    /\ \A i \in Addrs \ Skip : i < ip => Taken(i)
Exhausted == \A i \in Addrs \ Skip : Taken(i)

\* dhcpd_setlease, and what else replaces an entry.
SetLease(ip, lease) == leases' = [i \in Addrs |-> IF i = ip THEN lease ELSE leases[i]]
SetGrant(mac, g) == granted' = [a \in Macs |-> IF a = mac THEN g ELSE granted[a]]

\* dhcpd_verifyreqleasetime
LeaseTime(t) ==
    IF t = 0 THEN LEASETIME
    ELSE IF t > MAXLEASETIME THEN MAXLEASETIME
    ELSE IF t < MINLEASETIME THEN MINLEASETIME ELSE t

-----------------------------------------------------------------------------
(* The handlers.  ip is the address of the reply.                            *)

\* The address of an offer: the one the client has, even if that lease has
\* expired; the one it asks for; or the first free one.
OfferAddr(m, ip) ==
    \/ FindByMac(m.mac, ip)
    \/ ~Known(m.mac) /\ VerifyReqIp(m.req) /\ ip = m.req
    \/ ~Known(m.mac) /\ ~VerifyReqIp(m.req) /\ AllocIpAddr(ip)

\* dhcpd_discover.  A lease the client already holds is cut down to OFFERTIME.
Discover(m, ip) ==
    /\ m.type = "discover" /\ OfferAddr(m, ip)
    /\ SetLease(ip, Lease(m.mac, OFFERTIME)) /\ SetGrant(m.mac, NoGrant)

DiscoverFails(m) ==
    /\ m.type = "discover" /\ ~Known(m.mac) /\ ~VerifyReqIp(m.req) /\ Exhausted
    /\ UNCHANGED dhcpdVars

\* dhcpd_request: the requests that are acknowledged, with the address.  The
\* requested address is compared with that of the entry only if no server is
\* named.
RequestAck(m, ip) ==
    /\ m.type = "request"
    /\ \/ /\ FindByMac(m.mac, ip)
          /\ IF m.server # NoServer THEN m.server = Me /\ m.req # 0
             ELSE IF m.req # 0 THEN m.req = ip ELSE m.ci = ip
       \/ /\ ~Known(m.mac) /\ m.server = NoServer
          /\ m.req \in Addrs /\ ~leases[m.req].allocated /\ ip = m.req

\* The others, which are refused or not answered.
RequestSilent(m) ==
    /\ m.type = "request" /\ ~Known(m.mac)
    /\ \/ m.server # NoServer \/ m.req = 0
       \/ m.req \in Addrs /\ leases[m.req].allocated /\ leases[m.req].left = 0
RequestNak(m) ==
    /\ m.type = "request" /\ ~RequestSilent(m)
    /\ \A ip \in Addrs : ~RequestAck(m, ip)

\* dhcpd_sendack: the lease is entered if the packet could be sent.
Acknowledge(m, ip, sent) ==
    /\ RequestAck(m, ip)
    /\ IF sent
       THEN /\ SetLease(ip, Lease(m.mac, LeaseTime(m.time)))
            /\ SetGrant(m.mac, [ip |-> ip, left |-> LeaseTime(m.time)])
       ELSE UNCHANGED dhcpdVars

Refuse(m) == RequestNak(m) /\ UNCHANGED dhcpdVars

\* An expired lease of another client is cleared on the way.
KeepSilent(m) ==
    /\ RequestSilent(m)
    /\ IF m.server = NoServer /\ m.req # 0 THEN SetLease(m.req, Free) ELSE UNCHANGED leases
    /\ UNCHANGED granted

\* Mutant: a declined address is free at once.
DeclineFrees(m) ==
    /\ m.type = "decline"
    /\ \/ \E ip \in Addrs : FindByMac(m.mac, ip) /\ SetLease(ip, Free)
       \/ ~Known(m.mac) /\ UNCHANGED leases
    /\ SetGrant(m.mac, NoGrant)

\* dhcpd_decline: the address stays out of use for a while.
Decline(m) ==
    /\ m.type = "decline"
    /\ \/ \E ip \in Addrs :
            /\ FindByMac(m.mac, ip)
            /\ SetLease(ip, [mac |-> NoMac, allocated |-> leases[ip].allocated, left |-> DECLINETIME])
       \/ ~Known(m.mac) /\ UNCHANGED leases
    /\ SetGrant(m.mac, NoGrant)

\* dhcpd_release
Release(m) ==
    /\ m.type = "release"
    /\ \/ \E ip \in Addrs : FindByMac(m.mac, ip) /\ SetLease(ip, Free)
       \/ ~Known(m.mac) /\ UNCHANGED leases
    /\ SetGrant(m.mac, NoGrant)

\* Other types.
Unsupported(m) == m.type = "inform" /\ UNCHANGED dhcpdVars

\* The handling of one message, without the reply.
Handle(m) ==
    \/ \E ip \in Addrs : Discover(m, ip)
    \/ \E ip \in Addrs, sent \in BOOLEAN : Acknowledge(m, ip, sent)
    \/ DiscoverFails(m) \/ Refuse(m) \/ KeepSilent(m)
    \/ Decline(m) \/ Release(m) \/ Unsupported(m)

\* The beginning of dhcpd_run: the table does not survive the daemon.
Reset ==
    /\ leases' = [i \in Addrs |-> Free]
    /\ granted' = [a \in Macs |-> NoGrant]

\* A tick of dhcpd_time.
Elapse ==
    /\ leases' = [i \in Addrs |-> [mac |-> leases[i].mac, allocated |-> leases[i].allocated,
                                   left |-> Max2(leases[i].left - 1, 0)]]
    /\ granted' = [a \in Macs |-> IF granted[a].left <= 1 THEN NoGrant
                                  ELSE [ip |-> granted[a].ip, left |-> granted[a].left - 1]]

DhcpdInit == leases = [i \in Addrs |-> Free] /\ granted = [a \in Macs |-> NoGrant]
DhcpdNext == (\E m \in Message : Handle(m)) \/ Reset \/ Elapse
DhcpdSpec == DhcpdInit /\ [][DhcpdNext]_dhcpdVars

-----------------------------------------------------------------------------
(* Properties                                                                *)

DhcpdTypeOK ==
    /\ leases \in [Addrs -> [mac : Macs \cup {NoMac}, allocated : BOOLEAN, left : Nat]]
    /\ granted \in [Macs -> [ip : Addrs \cup {0}, left : Nat]]

\* A client has at most one entry.  dhcpd_findbymac returns the first, so a
\* second one could neither be renewed nor released.
OneEntry == \A i, j \in Addrs : leases[i].mac = leases[j].mac /\ i # j => leases[i].mac = NoMac

\* An address that was acknowledged to a client belongs to no other client
\* until the time of that lease is over, whatever the clients send.  A client
\* gives its lease up by DHCPDECLINE and DHCPRELEASE, and also by
\* DHCPDISCOVER, which dhcpd_discover answers by cutting the lease down.
OneOwner ==
    \A a, b \in Macs :
        granted[a].left > 0 /\ granted[b].left > 0 /\ a # b => granted[a].ip # granted[b].ip
=============================================================================
