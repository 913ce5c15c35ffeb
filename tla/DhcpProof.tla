----------------------------- MODULE DhcpProof ------------------------------
(* Proofs about dhcpc and dhcpd on one segment, for every size of the table, *)
(* every set of clients, all times that DhcpAssumption admits, any number of *)
(* retries and queues of any length.                                         *)
EXTENDS Dhcp, TLAPS

-----------------------------------------------------------------------------
(* The table of leases of dhcpd, for clients that send anything.             *)

\* A lease that was acknowledged, and not given up, is still in the table.
Backed ==
    \A a \in Macs : granted[a].left > 0 =>
        /\ granted[a].ip \in Addrs
        /\ leases[granted[a].ip].mac = a
        /\ leases[granted[a].ip].allocated
        /\ leases[granted[a].ip].left = granted[a].left

\* A grant alone says nothing about the table: two clients have different
\* addresses because each one has its entry, and an entry has one client.
IInv == DhcpdTypeOK /\ OneEntry /\ Backed

Entry == [mac : Macs \cup {NoMac}, allocated : BOOLEAN, left : Nat]
Grant == [ip : Addrs \cup {0}, left : Nat]

\* All that the proofs need to know of a message.
Heard(m) == m.mac \in Macs /\ m.time \in Nat

-----------------------------------------------------------------------------
(* Replacing an entry.                                                       *)

\* dhcpd_setlease and the other writes keep the table a table.
LEMMA SetLeaseType ==
    ASSUME DhcpdTypeOK, NEW ip \in Addrs, NEW e \in Entry, SetLease(ip, e)
    PROVE  leases' \in [Addrs -> Entry]
BY Zenon DEF DhcpdTypeOK, SetLease, Entry

LEMMA SetGrantType ==
    ASSUME DhcpdTypeOK, NEW a \in Macs, NEW g \in Grant, SetGrant(a, g)
    PROVE  granted' \in [Macs -> Grant]
BY Zenon DEF DhcpdTypeOK, SetGrant, Grant

\* An entry for a client at its own address, or for a client that had none.
LEMMA SetLeaseOneEntry ==
    ASSUME DhcpdTypeOK, OneEntry, NEW ip \in Addrs, NEW e \in Entry, SetLease(ip, e),
           e.mac = NoMac \/ \A i \in Addrs : i # ip => leases[i].mac # e.mac
    PROVE  OneEntry'
BY Zenon DEF DhcpdTypeOK, OneEntry, SetLease, Entry

\* A client's grant is void, or is the entry just written, and the entry
\* written was nobody else's.
LEMMA SetBacked ==
    ASSUME DhcpdTypeOK, Backed, NEW a \in Macs, NEW ip \in Addrs, NEW e \in Entry, NEW g \in Grant,
           SetLease(ip, e), SetGrant(a, g),
           g.left = 0 \/ (g.ip = ip /\ e = Lease(a, g.left)),
           leases[ip].mac = a \/ ~leases[ip].allocated \/ leases[ip].left = 0
    PROVE  Backed'
<1> SUFFICES ASSUME NEW b \in Macs, granted'[b].left > 0
             PROVE  /\ granted'[b].ip \in Addrs
                    /\ leases'[granted'[b].ip].mac = b
                    /\ leases'[granted'[b].ip].allocated
                    /\ leases'[granted'[b].ip].left = granted'[b].left
  BY Zenon DEF Backed
<1>1. CASE b = a
  BY <1>1 DEF SetGrant, SetLease, Lease, Grant, Entry
<1>2. CASE b # a
  <2>1. granted'[b] = granted[b] /\ granted[b] \in Grant
    BY <1>2, Zenon DEF SetGrant, DhcpdTypeOK, Grant
  <2>2. /\ granted[b].ip \in Addrs /\ leases[granted[b].ip].mac = b
        /\ leases[granted[b].ip].allocated /\ leases[granted[b].ip].left = granted[b].left
    BY <2>1, Zenon DEF Backed
  <2>3. granted[b].ip # ip
    BY <1>2, <2>1, <2>2
  <2> QED BY <2>1, <2>2, <2>3, Zenon DEF SetLease
<1> QED BY <1>1, <1>2, Zenon

\* Writing only the table.
LEMMA SetLeaseBacked ==
    ASSUME DhcpdTypeOK, Backed, NEW ip \in Addrs, NEW e \in Entry,
           SetLease(ip, e), UNCHANGED granted,
           ~leases[ip].allocated \/ leases[ip].left = 0
    PROVE  Backed'
<1> SUFFICES ASSUME NEW b \in Macs, granted[b].left > 0
             PROVE  /\ granted[b].ip \in Addrs
                    /\ leases'[granted[b].ip].mac = b
                    /\ leases'[granted[b].ip].allocated
                    /\ leases'[granted[b].ip].left = granted[b].left
  BY Zenon DEF Backed
<1>1. granted[b].ip # ip /\ granted[b].ip \in Addrs
  BY DEF Backed, DhcpdTypeOK
<1> QED BY <1>1, Zenon DEF Backed, SetLease

\* Voiding a client's grant.
LEMMA VoidBacked ==
    ASSUME DhcpdTypeOK, Backed, NEW a \in Macs, UNCHANGED leases, SetGrant(a, NoGrant)
    PROVE  Backed'
BY DEF DhcpdTypeOK, Backed, SetGrant, NoGrant

\* The entry dhcpd_findbymac returns is the client's only one.
LEMMA FoundOnly ==
    ASSUME OneEntry, NEW a \in Macs, NEW ip \in Addrs, FindByMac(a, ip)
    PROVE  leases[ip].mac = a /\ \A i \in Addrs : i # ip => leases[i].mac # a
BY AddrAssumption, Zenon DEF OneEntry, FindByMac

-----------------------------------------------------------------------------
(* The handlers.                                                             *)

LEMMA NoGrantType == NoGrant \in Grant /\ NoGrant.left = 0 /\ Free \in Entry /\ Free.mac = NoMac
BY Zenon DEF NoGrant, Grant, Free, Entry

LEMMA LeaseType ==
    ASSUME NEW a \in Macs, NEW t \in Nat
    PROVE  Lease(a, t) \in Entry /\ Lease(a, t).mac = a
BY Zenon DEF Lease, Entry

LEMMA LeaseTimeType == \A t \in Nat : LeaseTime(t) \in Nat
BY TimeAssumption, Zenon DEF LeaseTime

\* An offer goes to the client's own entry or to one that is not taken.
LEMMA OfferOwn ==
    ASSUME IInv, NEW m, Heard(m), NEW ip \in Addrs, OfferAddr(m, ip)
    PROVE  /\ \A i \in Addrs : i # ip => leases[i].mac # m.mac
           /\ leases[ip].mac = m.mac \/ ~leases[ip].allocated \/ leases[ip].left = 0
<1>0. m.mac \in Macs /\ leases[ip].left \in Nat
  BY Zenon DEF Heard, IInv, DhcpdTypeOK
<1>1. CASE FindByMac(m.mac, ip)
  BY <1>0, <1>1, FoundOnly, Zenon DEF IInv
<1>2. CASE ~Known(m.mac) /\ ~Taken(ip)
  BY <1>0, <1>2 DEF Known, Taken
<1> QED BY <1>1, <1>2, Zenon DEF OfferAddr, VerifyReqIp, AllocIpAddr

LEMMA DiscoverStep ==
    ASSUME IInv, NEW m, Heard(m), NEW ip \in Addrs, Discover(m, ip)
    PROVE  IInv'
<1> DEFINE e == Lease(m.mac, OFFERTIME)
<1>0. m.mac \in Macs
  BY Zenon DEF Heard
<1>1. e \in Entry /\ e.mac = m.mac
  BY <1>0, LeaseType, TimeAssumption, Zenon
<1>2. SetLease(ip, e) /\ SetGrant(m.mac, NoGrant) /\ OfferAddr(m, ip)
  BY Zenon DEF Discover
<1> HIDE DEF e
<1>3. DhcpdTypeOK'
  BY <1>0, <1>1, <1>2, SetLeaseType, SetGrantType, NoGrantType, Zenon DEF IInv, DhcpdTypeOK, Entry, Grant
<1>4. OneEntry'
  BY <1>1, <1>2, SetLeaseOneEntry, OfferOwn DEF IInv
<1>5. Backed'
  BY <1>0, <1>1, <1>2, SetBacked, OfferOwn, NoGrantType, Zenon DEF IInv
<1> QED BY <1>3, <1>4, <1>5, Zenon DEF IInv

\* An acknowledged address is the client's own, or has no entry.
LEMMA AckOwn ==
    ASSUME IInv, NEW m, Heard(m), NEW ip \in Addrs, RequestAck(m, ip)
    PROVE  /\ \A i \in Addrs : i # ip => leases[i].mac # m.mac
           /\ leases[ip].mac = m.mac \/ ~leases[ip].allocated
<1>0. m.mac \in Macs
  BY Zenon DEF Heard
<1>1. CASE FindByMac(m.mac, ip)
  BY <1>0, <1>1, FoundOnly, Zenon DEF IInv
<1>2. CASE ~Known(m.mac) /\ ~leases[ip].allocated
  BY <1>0, <1>2, Zenon DEF Known
<1> QED BY <1>1, <1>2, Zenon DEF RequestAck

LEMMA AcknowledgeStep ==
    ASSUME IInv, NEW m, Heard(m), NEW ip \in Addrs, NEW sent \in BOOLEAN, Acknowledge(m, ip, sent)
    PROVE  IInv'
<1> DEFINE t == LeaseTime(m.time)
           e == Lease(m.mac, t)
           g == [ip |-> ip, left |-> t]
<1>0. m.mac \in Macs /\ t \in Nat
  BY LeaseTimeType, Zenon DEF Heard
<1>1. e \in Entry /\ e.mac = m.mac /\ g \in Grant
  BY <1>0, LeaseType, Zenon DEF Grant
<1>2. CASE ~sent
  BY <1>2 DEF Acknowledge, dhcpdVars, IInv, DhcpdTypeOK, OneEntry, Backed
<1>3. CASE sent
  <2>1. SetLease(ip, e) /\ SetGrant(m.mac, g) /\ RequestAck(m, ip)
    BY <1>3, Zenon DEF Acknowledge
  <2>2. g.ip = ip /\ e = Lease(m.mac, g.left)
    BY Zenon
  <2> HIDE DEF t, e, g
  <2>3. DhcpdTypeOK'
    BY <1>0, <1>1, <2>1, SetLeaseType, SetGrantType, Zenon DEF IInv, DhcpdTypeOK, Entry, Grant
  <2>4. OneEntry'
    BY <1>1, <2>1, SetLeaseOneEntry, AckOwn, Zenon DEF IInv
  <2>5. Backed'
    BY <1>0, <1>1, <2>1, <2>2, SetBacked, AckOwn, Zenon DEF IInv
  <2> QED BY <2>3, <2>4, <2>5, Zenon DEF IInv
<1> QED BY <1>2, <1>3, Zenon

LEMMA KeepSilentStep ==
    ASSUME IInv, NEW m, Heard(m), KeepSilent(m)
    PROVE  IInv'
<1>1. CASE m.server = NoServer /\ m.req # 0
  <2>1. /\ m.req \in Addrs /\ leases[m.req].left = 0
        /\ SetLease(m.req, Free) /\ UNCHANGED granted
    BY <1>1, Zenon DEF KeepSilent, RequestSilent
  <2>2. DhcpdTypeOK'
    BY <2>1, SetLeaseType, NoGrantType, Zenon DEF IInv, DhcpdTypeOK, Entry
  <2>3. OneEntry'
    BY <2>1, SetLeaseOneEntry, NoGrantType, Zenon DEF IInv
  <2>4. Backed'
    BY <2>1, SetLeaseBacked, NoGrantType, Zenon DEF IInv
  <2> QED BY <2>2, <2>3, <2>4, Zenon DEF IInv
<1>2. CASE ~(m.server = NoServer /\ m.req # 0)
  BY <1>2 DEF KeepSilent, IInv, DhcpdTypeOK, OneEntry, Backed
<1> QED BY <1>1, <1>2, Zenon

\* dhcpd_decline and dhcpd_release: the client's entry loses its owner.
LEMMA GiveUpStep ==
    ASSUME IInv, NEW m, Heard(m), NEW ip \in Addrs, FindByMac(m.mac, ip),
           NEW e \in Entry, e.mac = NoMac, SetLease(ip, e), SetGrant(m.mac, NoGrant)
    PROVE  IInv'
<1>0. m.mac \in Macs /\ leases[ip].mac = m.mac
  BY Zenon DEF Heard, FindByMac
<1>1. DhcpdTypeOK'
  BY <1>0, SetLeaseType, SetGrantType, NoGrantType, Zenon DEF IInv, DhcpdTypeOK, Entry, Grant
<1>2. OneEntry'
  BY SetLeaseOneEntry, Zenon DEF IInv
<1>3. Backed'
  BY <1>0, SetBacked, NoGrantType, Zenon DEF IInv
<1> QED BY <1>1, <1>2, <1>3, Zenon DEF IInv

LEMMA UnknownStep ==
    ASSUME IInv, NEW m, Heard(m), UNCHANGED leases, SetGrant(m.mac, NoGrant)
    PROVE  IInv'
<1>0. m.mac \in Macs
  BY Zenon DEF Heard
<1>1. DhcpdTypeOK'
  BY <1>0, SetGrantType, NoGrantType, Zenon DEF IInv, DhcpdTypeOK, Grant
<1>2. OneEntry'
  BY Zenon DEF IInv, OneEntry
<1>3. Backed'
  BY <1>0, VoidBacked, Zenon DEF IInv
<1> QED BY <1>1, <1>2, <1>3, Zenon DEF IInv

LEMMA DeclineStep ==
    ASSUME IInv, NEW m, Heard(m), Decline(m)
    PROVE  IInv'
<1>1. CASE ~Known(m.mac) /\ UNCHANGED leases
  BY <1>1, UnknownStep, Zenon DEF Decline
<1>2. CASE ~(~Known(m.mac) /\ UNCHANGED leases)
  <2>1. PICK ip \in Addrs :
          /\ FindByMac(m.mac, ip)
          /\ SetLease(ip, [mac |-> NoMac, allocated |-> leases[ip].allocated, left |-> DECLINETIME])
    BY <1>2, Zenon DEF Decline
  <2> DEFINE e == [mac |-> NoMac, allocated |-> leases[ip].allocated, left |-> DECLINETIME]
  <2>2. e \in Entry /\ e.mac = NoMac
    BY TimeAssumption, Zenon DEF IInv, DhcpdTypeOK, Entry
  <2>3. SetLease(ip, e) /\ SetGrant(m.mac, NoGrant)
    BY <2>1, Zenon DEF Decline
  <2> HIDE DEF e
  <2> QED BY <2>1, <2>2, <2>3, GiveUpStep, Zenon
<1> QED BY <1>1, <1>2, Zenon

LEMMA ReleaseStep ==
    ASSUME IInv, NEW m, Heard(m), Release(m)
    PROVE  IInv'
<1>1. CASE ~Known(m.mac) /\ UNCHANGED leases
  BY <1>1, UnknownStep, Zenon DEF Release
<1>2. ASSUME NEW ip \in Addrs, FindByMac(m.mac, ip), SetLease(ip, Free)
      PROVE  IInv'
  BY <1>2, GiveUpStep, NoGrantType, Zenon DEF Release
<1> QED BY <1>1, <1>2, Zenon DEF Release

LEMMA UnchangedStep == IInv /\ UNCHANGED dhcpdVars => IInv'
BY DEF dhcpdVars, IInv, DhcpdTypeOK, OneEntry, Backed

LEMMA HandleStep ==
    ASSUME IInv, NEW m, Heard(m), Handle(m)
    PROVE  IInv'
<1>1. CASE \E ip \in Addrs : Discover(m, ip)
  BY <1>1, DiscoverStep, Zenon
<1>2. CASE \E ip \in Addrs, sent \in BOOLEAN : Acknowledge(m, ip, sent)
  BY <1>2, AcknowledgeStep, Zenon
<1>3. CASE DiscoverFails(m) \/ Refuse(m) \/ Unsupported(m)
  BY <1>3, UnchangedStep, Zenon DEF DiscoverFails, Refuse, Unsupported
<1>4. CASE KeepSilent(m)
  BY <1>4, KeepSilentStep, Zenon
<1>5. CASE Decline(m)
  BY <1>5, DeclineStep, Zenon
<1>6. CASE Release(m)
  BY <1>6, ReleaseStep, Zenon
<1> QED BY <1>1, <1>2, <1>3, <1>4, <1>5, <1>6, Zenon DEF Handle

LEMMA MessageHeard == \A m \in Message : Heard(m)
BY Zenon DEF Message, Heard

LEMMA ResetStep == Reset => IInv'
BY DEF Reset, IInv, DhcpdTypeOK, OneEntry, Backed, Free, NoGrant

LEMMA ElapseStep ==
    ASSUME IInv, Elapse
    PROVE  IInv'
<1>1. DhcpdTypeOK'
  BY DEF IInv, DhcpdTypeOK, Elapse, Max2, NoGrant
<1>2. OneEntry'
  BY Zenon DEF IInv, DhcpdTypeOK, OneEntry, Elapse
<1>3. Backed'
  BY DEF IInv, DhcpdTypeOK, Backed, Elapse, Max2, NoGrant
<1> QED BY <1>1, <1>2, <1>3, Zenon DEF IInv

-----------------------------------------------------------------------------
(* Theorems                                                                  *)

\* The inductive invariant: every lease promised is backed by an entry.
THEOREM Invariance == DhcpdSpec => []IInv
<1>1. DhcpdInit => IInv
  BY DEF DhcpdInit, IInv, DhcpdTypeOK, OneEntry, Backed, Free, NoGrant
<1>2. IInv /\ [DhcpdNext]_dhcpdVars => IInv'
  BY MessageHeard, HandleStep, ResetStep, ElapseStep, UnchangedStep, Zenon DEF DhcpdNext
<1> QED BY <1>1, <1>2, PTL DEF DhcpdSpec

\* A client has at most one entry, so dhcpd_findbymac cannot miss one.
THEOREM EntryOnce == DhcpdSpec => []OneEntry
<1>1. IInv => OneEntry
  BY Zenon DEF IInv
<1> QED BY <1>1, Invariance, PTL

\* An acknowledged address is no other client's until its lease is over,
\* whatever the clients send and in whatever order it arrives.
THEOREM OwnerOnce == DhcpdSpec => []OneOwner
<1>1. IInv => OneOwner
  BY DEF IInv, Backed, OneOwner
<1> QED BY <1>1, Invariance, PTL

-----------------------------------------------------------------------------
(* dhcpc and dhcpd on one segment.                                           *)

\* What the client sends, and what the two servers send.
Request == [type : {"discover", "request", "decline"}, mac : {C},
            server : Servers \cup {NoServer}, req : Nat, ci : Nat, time : {0}, age : Nat]
Answer == [type : {"offer", "ack"}, age : Nat, server : {Me}, ip : Addrs]
          \cup [type : {"nak"}, age : Nat, server : {Me}, ip : {0}]
          \cup [type : {"offer", "ack"}, age : Nat, server : {Other}, ip : {OtherIp}]

Queues ==
    /\ up \in Seq(Request) /\ Len(up) <= QueueMax
    /\ down \in Seq(Answer) /\ Len(down) <= QueueMax

\* The types of dhcpc.
ClientOK ==
    /\ st \in {"off", "discover", "offer", "request", "ack", "nap", "sleep"}
    /\ retries \in 0 .. RETRIES
    /\ offer \in [server : Servers \cup {NoServer}, ip : Addrs \cup {0, OtherIp}]
    /\ owned \in Addrs \cup {0}
    /\ sleep \in 0 .. LEASETIME \div 2
Flags == cancel \in BOOLEAN /\ joining \in BOOLEAN /\ aged \in BOOLEAN

\* Where dhcpc is, and what that says about the variables of dhcpc_request.
Place ==
    /\ st \in {"discover", "request"} => retries < RETRIES
    /\ st \in {"offer", "ack"} => retries > 0
    /\ st \in {"off", "nap", "sleep"} \/ (st = "discover" /\ retries = 0) => retries = 0 /\ ~aged
    /\ st \in {"request", "ack"} => offer.server \in {Me, Other}
    /\ st = "off" \/ cancel => owned = 0

\* The entry of address ip is the client's, or is kept out of use, for n ticks.
Held(ip, n) ==
    /\ leases[ip].allocated /\ leases[ip].mac \in {C, NoMac}
    /\ leases[ip].left >= n

\* The ticks that may pass until the next callback, and one more.
Margin ==
    IF st = "nap" THEN LEASETIME \div 2 + 2
    ELSE IF st = "sleep" THEN sleep + 2
    ELSE IF aged THEN 1 ELSE 2
AckMargin == IF aged THEN LEASETIME - 1 ELSE LEASETIME

\* A DHCPREQUEST of this request, and a DHCPACK that the server sent for one.
Fresh(m) == m.type = "request" /\ m.age = 0
Acked(m) == m.type = "ack" /\ m.age = 0 /\ m.server = Me

\* Nothing that would cut a lease down is on its way to the server.
OnlyRequests == \A i \in DOMAIN up : up[i].type = "request"

\* dhcpc_request has not yet sent its DHCPREQUEST.
Before ==
    st = "offer" \/ (st = "discover" /\ retries > 0) =>
        /\ \A i \in DOMAIN up : ~Fresh(up[i])
        /\ \A i \in DOMAIN down : ~Acked(down[i])

\* It may have.  A DHCPDISCOVER was sent before it and is handled before it,
\* and a DHCPDECLINE only follows it if it went to another server: when the
\* acknowledgement is sent, nothing can cut the lease down until the client
\* begins again.
During ==
    st \in {"request", "ack"} =>
        /\ \A i \in DOMAIN up : Fresh(up[i]) => up[i].server = offer.server
        /\ offer.server = Me =>
             \A i, j \in DOMAIN up : i < j /\ Fresh(up[i]) => up[j].type = "request"
        /\ \A i \in DOMAIN down : Acked(down[i]) =>
             offer.server = Me /\ OnlyRequests /\ Held(down[i].ip, AckMargin)

\* The client has its address, until it renews the lease and while it does.
After ==
    owned \in Addrs => /\ Held(owned, Margin)
                       /\ st \in {"nap", "sleep"} => OnlyRequests

NetInv == IInv /\ ClientOK /\ Flags /\ Queues /\ Place /\ Before /\ During /\ After

-----------------------------------------------------------------------------
(* The queues.                                                               *)

\* A message was sent or lost: the queue is as before, or longer by one.
LEMMA PushMeans ==
    ASSUME NEW S, NEW q \in Seq(S), Len(q) <= QueueMax, NEW m \in S, NEW r \in Push(q, m)
    PROVE  /\ r \in Seq(S) /\ Len(r) <= QueueMax
           /\ \A i \in DOMAIN r : r[i] = m \/ (i \in DOMAIN q /\ r[i] = q[i])
           /\ \A i, j \in DOMAIN r : i < j => i \in DOMAIN q /\ r[i] = q[i]
<1>1. CASE r = q
  BY <1>1, Zenon
<1>2. CASE r = Append(q, m) /\ Len(q) < QueueMax
  <2>1. /\ r \in Seq(S) /\ Len(r) = Len(q) + 1 /\ r[Len(q) + 1] = m
        /\ \A i \in 1 .. Len(q) : r[i] = q[i]
    BY <1>2
  <2>2. Len(q) \in Nat /\ DOMAIN q = 1 .. Len(q) /\ DOMAIN r = 1 .. Len(q) + 1
    BY <2>1
  <2> QED BY <1>2, <2>1, <2>2, DhcpAssumption
<1> QED BY <1>1, <1>2, Zenon DEF Push

\* The head of a queue was taken.
LEMMA TailMeans ==
    ASSUME NEW S, NEW q \in Seq(S), q # << >>
    PROVE  /\ Head(q) = q[1] /\ q[1] \in S /\ 1 \in DOMAIN q
           /\ Tail(q) \in Seq(S) /\ Len(Tail(q)) = Len(q) - 1 /\ Len(q) \in Nat
           /\ \A i \in DOMAIN Tail(q) : i \in Nat /\ i + 1 \in DOMAIN q /\ Tail(q)[i] = q[i + 1]
<1>1. Len(q) \in Nat \ {0} /\ DOMAIN q = 1 .. Len(q) /\ q[1] \in S /\ Head(q) = q[1]
  OBVIOUS
<1>2. Tail(q) \in Seq(S) /\ Len(Tail(q)) = Len(q) - 1
  BY <1>1
<1>3. DOMAIN Tail(q) = 1 .. Len(q) - 1 /\ \A i \in 1 .. Len(q) - 1 : Tail(q)[i] = q[i + 1]
  BY <1>1, <1>2
<1> QED BY <1>1, <1>2, <1>3

\* The message the server handles may stay for a second time.
LEMMA PopMeans ==
    ASSUME NEW S, NEW q \in Seq(S), q # << >>, NEW r \in Pop(q)
    PROVE  /\ r \in Seq(S) /\ Len(r) <= Len(q)
           /\ \E k \in {0, 1} : \A i \in DOMAIN r :
                i \in Nat /\ i + k \in DOMAIN q /\ r[i] = q[i + k]
<1>1. CASE r = q
  <2>1. \A i \in DOMAIN r : i \in Nat /\ i + 0 \in DOMAIN q /\ r[i] = q[i + 0]
    BY <1>1
  <2> QED BY <1>1, <2>1
<1>2. CASE r = Tail(q)
  BY <1>2, TailMeans
<1> QED BY <1>1, <1>2, Zenon DEF Pop

\* The xid of a new request: nothing in a queue belongs to it.
LEMMA AgedMeans ==
    ASSUME NEW S \in {Request, Answer}, NEW q \in Seq(S)
    PROVE  /\ Aged(q) \in Seq(S) /\ Len(Aged(q)) = Len(q)
           /\ \A i \in DOMAIN Aged(q) : Aged(q)[i].age # 0
<1> DEFINE with(m, n) == [m EXCEPT !.age = n]
           Kept(T) == \A m \in T : m.age \in Nat /\ \A n \in Nat : with(m, n) \in T /\ with(m, n).age = n
<1>1. Kept(S)
  <2>1. Kept(Request)
    BY Zenon DEF Request
  <2>2. Kept(Answer)
    BY Zenon DEF Answer
  <2> HIDE DEF Kept
  <2> QED BY <2>1, <2>2, Zenon
<1>2. Len(q) \in Nat /\ DOMAIN q = 1 .. Len(q) /\ \A i \in 1 .. Len(q) : q[i] \in S
  OBVIOUS
<1>3. Aged(q) = [i \in 1 .. Len(q) |-> with(q[i], Older(q[i].age))]
  BY <1>2, Zenon DEF Aged
<1> HIDE DEF with
<1>4. \A n \in Nat : Older(n) \in Nat /\ Older(n) # 0
  BY DhcpAssumption DEF Older
<1>5. \A i \in 1 .. Len(q) : Aged(q)[i] \in S /\ Aged(q)[i].age # 0
  <2> SUFFICES ASSUME NEW i \in 1 .. Len(q)
               PROVE  Aged(q)[i] \in S /\ Aged(q)[i].age # 0
    BY Zenon
  <2>1. Aged(q)[i] = with(q[i], Older(q[i].age))
    BY <1>3, Zenon
  <2>2. q[i] \in S /\ q[i].age \in Nat
    BY <1>1, <1>2, Zenon
  <2>3. PICK n \in Nat : n = Older(q[i].age) /\ n # 0
    BY <1>4, <2>2, Zenon
  <2>4. with(q[i], n) \in S /\ with(q[i], n).age = n
    BY <1>1, <2>2, Zenon
  <2> QED BY <2>1, <2>3, <2>4, Zenon
<1>6. Aged(q) \in Seq(S) /\ Len(Aged(q)) = Len(q)
  BY <1>2, <1>3, <1>5
<1> QED BY <1>5, <1>6

-----------------------------------------------------------------------------
(* The times.                                                                *)

LEMMA Times ==
    /\ LEASETIME \in Nat /\ LEASETIME \div 2 \in Nat
    /\ LEASETIME - 1 >= LEASETIME \div 2 + 2
    /\ OFFERTIME \in Nat /\ OFFERTIME >= 2 /\ DECLINETIME \in Nat /\ DECLINETIME >= 2
BY TimeAssumption, DhcpAssumption

LEMMA Margins ==
    ASSUME ClientOK
    PROVE  /\ Margin \in Nat /\ Margin > 0 /\ Margin <= LEASETIME
           /\ st \notin {"nap", "sleep"} => Margin <= 2
           /\ AckMargin \in Nat /\ AckMargin > 0 /\ AckMargin <= LEASETIME
           /\ AckMargin >= LEASETIME \div 2 + 2
BY Times DEF Margin, AckMargin, ClientOK

-----------------------------------------------------------------------------
(* What the handlers of the server do to an address that is held.            *)

LEMMA SetHeld ==
    ASSUME DhcpdTypeOK, NEW ip \in Addrs, NEW n \in Nat, Held(ip, n),
           NEW i \in Addrs, NEW e \in Entry, SetLease(i, e),
           i = ip => e.allocated /\ e.mac \in {C, NoMac} /\ e.left >= n
    PROVE  Held(ip, n)'
BY Zenon DEF Held, SetLease, DhcpdTypeOK, Entry

LEMMA StillHeld ==
    ASSUME NEW ip \in Addrs, NEW n \in Nat, Held(ip, n), UNCHANGED leases
    PROVE  Held(ip, n)'
BY Zenon DEF Held

\* Another client cannot have it, nor give it up.
LEMMA OtherKeeps ==
    ASSUME IInv, NEW ip \in Addrs, NEW n \in Nat \ {0}, Held(ip, n),
           NEW m, Heard(m), m.mac # C, Handle(m)
    PROVE  Held(ip, n)'
<1>0. DhcpdTypeOK /\ m.mac \in Macs /\ m.time \in Nat
  BY Zenon DEF IInv, Heard
<1>1. leases[ip].mac # m.mac /\ leases[ip].allocated /\ leases[ip].left > 0
  BY <1>0, AddrAssumption DEF Held, DhcpdTypeOK
<1>2. ASSUME NEW i \in Addrs, Discover(m, i) PROVE Held(ip, n)'
  <2>1. i # ip
    BY <1>1, <1>2, Zenon DEF Discover, OfferAddr, FindByMac, VerifyReqIp, AllocIpAddr, Taken
  <2>2. Lease(m.mac, OFFERTIME) \in Entry /\ SetLease(i, Lease(m.mac, OFFERTIME))
    BY <1>0, <1>2, LeaseType, Times, Zenon DEF Discover
  <2> QED BY <1>0, <2>1, <2>2, SetHeld, Zenon
<1>3. ASSUME NEW i \in Addrs, NEW sent \in BOOLEAN, Acknowledge(m, i, sent) PROVE Held(ip, n)'
  <2>1. i # ip
    BY <1>1, <1>3, Zenon DEF Acknowledge, RequestAck, FindByMac
  <2>2. CASE sent
    <3>1. Lease(m.mac, LeaseTime(m.time)) \in Entry /\ SetLease(i, Lease(m.mac, LeaseTime(m.time)))
      BY <1>0, <1>3, <2>2, LeaseType, LeaseTimeType, Zenon DEF Acknowledge
    <3> QED BY <1>0, <2>1, <3>1, SetHeld, Zenon
  <2>3. CASE ~sent
    BY <1>3, <2>3, StillHeld, Zenon DEF Acknowledge, dhcpdVars
  <2> QED BY <2>2, <2>3, Zenon
<1>4. CASE DiscoverFails(m) \/ Refuse(m) \/ Unsupported(m)
  BY <1>4, StillHeld, Zenon DEF DiscoverFails, Refuse, Unsupported, dhcpdVars
<1>5. CASE KeepSilent(m)
  <2>1. CASE m.server = NoServer /\ m.req # 0
    <3>1. m.req \in Addrs /\ m.req # ip /\ SetLease(m.req, Free)
      BY <1>1, <1>5, <2>1 DEF KeepSilent, RequestSilent
    <3> QED BY <1>0, <3>1, SetHeld, NoGrantType, Zenon
  <2>2. CASE ~(m.server = NoServer /\ m.req # 0)
    BY <1>5, <2>2, StillHeld, Zenon DEF KeepSilent
  <2> QED BY <2>1, <2>2, Zenon
<1>6. ASSUME NEW i \in Addrs, NEW e \in Entry, FindByMac(m.mac, i), SetLease(i, e)
      PROVE  Held(ip, n)'
  <2>1. i # ip
    BY <1>1, <1>6, Zenon DEF FindByMac
  <2> QED BY <1>0, <1>6, <2>1, SetHeld, Zenon
<1>7. CASE Decline(m)
  <2>1. ASSUME NEW i \in Addrs
        PROVE  [mac |-> NoMac, allocated |-> leases[i].allocated, left |-> DECLINETIME] \in Entry
    BY <1>0, Times, Zenon DEF DhcpdTypeOK, Entry
  <2>2. CASE UNCHANGED leases
    BY <2>2, StillHeld, Zenon
  <2>3. CASE ~UNCHANGED leases
    <3>1. PICK i \in Addrs :
            /\ FindByMac(m.mac, i)
            /\ SetLease(i, [mac |-> NoMac, allocated |-> leases[i].allocated, left |-> DECLINETIME])
      BY <1>7, <2>3, Zenon DEF Decline
    <3> QED BY <1>6, <2>1, <3>1, Zenon
  <2> QED BY <2>2, <2>3, Zenon
<1>8. CASE Release(m)
  BY <1>6, <1>8, NoGrantType, StillHeld, Zenon DEF Release
<1> QED BY <1>2, <1>3, <1>4, <1>5, <1>7, <1>8, Zenon DEF Handle

\* The client's own messages cut it down at most to the time they set.
LEMMA OwnDiscover ==
    ASSUME IInv, NEW ip \in Addrs, NEW n \in Nat, Held(ip, n), n <= 2,
           NEW m \in Request, NEW i \in Addrs, Discover(m, i)
    PROVE  Held(ip, n)'
<1>1. m.mac = C /\ C \in Macs
  BY DhcpAssumption, Zenon DEF Request
<1>2. Lease(C, OFFERTIME) \in Entry /\ SetLease(i, Lease(C, OFFERTIME))
  BY <1>1, LeaseType, Times, Zenon DEF Discover
<1>3. LET e == Lease(C, OFFERTIME) IN e.allocated /\ e.mac = C /\ e.left >= n
  BY Times DEF Lease
<1> QED BY <1>2, <1>3, SetHeld, Zenon DEF IInv

LEMMA OwnAcknowledge ==
    ASSUME IInv, NEW ip \in Addrs, NEW n \in Nat, Held(ip, n), n <= LEASETIME,
           NEW m \in Request, NEW i \in Addrs, NEW sent \in BOOLEAN, Acknowledge(m, i, sent)
    PROVE  Held(ip, n)'
<1>1. m.mac = C /\ C \in Macs /\ m.time = 0
  BY DhcpAssumption, Zenon DEF Request
<1>2. CASE sent
  <2>1. Lease(C, LEASETIME) \in Entry /\ SetLease(i, Lease(C, LEASETIME))
    BY <1>1, <1>2, LeaseType, Times, Zenon DEF Acknowledge, LeaseTime
  <2>2. LET e == Lease(C, LEASETIME) IN e.allocated /\ e.mac = C /\ e.left >= n
    BY Times, Zenon DEF Lease
  <2> QED BY <2>1, <2>2, SetHeld, Zenon DEF IInv
<1>3. CASE ~sent
  BY <1>3, StillHeld, Zenon DEF Acknowledge, dhcpdVars
<1> QED BY <1>2, <1>3, Zenon

LEMMA OwnDecline ==
    ASSUME IInv, NEW ip \in Addrs, NEW n \in Nat, Held(ip, n), n <= 2,
           NEW m \in Request, Decline(m)
    PROVE  Held(ip, n)'
<1>1. CASE UNCHANGED leases
  BY <1>1, StillHeld, Zenon
<1>2. CASE ~UNCHANGED leases
  <2>1. PICK i \in Addrs :
          SetLease(i, [mac |-> NoMac, allocated |-> leases[i].allocated, left |-> DECLINETIME])
    BY <1>2, Zenon DEF Decline
  <2> DEFINE e == [mac |-> NoMac, allocated |-> leases[i].allocated, left |-> DECLINETIME]
  <2>2. e \in Entry /\ e.mac = NoMac /\ e.left >= n
    BY Times DEF IInv, DhcpdTypeOK, Entry
  <2>3. i = ip => e.allocated
    BY Zenon DEF Held
  <2>4. SetLease(i, e)
    BY <2>1, Zenon
  <2> HIDE DEF e
  <2> QED BY <2>2, <2>3, <2>4, SetHeld, Zenon DEF IInv
<1> QED BY <1>1, <1>2, Zenon

\* A request that is not answered clears an entry only if it has expired.
LEMMA OwnSilent ==
    ASSUME IInv, NEW ip \in Addrs, NEW n \in Nat \ {0}, Held(ip, n),
           NEW m \in Request, KeepSilent(m)
    PROVE  Held(ip, n)'
<1>1. CASE m.server = NoServer /\ m.req # 0
  <2>1. m.req \in Addrs /\ leases[m.req].left = 0 /\ SetLease(m.req, Free)
    BY <1>1, Zenon DEF KeepSilent, RequestSilent
  <2>2. m.req # ip
    BY <2>1 DEF Held
  <2> QED BY <2>1, <2>2, SetHeld, NoGrantType, Zenon DEF IInv
<1>2. CASE ~(m.server = NoServer /\ m.req # 0)
  BY <1>2, StillHeld, Zenon DEF KeepSilent
<1> QED BY <1>1, <1>2, Zenon

\* A tick.
LEMMA ElapseHeld ==
    ASSUME DhcpdTypeOK, NEW ip \in Addrs, NEW n \in Nat, Held(ip, n + 1), Elapse
    PROVE  Held(ip, n)'
BY DEF DhcpdTypeOK, Held, Elapse, Max2

\* A message of the client that the server handles.
LEMMA RequestHeard == \A m \in Request : Heard(m)
BY DhcpAssumption DEF Request, Heard

LEMMA ServeHandles ==
    ASSUME IInv, up \in Seq(Request), Serve
    PROVE  /\ up # << >> /\ Head(up) \in Request /\ IInv' /\ UNCHANGED client
<1>1. up # << >> /\ Head(up) \in Request /\ UNCHANGED client
  BY TailMeans, Zenon DEF Serve
<1>2. Handle(Head(up))
  BY Zenon DEF Serve, Handle
<1> QED BY <1>1, <1>2, HandleStep, RequestHeard, Zenon

\* Served while the client renews its lease, and while only requests are on
\* the way.
LEMMA ServeHeld ==
    ASSUME IInv, up \in Seq(Request), Serve, NEW ip \in Addrs, NEW n \in Nat \ {0}, Held(ip, n),
           n <= 2 \/ (OnlyRequests /\ n <= LEASETIME)
    PROVE  Held(ip, n)'
<1>0. up # << >> /\ Head(up) \in Request /\ Head(up) = up[1] /\ 1 \in DOMAIN up /\ n <= LEASETIME
  BY TailMeans, Times DEF Serve
<1> DEFINE m == Head(up)
<1>1. CASE \E i \in Addrs, sent \in BOOLEAN : Acknowledge(m, i, sent)
  BY <1>0, <1>1, OwnAcknowledge, Zenon
<1>2. CASE DiscoverFails(m) \/ Refuse(m)
  BY <1>2, StillHeld, Zenon DEF DiscoverFails, Refuse, dhcpdVars
<1>3. CASE KeepSilent(m)
  BY <1>0, <1>3, OwnSilent, Zenon
<1>4. CASE (\E i \in Addrs : Discover(m, i)) \/ Decline(m)
  <2>1. m.type # "request"
    BY <1>4, Zenon DEF Discover, Decline
  <2>2. n <= 2
    BY <1>0, <2>1, Zenon DEF OnlyRequests
  <2> QED BY <1>0, <1>4, <2>2, OwnDiscover, OwnDecline, Zenon
<1> QED BY <1>1, <1>2, <1>3, <1>4, Zenon DEF Serve

-----------------------------------------------------------------------------
(* The steps of the client that leave the queues alone.                      *)

LEMMA UnservedStep == IInv /\ Unserved => IInv'
BY UnchangedStep, Zenon DEF Unserved, dhcpdVars

\* dhcpc_request returns ERROR: the client has no address, and begins again.
LEMMA FailStep ==
    ASSUME NetInv, Fail, Queues'
    PROVE  NetInv'
<1>1. /\ st' \in {"off", "discover"} /\ retries' = 0 /\ offer' = NoOffer /\ owned' = 0
      /\ aged' = FALSE /\ sleep' = sleep /\ cancel' = cancel /\ joining' = joining /\ Unserved
  BY Zenon DEF Fail, Returned
<1>2. IInv'
  BY <1>1, UnservedStep, Zenon DEF NetInv
<1>3. ClientOK'
  BY <1>1, DhcpAssumption DEF NetInv, ClientOK, NoOffer
<1>7. Flags'
  BY <1>1, Zenon DEF NetInv, Flags
<1>4. Place'
  BY <1>1, DhcpAssumption DEF Place
<1>5. Before' /\ During'
  BY <1>1 DEF Before, During
<1>6. After'
  BY <1>1, AddrAssumption DEF After, Addrs
<1> QED BY <1>2, <1>3, <1>4, <1>5, <1>6, <1>7, Zenon DEF NetInv

LEMMA RequestAsyncStep ==
    ASSUME NetInv, RequestAsync
    PROVE  NetInv'
<1>1. /\ st = "off" /\ st' = "discover" /\ cancel' = FALSE /\ retries' = retries /\ offer' = offer
      /\ owned' = owned /\ aged' = aged /\ sleep' = sleep /\ joining' = joining
      /\ up' = up /\ down' = down /\ Unserved
  BY Zenon DEF RequestAsync, net
<1>0. retries = 0 /\ owned = 0 /\ aged = FALSE
  BY <1>1, Zenon DEF NetInv, Place, Flags
<1>2. IInv' /\ Queues'
  BY <1>1, UnservedStep, Zenon DEF NetInv, Queues
<1>3. ClientOK'
  BY <1>1, Zenon DEF NetInv, ClientOK
<1>7. Flags'
  BY <1>1, Zenon DEF NetInv, Flags
<1>4. Place'
  BY <1>0, <1>1, DhcpAssumption DEF Place
<1>5. Before' /\ During'
  BY <1>0, <1>1 DEF Before, During
<1>6. After'
  BY <1>0, <1>1, AddrAssumption DEF After, Addrs
<1> QED BY <1>2, <1>3, <1>4, <1>5, <1>6, <1>7, Zenon DEF NetInv

LEMMA FallAsleepStep ==
    ASSUME NetInv, FallAsleep
    PROVE  NetInv'
<1>1. /\ st = "nap" /\ st' = "sleep" /\ sleep' = LEASETIME \div 2
      /\ cancel' = cancel /\ retries' = retries /\ offer' = offer
      /\ owned' = owned /\ aged' = aged /\ joining' = joining
      /\ up' = up /\ down' = down /\ Unserved
  BY Zenon DEF FallAsleep, net
<1>2. IInv' /\ Queues'
  BY <1>1, UnservedStep, Zenon DEF NetInv, Queues
<1>3. ClientOK'
  BY <1>1, Times DEF NetInv, ClientOK
<1>7. Flags'
  BY <1>1, Zenon DEF NetInv, Flags
<1>4. Place'
  BY <1>1, Zenon DEF NetInv, Place
<1>5. Before' /\ During'
  BY <1>1, Zenon DEF Before, During
<1>6. After'
  <2>1. Margin = LEASETIME \div 2 + 2 /\ Margin' = Margin
    BY <1>1, Zenon DEF Margin
  <2> QED BY <1>1, <2>1, Zenon DEF NetInv, After, Held, Unserved, OnlyRequests
<1> QED BY <1>2, <1>3, <1>4, <1>5, <1>6, <1>7, Zenon DEF NetInv

LEMMA WakeUpStep ==
    ASSUME NetInv, WakeUp
    PROVE  NetInv'
<1>1. /\ st = "sleep" /\ sleep = 0 /\ st' \in {"off", "discover"} /\ (st' = "off" => cancel)
      /\ cancel' = cancel /\ retries' = retries /\ offer' = offer
      /\ owned' = owned /\ aged' = aged /\ sleep' = sleep /\ joining' = joining
      /\ up' = up /\ down' = down /\ Unserved
  BY Zenon DEF WakeUp, net
<1>0. retries = 0 /\ ~aged
  BY <1>1, Zenon DEF NetInv, Place
<1>2. IInv' /\ Queues'
  BY <1>1, UnservedStep, Zenon DEF NetInv, Queues
<1>3. ClientOK'
  BY <1>1, Zenon DEF NetInv, ClientOK
<1>7. Flags'
  BY <1>1, Zenon DEF NetInv, Flags
<1>4. Place'
  BY <1>0, <1>1, DhcpAssumption DEF NetInv, Place
<1>5. Before' /\ During'
  BY <1>0, <1>1 DEF Before, During
<1>6. After'
  <2>1. Margin = 2 /\ Margin' = 2
    BY <1>0, <1>1 DEF Margin
  <2> QED BY <1>1, <2>1, Zenon DEF NetInv, After, Held, Unserved
<1> QED BY <1>2, <1>3, <1>4, <1>5, <1>6, <1>7, Zenon DEF NetInv

LEMMA CancelStep ==
    ASSUME NetInv, Cancel
    PROVE  NetInv'
<1>1. /\ cancel' = TRUE /\ joining' = TRUE /\ owned' = 0 /\ sleep' = 0
      /\ st' = (IF st = "sleep" THEN "off" ELSE st)
      /\ retries' = retries /\ offer' = offer /\ aged' = aged
      /\ up' = up /\ down' = down /\ Unserved
  BY Zenon DEF Cancel, net
<1>2. IInv' /\ Queues'
  BY <1>1, UnservedStep, Zenon DEF NetInv, Queues
<1>3. ClientOK'
  BY <1>1, Times DEF NetInv, ClientOK
<1>4. Place'
  BY <1>1, Zenon DEF NetInv, Place
<1>5. Before'
  BY <1>1, Zenon DEF NetInv, Before
<1>6. During'
  BY <1>1, Zenon DEF NetInv, During, Held, AckMargin, OnlyRequests, Unserved
<1>7. After'
  BY <1>1, AddrAssumption DEF After, Addrs
<1>8. Flags'
  BY <1>1, Zenon DEF NetInv, Flags
<1> QED BY <1>2, <1>3, <1>4, <1>5, <1>6, <1>7, <1>8, Zenon DEF NetInv

LEMMA JoinStep ==
    ASSUME NetInv, Join
    PROVE  NetInv'
<1>1. /\ joining' = FALSE /\ cancel' = cancel /\ owned' = owned /\ sleep' = sleep /\ st' = st
      /\ retries' = retries /\ offer' = offer /\ aged' = aged
      /\ up' = up /\ down' = down /\ Unserved
  BY Zenon DEF Join, net
<1>2. IInv' /\ Queues'
  BY <1>1, UnservedStep, Zenon DEF NetInv, Queues
<1>3. ClientOK'
  BY <1>1, Zenon DEF NetInv, ClientOK
<1>4. Place' /\ Before'
  BY <1>1, Zenon DEF NetInv, Place, Before
<1>5. During'
  BY <1>1, Zenon DEF NetInv, During, Held, AckMargin, OnlyRequests, Unserved
<1>6. After'
  BY <1>1, Zenon DEF NetInv, After, Held, Margin, OnlyRequests, Unserved
<1>7. Flags'
  BY <1>1, Zenon DEF NetInv, Flags
<1> QED BY <1>2, <1>3, <1>4, <1>5, <1>6, <1>7, Zenon DEF NetInv

LEMMA RecvTimeoutStep ==
    ASSUME NetInv, RecvTimeout
    PROVE  NetInv'
<1>0. st \in {"offer", "ack"} /\ up' = up /\ down' = down
  BY Zenon DEF RecvTimeout, net
<1>1. CASE Fail
  BY <1>0, <1>1, FailStep, Zenon DEF NetInv, Queues
<1>2. CASE ~Fail
  <2>1. /\ retries < RETRIES /\ st' = IF st = "offer" THEN "discover" ELSE "request"
        /\ joining' = joining /\ cancel' = cancel /\ owned' = owned /\ sleep' = sleep
        /\ retries' = retries /\ offer' = offer /\ aged' = aged /\ Unserved
    BY <1>2, Zenon DEF RecvTimeout
  <2>2. IInv' /\ Queues'
    BY <1>0, <2>1, UnservedStep, Zenon DEF NetInv, Queues
  <2>3. ClientOK'
    BY <1>0, <2>1, Zenon DEF NetInv, ClientOK
  <2>4. Place'
    BY <1>0, <2>1 DEF NetInv, ClientOK, Place
  <2>5. Before'
    BY <1>0, <2>1, Zenon DEF NetInv, Before
  <2>6. During'
    BY <1>0, <2>1, Zenon DEF NetInv, During, Held, AckMargin, OnlyRequests, Unserved
  <2>7. After'
    BY <1>0, <2>1, Zenon DEF NetInv, After, Held, Margin, OnlyRequests, Unserved
  <2>8. Flags'
    BY <2>1, Zenon DEF NetInv, Flags
  <2> QED BY <2>2, <2>3, <2>4, <2>5, <2>6, <2>7, <2>8, Zenon DEF NetInv
<1> QED BY <1>1, <1>2, Zenon

LEMMA RecvErrorStep ==
    ASSUME NetInv, RecvError
    PROVE  NetInv'
BY FailStep, Zenon DEF RecvError, net, NetInv, Queues

-----------------------------------------------------------------------------
(* The steps of the client that send.                                        *)

LEMMA SendDiscoverStep ==
    ASSUME NetInv, SendDiscover
    PROVE  NetInv'
<1>1. CASE Fail /\ UNCHANGED net
  BY <1>1, FailStep, Zenon DEF net, NetInv, Queues
<1>2. CASE ~(Fail /\ UNCHANGED net)
  <2> DEFINE m == ToServer("discover", NoServer, 0, 0)
             q == IF retries = 0 THEN Aged(up) ELSE up
             d == IF retries = 0 THEN Aged(down) ELSE down
  <2>1. /\ st = "discover" /\ st' = "offer" /\ retries' = retries + 1 /\ Unserved
        /\ joining' = joining /\ cancel' = cancel /\ owned' = owned /\ sleep' = sleep
        /\ offer' = offer /\ aged' = aged /\ up' \in Push(q, m) /\ down' = d
    BY <1>2, Zenon DEF SendDiscover
  <2>2. m \in Request /\ ~Fresh(m)
    BY Zenon DEF ToServer, Request, Fresh
  <2>3. /\ q \in Seq(Request) /\ Len(q) <= QueueMax /\ \A i \in DOMAIN q : ~Fresh(q[i])
        /\ d \in Seq(Answer) /\ Len(d) <= QueueMax /\ \A i \in DOMAIN d : ~Acked(d[i])
    <3>1. CASE retries = 0
      BY <3>1, AgedMeans, Zenon DEF NetInv, Queues, Fresh, Acked
    <3>2. CASE retries # 0
      <4>1. retries > 0
        BY <3>2 DEF NetInv, ClientOK
      <4> QED BY <2>1, <3>2, <4>1, Zenon DEF NetInv, Queues, Before
    <3> QED BY <3>1, <3>2, Zenon
  <2> HIDE DEF m, q, d
  <2>4. Queues' /\ \A i \in DOMAIN up' : ~Fresh(up'[i])
    BY <2>1, <2>2, <2>3, PushMeans DEF Queues
  <2>5. IInv'
    BY <2>1, UnservedStep, Zenon DEF NetInv
  <2>6. ClientOK' /\ Place'
    <3>1. retries \in Nat /\ retries < RETRIES
      BY <2>1 DEF NetInv, ClientOK, Place
    <3>2. ClientOK'
      BY <2>1, <3>1, DhcpAssumption DEF NetInv, ClientOK
    <3>3. Place'
      BY <2>1, <3>1 DEF NetInv, Place
    <3> QED BY <3>2, <3>3, Zenon
  <2>7. Before' /\ During'
    BY <2>1, <2>3, <2>4, Zenon DEF Before, During
  <2>8. After'
    BY <2>1, Zenon DEF NetInv, After, Held, Margin, Unserved
  <2>9. Flags'
    BY <2>1, Zenon DEF NetInv, Flags
  <2> QED BY <2>4, <2>5, <2>6, <2>7, <2>8, <2>9, Zenon DEF NetInv
<1> QED BY <1>1, <1>2, Zenon

LEMMA SendRequestStep ==
    ASSUME NetInv, SendRequest
    PROVE  NetInv'
<1>1. CASE Fail /\ UNCHANGED net
  BY <1>1, FailStep, Zenon DEF net, NetInv, Queues
<1>2. CASE ~(Fail /\ UNCHANGED net)
  <2> DEFINE m == ToServer("request", offer.server, offer.ip, 0)
  <2>1. /\ st = "request" /\ st' = "ack" /\ retries' = retries + 1 /\ Unserved
        /\ joining' = joining /\ cancel' = cancel /\ owned' = owned /\ sleep' = sleep
        /\ offer' = offer /\ aged' = aged /\ up' \in Push(up, m) /\ down' = down
    BY <1>2, Zenon DEF SendRequest
  <2>2. m \in Request /\ m.type = "request" /\ m.server = offer.server
    BY AddrAssumption, DhcpAssumption, SMTT(30) DEF ToServer, Request, NetInv, ClientOK, Addrs
  <2> HIDE DEF m
  <2>3. /\ up' \in Seq(Request) /\ Len(up') <= QueueMax
        /\ \A i \in DOMAIN up' : up'[i] = m \/ (i \in DOMAIN up /\ up'[i] = up[i])
        /\ \A i, j \in DOMAIN up' : i < j => i \in DOMAIN up /\ up'[i] = up[i]
    BY <2>1, <2>2, PushMeans, SMTT(30) DEF NetInv, Queues
  <2>4. IInv' /\ Queues'
    BY <2>1, <2>3, UnservedStep, Zenon DEF NetInv, Queues
  <2>5. retries \in Nat /\ retries < RETRIES
    BY <2>1 DEF NetInv, ClientOK, Place
  <2>6. ClientOK' /\ Flags'
    <3>1. ClientOK'
      BY <2>1, <2>5, DhcpAssumption DEF NetInv, ClientOK
    <3>2. Flags'
      BY <2>1, Zenon DEF NetInv, Flags
    <3> QED BY <3>1, <3>2, Zenon
  <2>7. Place' /\ Before'
    BY <2>1, <2>5 DEF NetInv, Place, Before
  <2>8. OnlyRequests => OnlyRequests'
    BY <2>2, <2>3, Zenon DEF OnlyRequests
  <2>9. During'
    <3>1. ASSUME NEW i \in DOMAIN up', Fresh(up'[i]) PROVE up'[i].server = offer.server
      BY <2>1, <2>2, <2>3, <3>1, Zenon DEF NetInv, During
    <3>2. ASSUME offer.server = Me, NEW i \in DOMAIN up', NEW j \in DOMAIN up', i < j, Fresh(up'[i])
          PROVE  up'[j].type = "request"
      BY <2>1, <2>2, <2>3, <3>2, Zenon DEF NetInv, During
    <3>3. ASSUME NEW i \in DOMAIN down, Acked(down[i])
          PROVE  offer.server = Me /\ OnlyRequests' /\ Held(down[i].ip, AckMargin)'
      <4>1. offer.server = Me /\ OnlyRequests /\ Held(down[i].ip, AckMargin)
        BY <2>1, <3>3, Zenon DEF NetInv, During
      <4>2. Held(down[i].ip, AckMargin)'
        BY <2>1, <4>1, Zenon DEF Held, AckMargin, Unserved
      <4> QED BY <2>8, <4>1, <4>2, Zenon
    <3> QED BY <2>1, <3>1, <3>2, <3>3, Zenon DEF During
  <2>10. After'
    BY <2>1, <2>8, Zenon DEF NetInv, After, Held, Margin, Unserved
  <2> QED BY <2>4, <2>6, <2>7, <2>9, <2>10, Zenon DEF NetInv
<1> QED BY <1>1, <1>2, Zenon

\* An offer of another server than the one the client has chosen: if it is the
\* server's that is declined, the client has asked another one.
LEMMA RecvSecondOfferStep ==
    ASSUME NetInv, RecvSecondOffer
    PROVE  NetInv'
<1> DEFINE m == ToServer("decline", Me, 0, Head(down).ip)
<1>1. /\ st = "ack" /\ Head(down).server # offer.server /\ down # << >> /\ down' = Tail(down)
      /\ up' \in IF Head(down).server = Me THEN Push(up, m) ELSE {up}
      /\ UNCHANGED client /\ Unserved
  BY Zenon DEF RecvSecondOffer, Received
<1>2. /\ Head(down) = down[1] /\ down[1] \in Answer /\ 1 \in DOMAIN down
      /\ down' \in Seq(Answer) /\ Len(down') <= QueueMax
      /\ \A i \in DOMAIN down' : i + 1 \in DOMAIN down /\ down'[i] = down[i + 1]
  BY <1>1, TailMeans, DhcpAssumption DEF NetInv, Queues
<1>3. m \in Request /\ ~Fresh(m)
  BY <1>2, AddrAssumption, DhcpAssumption, SMTT(30) DEF ToServer, Request, Answer, Addrs, Fresh
<1> HIDE DEF m
<1>4. /\ up' \in Seq(Request) /\ Len(up') <= QueueMax
      /\ \A i \in DOMAIN up' : up'[i] = m \/ (i \in DOMAIN up /\ up'[i] = up[i])
      /\ offer.server = Me => up' = up
  BY <1>1, <1>3, PushMeans DEF NetInv, Queues
<1>5. IInv' /\ Queues'
  BY <1>1, <1>2, <1>4, UnservedStep, Zenon DEF NetInv, Queues
<1>6. ClientOK' /\ Flags' /\ Place'
  BY <1>1, Zenon DEF client, NetInv, ClientOK, Flags, Place
<1>7. st' = st /\ offer' = offer /\ owned' = owned /\ aged' = aged /\ sleep' = sleep /\ leases' = leases
  BY <1>1, Zenon DEF client, Unserved
<1>8. Before'
  BY <1>1, <1>7, Zenon DEF Before
<1>9. During'
  <2>1. ASSUME NEW i \in DOMAIN up', Fresh(up'[i]) PROVE up'[i].server = offer.server
    BY <1>1, <1>3, <1>4, <2>1, Zenon DEF NetInv, During
  <2>2. ASSUME offer.server = Me, NEW i \in DOMAIN up', NEW j \in DOMAIN up', i < j, Fresh(up'[i])
        PROVE  up'[j].type = "request"
    BY <1>1, <1>4, <2>2, Zenon DEF NetInv, During
  <2>3. ASSUME NEW i \in DOMAIN down', Acked(down'[i])
        PROVE  (offer.server = Me /\ OnlyRequests /\ Held(down[i].ip, AckMargin))'
    <3>1. offer.server = Me /\ OnlyRequests /\ Held(down[i + 1].ip, AckMargin)
      BY <1>1, <1>2, <2>3, Zenon DEF NetInv, During
    <3> QED BY <1>2, <1>4, <1>7, <3>1, Zenon DEF Held, AckMargin, OnlyRequests
  <2> QED BY <1>7, <2>1, <2>2, <2>3, Zenon DEF During
<1>10. After'
  BY <1>1, <1>7, Zenon DEF NetInv, After, Held, Margin
<1> QED BY <1>5, <1>6, <1>8, <1>9, <1>10, Zenon DEF NetInv

-----------------------------------------------------------------------------
(* The steps of the client that receive.                                     *)

\* The head of the queue is gone.
LEMMA DownTail ==
    ASSUME Queues, down # << >>, down' = Tail(down)
    PROVE  /\ Head(down) = down[1] /\ down[1] \in Answer /\ 1 \in DOMAIN down
           /\ down' \in Seq(Answer) /\ Len(down') <= QueueMax
           /\ \A i \in DOMAIN down' : i + 1 \in DOMAIN down /\ down'[i] = down[i + 1]
BY TailMeans, DhcpAssumption DEF Queues

\* The first offer: no DHCPREQUEST has been sent yet.
LEMMA RecvOfferStep ==
    ASSUME NetInv, RecvOffer
    PROVE  NetInv'
<1>1. /\ st = "offer" /\ st' = "request" /\ retries' = 0 /\ down # << >> /\ down' = Tail(down)
      /\ offer' = [server |-> Head(down).server, ip |-> Head(down).ip] /\ up' = up /\ Unserved
      /\ sleep' = sleep /\ cancel' = cancel /\ joining' = joining /\ owned' = owned /\ aged' = aged
  BY Zenon DEF RecvOffer, Received
<1>2. /\ Head(down) \in Answer /\ down' \in Seq(Answer) /\ Len(down') <= QueueMax
      /\ \A i \in DOMAIN down' : i + 1 \in DOMAIN down /\ down'[i] = down[i + 1]
  BY <1>1, DownTail, Zenon DEF NetInv
<1>3. /\ offer'.server \in {Me, Other}
      /\ offer' \in [server : Servers \cup {NoServer}, ip : Addrs \cup {0, OtherIp}]
  BY <1>1, <1>2, AddrAssumption, DhcpAssumption, Zenon DEF Answer
<1>4. IInv' /\ Queues'
  BY <1>1, <1>2, UnservedStep, Zenon DEF NetInv, Queues
<1>5. ClientOK'
  BY <1>1, <1>3, DhcpAssumption, SMTT(30) DEF NetInv, ClientOK
<1>6. Flags'
  BY <1>1, Zenon DEF NetInv, Flags
<1>7. Place' /\ Before'
  BY <1>1, <1>3, DhcpAssumption, SMTT(30) DEF NetInv, Place, Before
<1>8. During'
  <2>1. /\ \A i \in DOMAIN up' : ~Fresh(up'[i])
        /\ \A i \in DOMAIN down' : ~Acked(down'[i])
    BY <1>1, <1>2, Zenon DEF NetInv, Before
  <2> QED BY <2>1, Zenon DEF During
<1>9. After'
  BY <1>1, Zenon DEF NetInv, After, Held, Margin, Unserved
<1> QED BY <1>4, <1>5, <1>6, <1>7, <1>8, <1>9, Zenon DEF NetInv

\* An acknowledgement: the server keeps the address for longer than the client
\* will sleep.
LEMMA RecvAckStep ==
    ASSUME NetInv, RecvAck
    PROVE  NetInv'
<1>1. /\ st = "ack" /\ st' = (IF cancel THEN "off" ELSE "nap") /\ down # << >> /\ down' = Tail(down)
      /\ Head(down).age = 0 /\ Head(down).type = "ack"
      /\ owned' = IF cancel \/ Head(down).server # Me THEN 0 ELSE Head(down).ip
      /\ retries' = 0 /\ offer' = NoOffer /\ aged' = FALSE
      /\ sleep' = sleep /\ cancel' = cancel /\ joining' = joining /\ up' = up /\ Unserved
  BY Zenon DEF RecvAck, Received, Returned
<1>2. /\ Head(down) = down[1] /\ down[1] \in Answer /\ 1 \in DOMAIN down
      /\ down' \in Seq(Answer) /\ Len(down') <= QueueMax
  BY <1>1, DownTail, Zenon DEF NetInv
<1>3. IInv' /\ Queues'
  BY <1>1, <1>2, UnservedStep, Zenon DEF NetInv, Queues
<1>4. st' \in {"off", "nap"} /\ (st' = "off" <=> cancel)
  BY <1>1, Zenon
<1>5. owned' \in Addrs \cup {0} /\ (cancel => owned' = 0)
      /\ (owned' \in Addrs => st' = "nap" /\ owned' = down[1].ip /\ Acked(down[1]))
  <2>1. CASE cancel \/ Head(down).server # Me
    BY <1>1, <2>1, AddrAssumption, SMTT(30) DEF Addrs
  <2>2. CASE ~cancel /\ Head(down).server = Me
    BY <1>1, <1>2, <2>2, DhcpAssumption, Zenon DEF Answer, Acked
  <2> QED BY <2>1, <2>2, Zenon
<1>6. ClientOK'
  BY <1>1, <1>4, <1>5, DhcpAssumption, SMTT(30) DEF NetInv, ClientOK, NoOffer
<1>7. Flags'
  BY <1>1, Zenon DEF NetInv, Flags
<1>8. Place'
  BY <1>1, <1>4, <1>5, Zenon DEF Place
<1>9. Before' /\ During'
  BY <1>4, Zenon DEF Before, During
<1>10. After'
  <2> SUFFICES ASSUME owned' \in Addrs
               PROVE  Held(owned, Margin)' /\ OnlyRequests'
    BY Zenon DEF After
  <2>1. OnlyRequests /\ Held(down[1].ip, AckMargin)
    BY <1>1, <1>2, <1>5, Zenon DEF NetInv, During
  <2>2. Margin' = LEASETIME \div 2 + 2
    BY <1>5, Zenon DEF Margin
  <2>3. AckMargin \in Nat /\ AckMargin >= Margin' /\ Margin' \in Nat
    BY <2>2, Margins, Times DEF NetInv
  <2>4. leases' = leases /\ leases[owned'].left \in Nat
    BY <1>1, <1>5, Zenon DEF Unserved, NetInv, IInv, DhcpdTypeOK
  <2> QED BY <1>1, <1>5, <2>1, <2>3, <2>4, SMTT(30) DEF Held, OnlyRequests
<1> QED BY <1>3, <1>6, <1>7, <1>8, <1>9, <1>10, Zenon DEF NetInv

LEMMA RecvNakStep ==
    ASSUME NetInv, RecvNak
    PROVE  NetInv'
<1>1. Fail /\ down # << >> /\ down' = Tail(down) /\ up' = up
  BY Zenon DEF RecvNak, Received
<1>2. Queues'
  BY <1>1, DownTail, Zenon DEF NetInv, Queues
<1> QED BY <1>1, <1>2, FailStep, Zenon

LEMMA RecvIgnoredStep ==
    ASSUME NetInv, RecvIgnored
    PROVE  NetInv'
<1>1. /\ st \in {"offer", "ack"} /\ down # << >> /\ down' = Tail(down) /\ up' = up
      /\ UNCHANGED client /\ Unserved
  BY Zenon DEF RecvIgnored
<1>2. /\ down' \in Seq(Answer) /\ Len(down') <= QueueMax
      /\ \A i \in DOMAIN down' : i + 1 \in DOMAIN down /\ down'[i] = down[i + 1]
  BY <1>1, DownTail, Zenon DEF NetInv
<1>3. IInv' /\ Queues'
  BY <1>1, <1>2, UnservedStep, Zenon DEF NetInv, Queues
<1>4. ClientOK' /\ Flags' /\ Place'
  BY <1>1, Zenon DEF client, NetInv, ClientOK, Flags, Place
<1>5. /\ st' = st /\ offer' = offer /\ owned' = owned /\ aged' = aged /\ sleep' = sleep
      /\ retries' = retries /\ leases' = leases
  BY <1>1, Zenon DEF client, Unserved
<1>6. Before'
  BY <1>1, <1>2, <1>5, Zenon DEF NetInv, Before
<1>7. During'
  <2>1. ASSUME st = "ack", NEW i \in DOMAIN down', Acked(down'[i])
        PROVE  (offer.server = Me /\ OnlyRequests /\ Held(down[i].ip, AckMargin))'
    <3>1. offer.server = Me /\ OnlyRequests /\ Held(down[i + 1].ip, AckMargin)
      BY <1>1, <1>2, <2>1, Zenon DEF NetInv, During
    <3> QED BY <1>1, <1>2, <1>5, <3>1, Zenon DEF Held, AckMargin, OnlyRequests
  <2> QED BY <1>1, <1>5, <2>1, Zenon DEF NetInv, During
<1>8. After'
  BY <1>1, <1>5, Zenon DEF NetInv, After, Held, Margin
<1> QED BY <1>3, <1>4, <1>6, <1>7, <1>8, Zenon DEF NetInv

-----------------------------------------------------------------------------
(* The second server.                                                        *)

LEMMA OtherStep ==
    ASSUME NetInv, NEW m \in Answer, ~Acked(m), down' \in Push(down, m),
           UNCHANGED <<client, up>>, Unserved
    PROVE  NetInv'
<1>1. /\ down' \in Seq(Answer) /\ Len(down') <= QueueMax
      /\ \A i \in DOMAIN down' : down'[i] = m \/ (i \in DOMAIN down /\ down'[i] = down[i])
  BY PushMeans, SMTT(30) DEF NetInv, Queues
<1>2. IInv' /\ Queues'
  BY <1>1, UnservedStep, Zenon DEF NetInv, Queues
<1>3. ClientOK' /\ Flags' /\ Place'
  BY SMTT(30) DEF client, NetInv, ClientOK, Flags, Place
<1>4. /\ st' = st /\ offer' = offer /\ owned' = owned /\ aged' = aged /\ sleep' = sleep
      /\ retries' = retries /\ leases' = leases /\ up' = up
  BY Zenon DEF client, Unserved
<1>5. Before'
  BY <1>1, <1>4, Zenon DEF NetInv, Before
<1>6. During'
  <2>1. ASSUME st \in {"request", "ack"}, NEW i \in DOMAIN down', Acked(down'[i])
        PROVE  (offer.server = Me /\ OnlyRequests /\ Held(down[i].ip, AckMargin))'
    <3>1. i \in DOMAIN down /\ down'[i] = down[i]
      BY <1>1, <2>1, Zenon
    <3>2. offer.server = Me /\ OnlyRequests /\ Held(down[i].ip, AckMargin)
      BY <2>1, <3>1, Zenon DEF NetInv, During
    <3> QED BY <1>4, <3>1, <3>2, Zenon DEF Held, AckMargin, OnlyRequests
  <2> QED BY <1>4, <2>1, Zenon DEF NetInv, During
<1>7. After'
  BY <1>4, Zenon DEF NetInv, After, Held, Margin, OnlyRequests
<1> QED BY <1>2, <1>3, <1>5, <1>6, <1>7, Zenon DEF NetInv

LEMMA OtherOfferStep ==
    ASSUME NetInv, OtherOffer
    PROVE  NetInv'
<1>1. Reply("offer", 0, Other, OtherIp) \in Answer /\ ~Acked(Reply("offer", 0, Other, OtherIp))
  BY DhcpAssumption, Zenon DEF Reply, Answer, Acked
<1> QED BY <1>1, OtherStep, Zenon DEF OtherOffer

LEMMA OtherAckStep ==
    ASSUME NetInv, OtherAck
    PROVE  NetInv'
<1>1. Reply("ack", 0, Other, OtherIp) \in Answer /\ ~Acked(Reply("ack", 0, Other, OtherIp))
  BY DhcpAssumption, Zenon DEF Reply, Answer, Acked
<1> QED BY <1>1, OtherStep, Zenon DEF OtherAck

-----------------------------------------------------------------------------
(* The daemon.                                                               *)

\* An acknowledgement of this request comes from its DHCPREQUEST alone.
LEMMA ServeReplies ==
    ASSUME NetInv, Serve
    PROVE  /\ down' \in Seq(Answer) /\ Len(down') <= QueueMax
           /\ \A i \in DOMAIN down' :
                \/ i \in DOMAIN down /\ down'[i] = down[i]
                \/ Acked(down'[i]) => /\ Fresh(Head(up)) /\ down'[i].ip \in Addrs
                                      /\ Acknowledge(Head(up), down'[i].ip, TRUE)
<1> DEFINE m == Head(up)
<1>0. /\ up # << >> /\ m \in Request /\ m.age \in Nat
      /\ down \in Seq(Answer) /\ Len(down) <= QueueMax
  BY ServeHandles, Zenon DEF NetInv, Queues, Request
<1>1. CASE UNCHANGED down
  BY <1>0, <1>1, Zenon
<1>2. ASSUME NEW r \in Answer, down' \in Push(down, r),
             Acked(r) => Fresh(m) /\ r.ip \in Addrs /\ Acknowledge(m, r.ip, TRUE)
      PROVE  /\ down' \in Seq(Answer) /\ Len(down') <= QueueMax
             /\ \A i \in DOMAIN down' :
                  \/ i \in DOMAIN down /\ down'[i] = down[i]
                  \/ Acked(down'[i]) => /\ Fresh(m) /\ down'[i].ip \in Addrs
                                        /\ Acknowledge(m, down'[i].ip, TRUE)
  <2>1. /\ down' \in Seq(Answer) /\ Len(down') <= QueueMax
        /\ \A i \in DOMAIN down' : down'[i] = r \/ (i \in DOMAIN down /\ down'[i] = down[i])
    BY <1>0, <1>2, PushMeans, SMTT(30)
  <2> QED BY <1>2, <2>1, Zenon
<1>3. ASSUME NEW ip \in Addrs, Discover(m, ip), down' \in Push(down, Reply("offer", m.age, Me, ip))
      PROVE  \E r \in Answer : /\ down' \in Push(down, r)
                               /\ Acked(r) => Fresh(m) /\ r.ip \in Addrs /\ Acknowledge(m, r.ip, TRUE)
  <2>1. Reply("offer", m.age, Me, ip) \in Answer /\ ~Acked(Reply("offer", m.age, Me, ip))
    BY <1>0, Zenon DEF Reply, Answer, Acked
  <2> QED BY <1>3, <2>1, Zenon
<1>4. ASSUME NEW ip \in Addrs, Acknowledge(m, ip, TRUE), down' \in Push(down, Reply("ack", m.age, Me, ip))
      PROVE  \E r \in Answer : /\ down' \in Push(down, r)
                               /\ Acked(r) => Fresh(m) /\ r.ip \in Addrs /\ Acknowledge(m, r.ip, TRUE)
  <2> DEFINE r == Reply("ack", m.age, Me, ip)
  <2>1. r \in Answer /\ r.ip = ip /\ (Acked(r) => m.age = 0)
    BY <1>0, Zenon DEF Reply, Answer, Acked
  <2>2. m.type = "request"
    BY <1>4, Zenon DEF Acknowledge, RequestAck
  <2>3. down' \in Push(down, r)
    BY <1>4, Zenon
  <2> HIDE DEF r
  <2> QED BY <1>4, <2>1, <2>2, <2>3, Zenon DEF Fresh
<1>5. ASSUME Refuse(m), down' \in Push(down, Reply("nak", m.age, Me, 0))
      PROVE  \E r \in Answer : /\ down' \in Push(down, r)
                               /\ Acked(r) => Fresh(m) /\ r.ip \in Addrs /\ Acknowledge(m, r.ip, TRUE)
  <2>1. Reply("nak", m.age, Me, 0) \in Answer /\ ~Acked(Reply("nak", m.age, Me, 0))
    BY <1>0, Zenon DEF Reply, Answer, Acked
  <2> QED BY <1>5, <2>1, Zenon
<1> QED BY <1>1, <1>2, <1>3, <1>4, <1>5, Zenon DEF Serve

\* The queue to the server after one of its messages was handled.
LEMMA ServeQueue ==
    ASSUME Queues, Serve
    PROVE  /\ up' \in Seq(Request) /\ Len(up') <= QueueMax
           /\ OnlyRequests => OnlyRequests'
           /\ \E k \in {0, 1} : \A i \in DOMAIN up' :
                i \in Nat /\ i + k \in DOMAIN up /\ up'[i] = up[i + k]
<1>1. up \in Seq(Request) /\ Len(up) \in Nat /\ Len(up) <= QueueMax /\ up # << >> /\ up' \in Pop(up)
  BY SMTT(30) DEF Queues, Serve
<1>2. /\ up' \in Seq(Request) /\ Len(up') <= Len(up)
      /\ \E k \in {0, 1} : \A i \in DOMAIN up' :
           i \in Nat /\ i + k \in DOMAIN up /\ up'[i] = up[i + k]
  BY <1>1, PopMeans, Zenon
<1>3. Len(up') <= QueueMax
  BY <1>1, <1>2, DhcpAssumption
<1>4. OnlyRequests => OnlyRequests'
  BY <1>2, Zenon DEF OnlyRequests
<1> QED BY <1>2, <1>3, <1>4, Zenon

\* A DHCPREQUEST that is acknowledged was the last message that could cut the
\* lease down.
LEMMA ServeFresh ==
    ASSUME NetInv, Serve, st \in {"request", "ack"}, Fresh(Head(up)),
           NEW ip \in Addrs, Acknowledge(Head(up), ip, TRUE)
    PROVE  offer.server = Me /\ OnlyRequests /\ Held(ip, LEASETIME)'
<1> DEFINE m == Head(up)
<1>1. /\ m \in Request /\ m = up[1] /\ 1 \in DOMAIN up /\ DOMAIN up \subseteq Nat \ {0}
  BY TailMeans, SMTT(30) DEF NetInv, Queues, Serve
<1>2. m.server = offer.server /\ offer.server # NoServer
  BY <1>1, AddrAssumption, DhcpAssumption, Zenon DEF NetInv, During, Place
<1>3. offer.server = Me
  BY <1>2, Zenon DEF Acknowledge, RequestAck
<1>4. OnlyRequests
  <2> SUFFICES ASSUME NEW j \in DOMAIN up PROVE up[j].type = "request"
    BY Zenon DEF OnlyRequests
  <2>1. CASE j = 1
    BY <1>1, <2>1, Zenon DEF Fresh
  <2>2. CASE 1 < j
    BY <1>1, <1>3, <2>2, Zenon DEF NetInv, During
  <2> QED BY <1>1, <2>1, <2>2
<1>5. SetLease(ip, Lease(C, LEASETIME))
  BY <1>1, Zenon DEF Acknowledge, LeaseTime, Request
<1>6. Held(ip, LEASETIME)'
  BY <1>5, Times, SMTT(30) DEF SetLease, Lease, Held
<1> QED BY <1>3, <1>4, <1>6, Zenon

LEMMA ServeStep ==
    ASSUME NetInv, Serve
    PROVE  NetInv'
<1>1. UNCHANGED client /\ IInv'
  BY ServeHandles, Zenon DEF NetInv, Queues
<1>2. Queues'
  BY ServeQueue, ServeReplies, Zenon DEF NetInv, Queues
<1>3. ClientOK' /\ Flags' /\ Place'
  BY <1>1, SMTT(30) DEF client, NetInv, ClientOK, Flags, Place
<1>4. /\ st' = st /\ offer' = offer /\ owned' = owned /\ aged' = aged /\ sleep' = sleep
      /\ retries' = retries
  BY <1>1, Zenon DEF client
<1>5. PICK k \in {0, 1} : \A i \in DOMAIN up' :
        i \in Nat /\ i + k \in DOMAIN up /\ up'[i] = up[i + k]
  BY ServeQueue, Zenon DEF NetInv
<1>6. Before'
  <2> SUFFICES ASSUME st = "offer" \/ (st = "discover" /\ retries > 0)
               PROVE  /\ \A i \in DOMAIN up' : ~Fresh(up'[i])
                      /\ \A i \in DOMAIN down' : ~Acked(down'[i])
    BY <1>4, Zenon DEF Before
  <2>1. \A i \in DOMAIN up' : ~Fresh(up'[i])
    BY <1>5, Zenon DEF NetInv, Before
  <2>2. Head(up) = up[1] /\ 1 \in DOMAIN up
    BY TailMeans, Zenon DEF NetInv, Queues, Serve
  <2>3. ~Fresh(Head(up)) /\ \A i \in DOMAIN down : ~Acked(down[i])
    BY <2>2, Zenon DEF NetInv, Before
  <2> QED BY <2>1, <2>3, ServeReplies, Zenon
<1>7. During'
  <2> SUFFICES ASSUME st \in {"request", "ack"}
               PROVE  (/\ \A i \in DOMAIN up : Fresh(up[i]) => up[i].server = offer.server
                       /\ offer.server = Me =>
                            \A i, j \in DOMAIN up : i < j /\ Fresh(up[i]) => up[j].type = "request"
                       /\ \A i \in DOMAIN down : Acked(down[i]) =>
                            offer.server = Me /\ OnlyRequests /\ Held(down[i].ip, AckMargin))'
    BY <1>4, Zenon DEF During
  <2>1. \A i \in DOMAIN up' : Fresh(up'[i]) => up'[i].server = offer.server
    BY <1>5, Zenon DEF NetInv, During
  <2>2. ASSUME offer.server = Me, NEW i \in DOMAIN up', NEW j \in DOMAIN up', i < j, Fresh(up'[i])
        PROVE  up'[j].type = "request"
    <3>1. i + k \in DOMAIN up /\ j + k \in DOMAIN up /\ i + k < j + k /\ Fresh(up[i + k])
      BY <1>5, <2>2
    <3> QED BY <1>5, <2>2, <3>1, Zenon DEF NetInv, During
  <2>3. ASSUME NEW i \in DOMAIN down', Acked(down'[i])
        PROVE  (offer.server = Me /\ OnlyRequests /\ Held(down[i].ip, AckMargin))'
    <3>0. PICK n \in Nat : n = AckMargin /\ n > 0 /\ n <= LEASETIME
      BY Margins, Zenon DEF NetInv
    <3>1. PICK ip : ip = down'[i].ip
      BY Zenon
    <3>2. offer.server = Me /\ OnlyRequests /\ Held(ip, n)'
      <4>1. CASE i \in DOMAIN down /\ down'[i] = down[i]
        <5>1. offer.server = Me /\ OnlyRequests /\ Held(ip, n)
          BY <2>3, <3>0, <3>1, <4>1, Zenon DEF NetInv, During
        <5>2. ip \in Addrs
          <6>1. down[i] \in Answer
            BY <4>1 DEF NetInv, Queues
          <6> QED BY <2>3, <3>1, <4>1, <6>1, DhcpAssumption, Zenon DEF Answer, Acked
        <5> QED BY <3>0, <5>1, <5>2, ServeHeld DEF NetInv, Queues
      <4>2. CASE ~(i \in DOMAIN down /\ down'[i] = down[i])
        <5>1. Fresh(Head(up)) /\ ip \in Addrs /\ Acknowledge(Head(up), ip, TRUE)
          BY <2>3, <3>1, <4>2, ServeReplies, Zenon
        <5>2. offer.server = Me /\ OnlyRequests /\ Held(ip, LEASETIME)'
          BY <5>1, ServeFresh, Zenon
        <5>3. leases'[ip].left \in Nat
          BY <1>1, <5>1, Zenon DEF IInv, DhcpdTypeOK
        <5> QED BY <3>0, <5>2, <5>3, Times, SMTT(30) DEF Held
      <4> QED BY <4>1, <4>2, Zenon
    <3>3. AckMargin' = n
      BY <1>4, <3>0, Zenon DEF AckMargin
    <3>4. OnlyRequests'
      BY <3>2, ServeQueue, Zenon DEF NetInv
    <3> QED BY <1>4, <3>1, <3>2, <3>3, <3>4, Zenon DEF Held
  <2> QED BY <1>4, <2>1, <2>2, <2>3, Zenon
<1>8. After'
  <2> SUFFICES ASSUME owned \in Addrs
               PROVE  Held(owned, Margin)' /\ (st \in {"nap", "sleep"} => OnlyRequests')
    BY <1>4, Zenon DEF After
  <2>1. PICK n \in Nat : n = Margin /\ n > 0 /\ n <= LEASETIME /\ (st \notin {"nap", "sleep"} => n <= 2)
    BY Margins, Zenon DEF NetInv
  <2>2. PICK ip \in Addrs : ip = owned
    BY Zenon
  <2>3. Held(ip, n) /\ (st \in {"nap", "sleep"} => OnlyRequests)
    BY <2>1, <2>2, Zenon DEF NetInv, After
  <2>4. Held(ip, n)'
    BY <2>1, <2>3, ServeHeld DEF NetInv, Queues
  <2>5. Margin' = n
    BY <1>4, <2>1, Zenon DEF Margin
  <2>6. Held(owned, Margin)'
    BY <1>4, <2>2, <2>4, <2>5, Zenon DEF Held
  <2> QED BY <2>3, <2>6, ServeQueue, Zenon DEF NetInv
<1> QED BY <1>1, <1>2, <1>3, <1>6, <1>7, <1>8, Zenon DEF NetInv

\* The steps that change the table and not the queues: what is held before
\* has to be held after them.
LEMMA TableStep ==
    ASSUME NetInv, UNCHANGED <<client, net>>, IInv',
           \A ip \in Addrs, n \in Nat \ {0} : Held(ip, n) => Held(ip, n)'
    PROVE  NetInv'
<1>1. ClientOK' /\ Flags' /\ Place'
  BY SMTT(30) DEF client, NetInv, ClientOK, Flags, Place
<1>2. /\ st' = st /\ offer' = offer /\ owned' = owned /\ aged' = aged /\ sleep' = sleep
      /\ retries' = retries /\ up' = up /\ down' = down
  BY Zenon DEF client, net
<1>3. Queues' /\ Before' /\ (OnlyRequests => OnlyRequests')
  BY <1>2, Zenon DEF NetInv, Queues, Before, OnlyRequests
<1>4. During'
  <2>1. ASSUME st \in {"request", "ack"}, NEW i \in DOMAIN down, Acked(down[i])
        PROVE  (offer.server = Me /\ OnlyRequests /\ Held(down[i].ip, AckMargin))'
    <3>0. PICK n \in Nat \ {0} : n = AckMargin
      BY Margins DEF NetInv
    <3>1. down[i] \in Answer
      BY DEF NetInv, Queues
    <3>2. PICK ip \in Addrs : ip = down[i].ip
      BY <2>1, <3>1, DhcpAssumption, Zenon DEF Answer, Acked
    <3>3. offer.server = Me /\ OnlyRequests /\ Held(ip, n)
      BY <2>1, <3>0, <3>2, Zenon DEF NetInv, During
    <3>4. Held(ip, n)'
      BY <3>3, Zenon
    <3>5. AckMargin' = n
      BY <1>2, <3>0, Zenon DEF AckMargin
    <3> QED BY <1>2, <1>3, <3>2, <3>3, <3>4, <3>5, Zenon DEF Held
  <2> QED BY <1>2, <2>1, Zenon DEF NetInv, During
<1>5. After'
  <2> SUFFICES ASSUME owned \in Addrs
               PROVE  Held(owned, Margin)' /\ (st \in {"nap", "sleep"} => OnlyRequests')
    BY <1>2, Zenon DEF After
  <2>1. PICK n \in Nat \ {0} : n = Margin
    BY Margins DEF NetInv
  <2>2. PICK ip \in Addrs : ip = owned
    BY Zenon
  <2>3. Held(ip, n) /\ (st \in {"nap", "sleep"} => OnlyRequests)
    BY <2>1, <2>2, Zenon DEF NetInv, After
  <2>4. Held(ip, n)' /\ Margin' = n
    BY <1>2, <2>1, <2>3, Zenon DEF Margin
  <2> QED BY <1>2, <1>3, <2>2, <2>3, <2>4, Zenon DEF Held
<1> QED BY <1>1, <1>3, <1>4, <1>5, Zenon DEF NetInv

LEMMA ServeOtherStep ==
    ASSUME NetInv, NEW m \in OtherMessages, ServeOther(m)
    PROVE  NetInv'
<1>1. Heard(m) /\ m.mac # C /\ Handle(m) /\ UNCHANGED <<client, net>>
  BY DhcpAssumption, MessageHeard, Zenon DEF ServeOther
<1>2. IInv'
  BY <1>1, HandleStep, Zenon DEF NetInv
<1>3. ASSUME NEW ip \in Addrs, NEW n \in Nat \ {0}, Held(ip, n) PROVE Held(ip, n)'
  BY <1>1, <1>3, OtherKeeps, Zenon DEF NetInv
<1> QED BY <1>1, <1>2, <1>3, TableStep, Zenon

\* The table is lost, and with it the client's address: no acknowledgement of
\* the daemon is on the way.
LEMMA RestartStep ==
    ASSUME NetInv, Restart
    PROVE  NetInv'
<1>1. /\ \A i \in DOMAIN down : down[i].server # Me
      /\ Reset /\ owned' = 0 /\ up' = << >> /\ down' = down
      /\ st' = st /\ offer' = offer /\ aged' = aged /\ sleep' = sleep /\ retries' = retries
      /\ cancel' = cancel /\ joining' = joining
  BY Zenon DEF Restart
<1>2. IInv'
  BY <1>1, ResetStep, Zenon
<1>3. Queues' /\ DOMAIN up' = {}
  BY <1>1, DhcpAssumption, SMTT(30) DEF NetInv, Queues
<1>4. ClientOK' /\ Place'
  BY <1>1, Zenon DEF NetInv, ClientOK, Place
<1>5. Flags'
  BY <1>1, Zenon DEF NetInv, Flags
<1>6. Before' /\ During'
  BY <1>1, <1>3, Zenon DEF Before, During, Acked
<1>7. After'
  BY <1>1, AddrAssumption DEF After, Addrs
<1> QED BY <1>2, <1>3, <1>4, <1>5, <1>6, <1>7, Zenon DEF NetInv

\* At most one tick falls into a request, and a lease outlasts the sleep.
LEMMA TickStep ==
    ASSUME NetInv, Tick
    PROVE  NetInv'
<1>1. /\ st = "off" \/ (st = "sleep" /\ sleep > 0) \/ (InRequest /\ ~aged)
      /\ Elapse /\ sleep' = Max2(sleep - 1, 0)
      /\ st' = st /\ offer' = offer /\ owned' = owned /\ retries' = retries
      /\ cancel' = cancel /\ joining' = joining /\ up' = up /\ down' = down
  BY Zenon DEF Tick, net
<1>0. (InRequest => aged') /\ (~InRequest => ~aged')
  BY Zenon DEF Tick
<1>2. IInv' /\ Queues'
  BY <1>1, ElapseStep, Zenon DEF NetInv, Queues
<1>3. aged' \in BOOLEAN
  BY Zenon DEF Tick, InRequest
<1>4. Flags'
  BY <1>1, <1>3, Zenon DEF NetInv, Flags
<1>5. ClientOK'
  BY <1>1, Times, SMTT(30) DEF NetInv, ClientOK, Max2
<1>6. Place'
  BY <1>0, <1>1, SMTT(30) DEF NetInv, ClientOK, Place, InRequest
<1>7. Before' /\ (OnlyRequests => OnlyRequests')
  BY <1>1, Zenon DEF NetInv, Before, OnlyRequests
<1>8. During'
  <2>1. ASSUME st \in {"request", "ack"}, NEW i \in DOMAIN down, Acked(down[i])
        PROVE  (offer.server = Me /\ OnlyRequests /\ Held(down[i].ip, AckMargin))'
    <3>0. AckMargin = LEASETIME /\ AckMargin' = LEASETIME - 1
      BY <1>0, <1>1, <2>1, Zenon DEF AckMargin, InRequest
    <3>1. down[i] \in Answer
      BY DEF NetInv, Queues
    <3>2. PICK ip \in Addrs : ip = down[i].ip
      BY <2>1, <3>1, DhcpAssumption, Zenon DEF Answer, Acked
    <3>3. PICK n \in Nat : n = LEASETIME - 1 /\ n + 1 = LEASETIME
      BY Times
    <3>4. offer.server = Me /\ OnlyRequests /\ Held(ip, n + 1)
      BY <2>1, <3>0, <3>2, <3>3, Zenon DEF NetInv, During
    <3>5. Held(ip, n)'
      BY <1>1, <3>4, ElapseHeld, Zenon DEF NetInv, IInv
    <3> QED BY <1>1, <1>7, <3>0, <3>2, <3>3, <3>4, <3>5, Zenon DEF Held
  <2> QED BY <1>1, <2>1, Zenon DEF NetInv, During
<1>9. After'
  <2> SUFFICES ASSUME owned \in Addrs
               PROVE  Held(owned, Margin)' /\ (st \in {"nap", "sleep"} => OnlyRequests')
    BY <1>1, Zenon DEF After
  <2>1. PICK n \in Nat : n = Margin' /\ Margin = n + 1
    <3>1. st # "off"
      BY AddrAssumption DEF NetInv, Place, Addrs
    <3>2. CASE st = "sleep" /\ sleep > 0
      BY <1>1, <3>2 DEF NetInv, ClientOK, Margin, Max2
    <3>3. CASE InRequest /\ ~aged
      BY <1>0, <1>1, <3>3 DEF InRequest, Margin
    <3> QED BY <1>1, <3>1, <3>2, <3>3, Zenon
  <2>2. PICK ip \in Addrs : ip = owned
    BY Zenon
  <2>3. Held(ip, n + 1) /\ (st \in {"nap", "sleep"} => OnlyRequests)
    BY <2>1, <2>2, Zenon DEF NetInv, After
  <2>4. Held(ip, n)'
    BY <1>1, <2>3, ElapseHeld, Zenon DEF NetInv, IInv
  <2> QED BY <1>1, <1>7, <2>1, <2>2, <2>3, <2>4, Zenon DEF Held
<1> QED BY <1>2, <1>4, <1>5, <1>6, <1>7, <1>8, <1>9, Zenon DEF NetInv

-----------------------------------------------------------------------------
(* Theorems                                                                  *)

LEMMA NetInit == Init => NetInv
<1> SUFFICES ASSUME Init PROVE NetInv
  BY Zenon
<1>1. /\ st = "off" /\ retries = 0 /\ offer = NoOffer /\ sleep = 0 /\ owned = 0
      /\ up = << >> /\ down = << >> /\ DhcpdInit
  BY Zenon DEF Init
<1>2. cancel = FALSE /\ joining = FALSE /\ aged = FALSE
  BY Zenon DEF Init
<1>3. IInv
  BY <1>1, SMTT(30) DEF DhcpdInit, IInv, DhcpdTypeOK, OneEntry, Backed, Free, NoGrant
<1>4. ClientOK
  BY <1>1, Times, DhcpAssumption, SMTT(30) DEF ClientOK, NoOffer
<1>5. Flags
  BY <1>2, Zenon DEF Flags
<1>6. Queues
  BY <1>1, DhcpAssumption DEF Queues
<1>7. Place
  BY <1>1, <1>2, Zenon DEF Place
<1>8. Before /\ During
  BY <1>1, Zenon DEF Before, During
<1>9. After
  BY <1>1, AddrAssumption DEF After, Addrs
<1> QED BY <1>3, <1>4, <1>5, <1>6, <1>7, <1>8, <1>9, Zenon DEF NetInv

LEMMA NetStutter == NetInv /\ UNCHANGED vars => NetInv'
<1> SUFFICES ASSUME NetInv, UNCHANGED vars PROVE NetInv'
  BY Zenon
<1>1. UNCHANGED <<client, net>> /\ UNCHANGED dhcpdVars /\ UNCHANGED leases
  BY Zenon DEF vars, dhcpdVars
<1>2. IInv'
  BY <1>1, UnchangedStep, Zenon DEF NetInv
<1>3. ASSUME NEW ip \in Addrs, NEW n \in Nat \ {0}, Held(ip, n) PROVE Held(ip, n)'
  BY <1>1, <1>3, StillHeld, Zenon
<1> QED BY <1>1, <1>2, <1>3, TableStep, Zenon

\* The inductive invariant of the client, the server and the two queues.
THEOREM NetInvariance == Spec => []NetInv
<1>1. NetInv /\ [Next]_vars => NetInv'
  <2> SUFFICES ASSUME NetInv, Next PROVE NetInv'
    BY NetStutter, Zenon
  <2>1. CASE ClientStep
    BY <2>1, SendDiscoverStep, RecvOfferStep, SendRequestStep, RecvAckStep, RecvNakStep,
       RecvSecondOfferStep, RecvIgnoredStep, RecvTimeoutStep, RecvErrorStep, FallAsleepStep,
       WakeUpStep, JoinStep, Zenon DEF ClientStep
  <2>2. CASE RequestAsync \/ Cancel \/ Restart \/ OtherOffer \/ OtherAck \/ Tick
    BY <2>2, RequestAsyncStep, CancelStep, RestartStep, OtherOfferStep, OtherAckStep, TickStep, Zenon
  <2>3. CASE Serve \/ \E m \in OtherMessages : ServeOther(m)
    BY <2>3, ServeStep, ServeOtherStep, Zenon
  <2> QED BY <2>1, <2>2, <2>3, Zenon DEF Next
<1> QED BY <1>1, NetInit, PTL DEF Spec

\* The variables keep their types; dhcpc_request never sends more messages in
\* a loop than CONFIG_NETUTILS_DHCPC_RETRIES.
THEOREM NetTypeCorrect == Spec => []TypeOK
<1>1. NetInv => TypeOK
  <2> SUFFICES ASSUME NetInv PROVE TypeOK
    BY Zenon
  <2>1. {cancel, joining, aged} \subseteq BOOLEAN
    BY Zenon DEF NetInv, Flags
  <2> QED BY <2>1, Zenon DEF NetInv, IInv, ClientOK, Queues, TypeOK
<1> QED BY <1>1, NetInvariance, PTL

\* The address that dhcpc last reported stays the client's for the server,
\* or out of use, until the next callback: whatever is lost or handled twice,
\* whatever other clients send, and whichever server answers first.
THEOREM AddressKept == Spec => []LeaseKept
<1>1. NetInv => LeaseKept
  <2> SUFFICES ASSUME NetInv, owned \in Addrs
               PROVE  leases[owned].left > 0 /\ leases[owned].mac \in {C, NoMac}
    BY Zenon DEF LeaseKept
  <2>1. Held(owned, Margin) /\ leases[owned].left \in Nat
    BY Zenon DEF NetInv, After, IInv, DhcpdTypeOK
  <2>2. Margin \in Nat /\ Margin > 0
    BY Margins, Zenon DEF NetInv
  <2> QED BY <2>1, <2>2 DEF Held
<1> QED BY <1>1, NetInvariance, PTL

\* With dhcpc among the clients, and restarts of the daemon, an acknowledged
\* address is still no other client's until its lease is over.
THEOREM NetOwnerOnce == Spec => []OneOwner
<1>1. NetInv => OneOwner
  BY SMTT(30) DEF NetInv, IInv, Backed, OneOwner
<1> QED BY <1>1, NetInvariance, PTL
=============================================================================
