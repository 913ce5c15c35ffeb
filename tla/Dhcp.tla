-------------------------------- MODULE Dhcp --------------------------------
(* netutils/dhcpc and netutils/dhcpd on one network segment: the thread of   *)
(* dhcpc_request_async in client C, the daemon, clients that are not dhcpc,  *)
(* and a second DHCP server.                                                 *)
(*                                                                           *)
(* The segment keeps the order of messages.  A message may be lost, which is *)
(* decided when it is sent, and one to the server may be handled twice, so   *)
(* that it is also answered twice.  The age of a message is the number of    *)
(* requests the client has begun since: dhcpc_parsemsg takes a reply if its  *)
(* xid is the client's, that is, if its age is 0.                            *)
(*                                                                           *)
(* A tick is longer than CONFIG_NETUTILS_DHCPC_RETRIES timeouts in both      *)
(* loops of dhcpc_request, so that at most one tick falls into a request,    *)
(* and longer than a restart of the daemon.  The address that dhcpc_request  *)
(* sets on the interface meanwhile is left out; no later step depends on it. *)
EXTENDS Dhcpd, Sequences

CONSTANTS
    C,              \* the client that runs dhcpc
    Other,          \* a DHCP server that is not dhcpd
    OtherIp,        \* the address it offers
    OtherMessages,  \* what the other clients send
    RETRIES,        \* CONFIG_NETUTILS_DHCPC_RETRIES
    XidMod,         \* requests after which xid repeats, 2^8 in the code
    QueueMax        \* bound on the messages in flight, in each direction

\* The times have to be longer than a request: see LeaseKept.
ASSUME DhcpAssumption ==
    /\ C \in Macs /\ Other \in Servers \ {Me} /\ OtherIp \in Nat \ (Addrs \cup {0})
    /\ OtherMessages \subseteq Message /\ \A m \in OtherMessages : m.mac # C
    /\ RETRIES \in Nat \ {0} /\ XidMod \in Nat \ {0, 1} /\ QueueMax \in Nat
    /\ OFFERTIME > 1 /\ DECLINETIME > 1 /\ LEASETIME - LEASETIME \div 2 > 2

VARIABLES
  (* dhcpc *)
    st,         \* where dhcpc_run is
    retries,    \* messages sent in this loop
    offer,      \* serverid and ipaddr: the offer taken
    sleep,      \* ticks left to sleep
    cancel,     \* the thread has to end
    joining,    \* dhcpc_cancel waits for the thread
    owned,      \* history: the address dhcpd granted in the last callback, or 0
    aged,       \* history: a tick has passed in this request
  (* network *)
    up, down    \* messages to the server, and from the servers

client == <<st, retries, offer, sleep, cancel, joining, owned, aged>>
net    == <<up, down>>
vars   == <<client, net, leases, granted>>

NoOffer == [server |-> NoServer, ip |-> 0]
ToServer(type, server, req, ci) ==
    [type |-> type, mac |-> C, server |-> server, req |-> req, ci |-> ci, time |-> 0, age |-> 0]
Reply(type, age, server, ip) == [type |-> type, age |-> age, server |-> server, ip |-> ip]

\* Queue q after message m was sent, or lost.
Push(q, m) == {q} \cup (IF Len(q) < QueueMax THEN {Append(q, m)} ELSE {})
\* Queue q after its head was handled, or handled for a first time.
Pop(q) == {q, Tail(q)}

Init ==
    /\ DhcpdInit
    /\ st = "off" /\ retries = 0 /\ offer = NoOffer
    /\ sleep = 0 /\ cancel = FALSE /\ joining = FALSE /\ owned = 0 /\ aged = FALSE
    /\ up = << >> /\ down = << >>

-----------------------------------------------------------------------------
(* dhcpc_request, called by dhcpc_run.  "discover" and "request": the        *)
(* message has to be sent; "offer" and "ack": in the receive loop.           *)

InRequest == st \in {"offer", "request", "ack"} \/ (st = "discover" /\ retries > 0)
Unserved == UNCHANGED <<leases, granted>>

\* dhcpc_request_async
RequestAsync ==
    /\ st = "off" /\ ~joining
    /\ st' = "discover" /\ cancel' = FALSE
    /\ UNCHANGED <<retries, offer, sleep, joining, owned, aged, net>> /\ Unserved

\* Queue q at the beginning of a request.  No message lives until its xid is
\* the client's again: the age stays below XidMod.
Older(age) == IF age + 1 < XidMod THEN age + 1 ELSE age
Aged(q) == [i \in DOMAIN q |-> [q[i] EXCEPT !.age = Older(@)]]

\* The end of dhcpc_request: its variables are dead, and the offer is not
\* looked at again.
Returned == retries' = 0 /\ offer' = NoOffer /\ aged' = FALSE

\* Mutant: dhcpc_run does not look at cancel.
FailRuns ==
    /\ owned' = 0 /\ st' = "discover"
    /\ Returned /\ UNCHANGED <<sleep, cancel, joining>> /\ Unserved

\* dhcpc_request returns ERROR.  dhcpc_run calls back with NULL and, unless
\* cancelled, begins again at once.
Fail ==
    /\ owned' = 0 /\ st' = IF cancel THEN "off" ELSE "discover"
    /\ Returned /\ UNCHANGED <<sleep, cancel, joining>> /\ Unserved

\* The receive loop has a reply to this request at hand.
Received(type) == down # << >> /\ Head(down).age = 0 /\ Head(down).type = type

\* The top of the first loop: cancelled, or the message is sent or fails.  The
\* first time, dhcpc_request has just been called and takes the next xid.
SendDiscover ==
    /\ st = "discover"
    /\ \/ /\ ~cancel
          /\ LET q == IF retries = 0 THEN Aged(up) ELSE up
             IN  up' \in Push(q, ToServer("discover", NoServer, 0, 0))
          /\ down' = IF retries = 0 THEN Aged(down) ELSE down
          /\ st' = "offer" /\ retries' = retries + 1
          /\ UNCHANGED <<offer, sleep, cancel, joining, owned, aged>> /\ Unserved
       \/ Fail /\ UNCHANGED net

\* Mutant: the second loop does not count from zero.
RecvOfferCounted ==
    /\ st = "offer" /\ Received("offer")
    /\ down' = Tail(down)
    /\ offer' = [server |-> Head(down).server, ip |-> Head(down).ip]
    /\ st' = "request"
    /\ UNCHANGED <<retries, sleep, cancel, joining, owned, aged, up>> /\ Unserved

\* The first offer is taken, from whichever server.
RecvOffer ==
    /\ st = "offer" /\ Received("offer")
    /\ down' = Tail(down)
    /\ offer' = [server |-> Head(down).server, ip |-> Head(down).ip]
    /\ st' = "request" /\ retries' = 0
    /\ UNCHANGED <<sleep, cancel, joining, owned, aged, up>> /\ Unserved

\* The top of the second loop.
SendRequest ==
    /\ st = "request"
    /\ \/ /\ ~cancel /\ up' \in Push(up, ToServer("request", offer.server, offer.ip, 0))
          /\ st' = "ack" /\ retries' = retries + 1
          /\ UNCHANGED <<offer, sleep, cancel, joining, owned, aged, down>> /\ Unserved
       \/ Fail /\ UNCHANGED net

\* An ACK, from any server: dhcpc_request returns OK, the application is called
\* back and dhcpc_run goes to sleep.
RecvAck ==
    /\ st = "ack" /\ Received("ack")
    /\ down' = Tail(down)
    /\ owned' = IF cancel \/ Head(down).server # Me THEN 0 ELSE Head(down).ip
    /\ st' = IF cancel THEN "off" ELSE "nap"
    /\ Returned /\ UNCHANGED <<sleep, cancel, joining, up>> /\ Unserved

\* A NAK, from any server.
RecvNak ==
    /\ st = "ack" /\ Received("nak")
    /\ down' = Tail(down)
    /\ Fail /\ UNCHANGED up

\* An offer of another server than the one chosen is declined.
RecvSecondOffer ==
    /\ st = "ack" /\ Received("offer")
    /\ Head(down).server # offer.server
    /\ down' = Tail(down)
    /\ up' \in IF Head(down).server = Me
               THEN Push(up, ToServer("decline", Me, 0, Head(down).ip)) ELSE {up}
    /\ UNCHANGED client /\ Unserved

\* Anything else is ignored.
RecvIgnored ==
    /\ st \in {"offer", "ack"} /\ down # << >>
    /\ \/ Head(down).age # 0
       \/ st = "offer" /\ Head(down).type # "offer"
       \/ st = "ack" /\ Head(down).type = "offer" /\ Head(down).server = offer.server
    /\ down' = Tail(down)
    /\ UNCHANGED <<client, up>> /\ Unserved

\* The time of a receive loop is over.
RecvTimeout ==
    /\ st \in {"offer", "ack"}
    /\ IF retries < RETRIES
       THEN /\ st' = IF st = "offer" THEN "discover" ELSE "request"
            /\ UNCHANGED <<retries, offer, sleep, cancel, joining, owned, aged>> /\ Unserved
       ELSE Fail
    /\ UNCHANGED net

\* recv fails with another error than a timeout.
RecvError ==
    /\ st \in {"offer", "ack"} /\ Fail /\ UNCHANGED net

\* Half of the lease time; cancel was looked at before.
FallAsleep ==
    /\ st = "nap" /\ st' = "sleep" /\ sleep' = LEASETIME \div 2
    /\ UNCHANGED <<retries, offer, cancel, joining, owned, aged, net>> /\ Unserved

\* The sleep is over.
WakeUp ==
    /\ st = "sleep" /\ sleep = 0
    /\ st' = IF cancel THEN "off" ELSE "discover"
    /\ UNCHANGED <<retries, offer, sleep, cancel, joining, owned, aged, net>> /\ Unserved

\* dhcpc_cancel: the signal ends a sleep, and is lost on a thread about to sleep.
Cancel ==
    /\ st # "off" /\ ~joining
    /\ cancel' = TRUE /\ joining' = TRUE /\ owned' = 0
    /\ st' = (IF st = "sleep" THEN "off" ELSE st) /\ sleep' = 0
    /\ UNCHANGED <<retries, offer, aged, net>> /\ Unserved

\* pthread_join in dhcpc_cancel.
Join ==
    /\ joining /\ st = "off" /\ joining' = FALSE
    /\ UNCHANGED <<st, retries, offer, sleep, cancel, owned, aged, net>> /\ Unserved

-----------------------------------------------------------------------------
(* The daemon.                                                               *)

\* The server takes the head of its queue.
Serve ==
    LET m == Head(up) IN
    /\ up # << >> /\ up' \in Pop(up)
    /\ \/ \E ip \in Addrs :
            Discover(m, ip) /\ down' \in Push(down, Reply("offer", m.age, Me, ip))
       \/ DiscoverFails(m) /\ UNCHANGED down
       \/ \E ip \in Addrs :
            Acknowledge(m, ip, TRUE) /\ down' \in Push(down, Reply("ack", m.age, Me, ip))
       \/ \E ip \in Addrs : Acknowledge(m, ip, FALSE) /\ UNCHANGED down
       \/ Refuse(m) /\ down' \in Push(down, Reply("nak", m.age, Me, 0))
       \/ KeepSilent(m) /\ UNCHANGED down
       \/ Decline(m) /\ UNCHANGED down
    /\ UNCHANGED client

\* A message of another client.
ServeOther(m) == Handle(m) /\ UNCHANGED <<client, net>>

\* The daemon ends and is started again: its socket and its table are lost.  Its
\* replies have arrived by then; one that is lost was never sent in this model.
Restart ==
    /\ \A i \in DOMAIN down : down[i].server # Me
    /\ Reset /\ owned' = 0 /\ up' = << >>
    /\ UNCHANGED <<st, retries, offer, sleep, cancel, joining, aged, down>>

-----------------------------------------------------------------------------
(* The second server, and time.                                              *)

OtherOffer ==
    /\ st \in {"offer", "request", "ack"} /\ down' \in Push(down, Reply("offer", 0, Other, OtherIp))
    /\ UNCHANGED <<client, up>> /\ Unserved
OtherAck ==
    /\ st = "ack" /\ offer.server = Other
    /\ down' \in Push(down, Reply("ack", 0, Other, OtherIp))
    /\ UNCHANGED <<client, up>> /\ Unserved

Tick ==
    /\ st = "off" \/ (st = "sleep" /\ sleep > 0) \/ (InRequest /\ ~aged)
    /\ Elapse
    /\ sleep' = Max2(sleep - 1, 0) /\ aged' = InRequest
    /\ UNCHANGED <<st, retries, offer, cancel, joining, owned, net>>

ClientStep ==
    \/ SendDiscover \/ RecvOffer \/ SendRequest \/ RecvAck \/ RecvNak
    \/ RecvSecondOffer \/ RecvIgnored \/ RecvTimeout \/ RecvError \/ FallAsleep \/ WakeUp \/ Join

Next ==
    \/ ClientStep \/ RequestAsync \/ Cancel
    \/ Serve \/ (\E m \in OtherMessages : ServeOther(m)) \/ Restart
    \/ OtherOffer \/ OtherAck \/ Tick

Spec == Init /\ [][Next]_vars

\* recv has a timeout, the thread is scheduled, and time passes.
FairSpec == Spec /\ WF_vars(ClientStep) /\ WF_vars(RecvTimeout) /\ WF_vars(Tick)

-----------------------------------------------------------------------------
(* Properties                                                                *)

TypeOK ==
    /\ DhcpdTypeOK
    /\ st \in {"off", "discover", "offer", "request", "ack", "nap", "sleep"}
    /\ retries \in 0 .. RETRIES
    /\ offer \in [server : Servers \cup {NoServer}, ip : Addrs \cup {0, OtherIp}]
    /\ owned \in Addrs \cup {0}
    /\ sleep \in 0 .. LEASETIME \div 2 /\ {cancel, joining, aged} \subseteq BOOLEAN
    /\ Len(up) <= QueueMax /\ Len(down) <= QueueMax

\* The address dhcpc has last reported to its application is in nobody else's
\* hands for the server, from one callback to the next: while the client
\* sleeps, and while it renews the lease, although the DHCPDISCOVER of the
\* renewal cuts the lease down and its replies may be lost, come from another
\* server or be refused.  It takes the times of DhcpAssumption: a lease has to
\* outlast half of itself and a request, and an offer has to outlast a request.
LeaseKept ==
    owned \in Addrs => leases[owned].left > 0 /\ leases[owned].mac \in {C, NoMac}

\* dhcpc_cancel returns, whatever the thread was doing: its loops are bounded by
\* retries and timeouts, and a signal that comes too early for sleep only
\* delays the end.
CancelReturns == joining ~> ~joining
=============================================================================
