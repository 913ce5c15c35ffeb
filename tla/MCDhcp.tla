------------------------------- MODULE MCDhcp -------------------------------
(* Instance of Dhcp for TLC: one client that runs dhcpc and one that sends   *)
(* anything, for two addresses and one between them that is skipped.         *)
EXTENDS Dhcp

CONSTANT D      \* the client that is not dhcpc

From(type, server, req, ci, time) ==
    [type |-> type, mac |-> D, server |-> server, req |-> req, ci |-> ci, time |-> time]

MCMessages ==
    {From("discover", NoServer, ip, 0, 0) : ip \in {0, EndIp}}
    \cup {From("request", Me, EndIp, 0, 1), From("request", NoServer, StartIp, 0, 1),
          From("request", NoServer, 0, EndIp, 1)}
    \cup {From(t, NoServer, 0, 0, 0) : t \in {"decline", "release", "inform"}}
=============================================================================
