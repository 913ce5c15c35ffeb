------------------------------ MODULE MCModbus ------------------------------
(* The slave of Modbus.tla with small frames.                                *)
EXTENDS Modbus

\* The shortest request, the longest broadcast, which becomes too long by noise,
\* and a frame for another slave.
MCFrameKinds ==
    {[to |-> Own, fn |-> 2, size |-> 1],
     [to |-> Broadcast, fn |-> 3, size |-> 2],
     [to |-> Other, fn |-> 1, size |-> 1]}

\* Two functions are built in; another one may be added, the first one removed.
MCBuiltIn == <<[code |-> 1, h |-> "a"], [code |-> 2, h |-> "b"]>>
MCRegistrations == {<<3, "c">>, <<1, None>>}
=============================================================================
