---------------------------- MODULE MCPeerLink ----------------------------
(***************************************************************************)
(* Timeouts for PeerLink, in ticks.  The fixed interval is to the idle     *)
(* keepalive as in the defaults: Probes intervals end before it (15 s,     *)
(* three of them, 60 s).                                                   *)
(***************************************************************************)
EXTENDS PeerLink

Fixed == [adaptive |-> FALSE, fixed |-> 1, min |-> 1, problem |-> 1, max |-> 2,
          base |-> 1, mult |-> 1, step |-> 1, decay |-> 1]
Adaptive == [Fixed EXCEPT !.adaptive = TRUE, !.problem = 2]
BothCfg == {Fixed, Adaptive}

\* A link with a fault; one with traffic and without faults; two connections, one after
\* the other.
OneFault == [frames |-> 1, packets |-> 0, inbound |-> 1, faults |-> 1, conns |-> 1]
NoFault == [frames |-> 0, packets |-> 2, inbound |-> 1, faults |-> 0, conns |-> 1]
Again == [frames |-> 0, packets |-> 0, inbound |-> 0, faults |-> 2, conns |-> 2]
Settings == {OneFault, NoFault, Again}
=============================================================================
