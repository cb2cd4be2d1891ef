------------------------------ MODULE Firewall ------------------------------
(***************************************************************************)
(* The stateful firewall of the TUN (firewall.rs): what a packet does to   *)
(* the table of flows, and whether an inbound one is let in.               *)
(*                                                                         *)
(* A packet has the address and port near to this node and those far from  *)
(* it, whichever way it goes; protocol "other" is all that parse() does    *)
(* not read: fragments, unknown headers, packets that are cut off.  An     *)
(* entry's age is the time since its last_seen.                            *)
(***************************************************************************)
EXTENDS Integers, FiniteSetsExt, Functions, Maps

CONSTANTS Syn, Established, Close,   \* TCP_SYN_TIMEOUT, TCP_ESTABLISHED_TIMEOUT, TCP_CLOSE_TIMEOUT
          Udp, Icmp,                 \* UDP_TIMEOUT, ICMP_TIMEOUT
          GcInterval                 \* GC_INTERVAL

\* advance_tcp().
AdvanceTcp(prev, flags) ==
    CASE flags = "rst" -> "closed"
      [] flags = "fin" -> "fin"
      [] flags \notin {"rst", "fin"} /\ prev \in {"closed", "fin", "established"} -> prev
      [] flags \in {"ack", "synack"} /\ prev = "syn" -> "established"
      [] flags = "syn" /\ prev = "syn" -> "syn"

\* FlowEntry::timeout().
Timeout(key, entry) ==
    CASE key.proto = "udp" -> Udp
      [] key.proto = "icmp" -> Icmp
      [] entry.state = "syn" -> Syn
      [] entry.state = "established" -> Established
      [] entry.state \in {"fin", "closed"} -> Close

\* The flow of a packet; an ICMP error has no identifier.
FlowKey(p) == [proto |-> p.proto, near |-> p.near, far |-> p.far,
               port |-> IF p.flags = "error" THEN 0 ELSE p.port]
Parsed(p) == p.proto # "other"

\* The entry that a packet finds or makes, after it.
Seen(table, p) ==
    LET key == FlowKey(p)
        state == IF key \in DOMAIN table THEN table[key].state ELSE "syn"
    IN  Put(table, key, [age |-> 0, state |-> IF p.proto = "tcp" THEN AdvanceTcp(state, p.flags) ELSE "none"])

\* observe_outbound().
\* Mutant: an entry that is there keeps its last_seen.
ObserveOutboundOnce(table, p) ==
    IF ~Parsed(p) THEN table
    ELSE LET key == FlowKey(p) IN
         IF key \in DOMAIN table
         THEN [table EXCEPT ![key].state = Seen(table, p)[key].state]
         ELSE Seen(table, p)

ObserveOutbound(table, p) == IF Parsed(p) THEN Seen(table, p) ELSE table

\* check_inbound(): packets that need no flow, and packets that may start one.
Bypasses(rules, p) ==
    \/ p.far \in rules.all
    \/ p.proto = "icmp" /\ (p.flags = "error" \/ (p.flags = "request" /\ rules.echo))

\* Mutant: any packet to an open port starts a flow.
StartsAny(rules, p) ==
    (p.proto = "tcp" /\ p.port \in rules.tcp) \/ (p.proto = "udp" /\ p.port \in rules.udp)

Starts(rules, p) ==
    \/ p.proto = "tcp" /\ p.flags = "syn" /\ p.port \in rules.tcp
    \/ p.proto = "udp" /\ p.port \in rules.udp

Judge(rules, table, p) ==
    CASE ~Parsed(p) -> "drop"
      [] Parsed(p) /\ Bypasses(rules, p) -> "pass"
      [] Parsed(p) /\ ~Bypasses(rules, p) ->
           IF FlowKey(p) \in DOMAIN table THEN "known" ELSE IF Starts(rules, p) THEN "start" ELSE "drop"

\* The new flow replaces one that was observed since the table was looked at.
Started(table, p) ==
    Put(table, FlowKey(p), [age |-> 0, state |-> IF p.proto = "tcp" THEN "syn" ELSE "none"])

\* gc().
Gc(table) == Restrict(table, {key \in DOMAIN table : table[key].age < Timeout(key, table[key])})

\* Time passes.
Longest == Max({Syn, Established, Close, Udp, Icmp}) + GcInterval
Aged(table) == [key \in DOMAIN table |-> [table[key] EXCEPT !.age = Min({@ + 1, Longest})]]
=============================================================================
