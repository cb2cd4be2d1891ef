------------------------------- MODULE MCTun -------------------------------
(***************************************************************************)
(* Small instances of the node between TUN and network.                    *)
(***************************************************************************)
EXTENDS Adapter

Off == [subnets |-> <<>>, peers |-> {}, self |-> "me", ygg |-> {}, ip |-> 6, enable |-> FALSE, routing |-> TRUE]
On(subnets, ygg) == [Off EXCEPT !.subnets = subnets, !.ygg = ygg, !.enable = TRUE, !.ip = IF ygg = {} THEN 4 ELSE 6]
NoRules == [enable |-> FALSE, all |-> {}, echo |-> FALSE, tcp |-> {}, udp |-> {}]
Rules == [enable |-> TRUE, all |-> {}, echo |-> FALSE, tcp |-> {1}, udp |-> {}]
Quiet == [calls |-> 0, asked |-> 0, time |-> 0]
NoChance == [boots |-> 0, harm |-> 0, changes |-> 0, hurt |-> FALSE]
Calm == [chance |-> NoChance, config |-> Off, rules |-> NoRules, sends |-> {}, arrivals |-> {}, known |-> {}, load |-> Quiet,
         left |-> [writes |-> 0, reads |-> 0, notices |-> 0, failures |-> 0]]

Packet(proto, near, far, port, flags) ==
    [ip |-> 6, big |-> FALSE, proto |-> proto, near |-> near, far |-> far, port |-> port, flags |-> flags]
From(k, pkts) == {[from |-> k, pkt |-> p] : p \in pkts}

\* The key store: packets to the address and the subnet of a node, whose key
\* is learned from an answer, from traffic or by itself, and ages.
To(far) == Packet("udp", "addr", far, 1, "none")
Storing == [Calm EXCEPT !.sends = {To(<<"addr", "a">>), To(<<"subnet", "a">>)},
                        !.arrivals = From("a", {To(<<"addr", "a">>)}),
                        !.left.writes = 2, !.left.reads = 1, !.left.notices = 2, !.left.failures = 1]

\* Connections through the firewall, to closed port 2 and open port 1.
Tcp(port) == {Packet("tcp", "addr", <<"addr", "a">>, port, f) : f \in {"syn", "synack", "ack", "fin", "rst"}}
Connecting(port, w, r) ==
    [Calm EXCEPT !.rules = Rules, !.known = {"a"}, !.sends = Tcp(port), !.arrivals = From("a", Tcp(port)),
                 !.left.writes = w, !.left.reads = r]

\* Packets without connections, or from a node that does not have their
\* address, through several rules.
Loose == {Packet("udp", "addr", <<"addr", "a">>, 2, "none"), Packet("other", "addr", <<"addr", "a">>, 0, "none"),
          Packet("icmp", "addr", <<"addr", "a">>, 1, "request"), Packet("icmp", "addr", <<"addr", "a">>, 1, "reply"),
          Packet("icmp", "addr", <<"addr", "a">>, 1, "error")}
Mixed(rules) ==
    [Calm EXCEPT !.rules = rules, !.known = {"a"}, !.sends = {p \in Loose : p.flags \notin {"reply", "error"}}, !.left.writes = 2, !.left.reads = 2,
                 !.arrivals = From("a", Loose) \cup From("b", {To(<<"addr", "a">>)})
                    \cup From("a", {Packet("udp", "else", <<"addr", "a">>, 2, "none"),
                                    [To(<<"addr", "a">>) EXCEPT !.big = TRUE]})]
Mixes == <<Mixed(Rules), Mixed([Rules EXCEPT !.echo = TRUE, !.udp = {2}]), Mixed([Rules EXCEPT !.all = {<<"addr", "a">>}])>>

\* Crypto-key routing: who is behind which address, with an overlap.
Nets(i) == <<[mark |-> "", exclude |-> FALSE, net |-> i]>>
Behind == "a" :> Nets([addr |-> 4, len |-> 1]) @@ "b" :> Nets([addr |-> 6, len |-> 2])
Routed(ip, addrs) == {[Packet("udp", "lan", <<"route", a>>, 2, "none") EXCEPT !.ip = ip] : a \in addrs}
Routes(ygg, routing) ==
    [Calm EXCEPT !.config = [On(Behind, ygg) EXCEPT !.routing = routing], !.rules = Rules,
                 !.sends = Routed(6, {5}) \cup {To(<<"addr", "a">>)},
                 !.arrivals = From("a", Routed(4, {5}) \cup Routed(6, {1, 5, 7}) \cup {To(<<"addr", "a">>)})
                    \cup From("b", Routed(4, {5, 7}) \cup Routed(6, {5})),
                 !.known = {"a", "b"}, !.left.writes = 1, !.left.reads = 1]
Routings == <<Routes({2, 3}, TRUE), Routes({2, 3}, FALSE), Routes({}, TRUE)>>

\* Configurations of crypto-key routing.
NetOf(e, i) == [mark |-> "", exclude |-> e, net |-> i]
Excluding == {[On("a" :> <<NetOf(FALSE, i), NetOf(TRUE, e), NetOf(TRUE, f)>>, y) EXCEPT !.peers = {}] :
                i \in {n \in Net : n.len < 2}, e \in Net, f \in Net, y \in {{}, {2, 3}}}
Sharing == {[On("a" :> <<NetOf(FALSE, i)>> @@ "b" :> <<NetOf(FALSE, j)>>, {}) EXCEPT !.peers = p, !.self = s] :
                i \in Net, j \in Net, p \in {{}, {1}, {6}}, s \in {"me", "a"}}
Marking == {On("a" :> <<[NetOf(FALSE, i) EXCEPT !.mark = m], [NetOf(TRUE, e) EXCEPT !.mark = n]>>, {}) :
                i \in {j \in Net : j.len < 3}, e \in Net, m \in {"", "~", "_"}, n \in {"", "~", "_"}}
Tables == {<<"tables", c>> : c \in Excluding \cup Sharing \cup Marking}

\* Remote questions.
Questions == [Calm EXCEPT !.load = [calls |-> 2, asked |-> 1, time |-> 4]]

\* Starts of the node, with lists that are marked anew, replaced, moved or given up.
List(mark, url) == [mark |-> mark, url |-> url]
Listed(lists) == [enable |-> TRUE, install |-> TRUE, table |-> TRUE, key |-> "other", others |-> FALSE, lists |-> lists]
MCConfigs ==
    LET two == Listed(<<List("", "u"), List("~", "v")>>)
    IN  {two, Listed(<<List("~", "u"), List("_", "u")>>), Listed(<<List("", "v")>>),
         [two EXCEPT !.key = "own", !.others = TRUE], [two EXCEPT !.key = "absent", !.others = TRUE],
         [two EXCEPT !.key = "absent", !.table = FALSE, !.install = FALSE], [two EXCEPT !.enable = FALSE]}
Restarts == [Calm EXCEPT !.chance = [boots |-> 3, harm |-> 1, changes |-> 1, hurt |-> FALSE]]
MCChance == {Restarts.chance, NoChance}

Scenarios == <<Restarts, Storing, Connecting(2, 3, 3), Connecting(1, 2, 3), Questions>> \o Mixes \o Routings
MCIds == {<<"scenario", i>> : i \in DOMAIN Scenarios} \cup Tables
MCSetting(i) == IF i[1] = "tables" THEN [Calm EXCEPT !.config = i[2]] ELSE Scenarios[i[2]]
MCLoad == {Questions.load, Quiet}

Init ==
    /\ AdapterInit
    /\ may = at.load /\ chance = at.chance
    /\ config = Listed(<<List("", "v")>>)
    /\ chance.boots = 0 => server = [u \in Url |-> "x"]

Symmetry == Permutations(Call)
Spec == Init /\ [][Next]_adapterVars
=============================================================================
