-------------------------------- MODULE Ckr --------------------------------
(***************************************************************************)
(* Crypto-key routing (ckr.rs): the configuration lists, for keys of other *)
(* nodes, the networks behind them and the networks to leave out.  From    *)
(* these come the table that maps an address to a key, by longest prefix,  *)
(* and the routes of the system that lead into the TUN.                    *)
(*                                                                         *)
(* Addresses of one family are Bits wide; the families do not meet.        *)
(***************************************************************************)
EXTENDS Integers, SequencesExt, FiniteSetsExt, TLC

CONSTANTS Bits,   \* the width of an address
          None    \* a value for no key

Addr == 0 .. 2^Bits - 1

\* Networks, as prefixes.
Size(net) == 2^(Bits - net.len)
Net == {n \in [addr : Addr, len : 0..Bits] : n.addr % Size(n) = 0}
NetBounds(net) == <<net.addr, net.addr + Size(net) - 1>>
MaskAddr(a, len) == [addr |-> a - (a % 2^(Bits - len)), len |-> len]
Covers(net, a) == MaskAddr(a, net.len) = net

(***************************************************************************)
(* expand_cidrs().  An entry has a mark ("~" keeps it from the system's    *)
(* routes, "_" from the table), says whether it excludes, and has a        *)
(* network; entries of files and of downloaded lists are entries too.      *)
(***************************************************************************)
Entry == [mark : {"", "~", "_"}, exclude : BOOLEAN, net : Net]

Before(r, s) == r[1] < s[1] \/ (r[1] = s[1] /\ r[2] < s[2])

\* Mutant: a range that lies within the one before it ends it.
MergeExcludesShort(nets) ==
    FoldLeft(LAMBDA merged, r :
                 IF merged # <<>> /\ r[1] <= Last(merged)[2] + 1
                 THEN Append(Front(merged), <<Last(merged)[1], r[2]>>)
                 ELSE Append(merged, r),
             <<>>, SetToSortSeq({NetBounds(n) : n \in nets}, Before))

MergeExcludes(nets) ==
    FoldLeft(LAMBDA merged, r :
                 IF merged # <<>> /\ r[1] <= Last(merged)[2] + 1
                 THEN Append(Front(merged), <<Last(merged)[1], Max({Last(merged)[2], r[2]})>>)
                 ELSE Append(merged, r),
             <<>>, SetToSortSeq({NetBounds(n) : n \in nets}, Before))

\* The largest aligned block that starts at lo and fits, then the rest.
EmitRange(lo, hi) ==
    LET size(cur) == Max({k \in 0..Bits : cur % 2^k = 0 /\ cur + 2^k - 1 <= hi})
        emit[cur \in lo .. hi + 1] ==
            IF cur > hi THEN <<>>
            ELSE <<[addr |-> cur, len |-> Bits - size(cur)]>> \o emit[cur + 2^size(cur)]
    IN  emit[lo]

SubtractMany(include, excludes) ==
    LET lo == NetBounds(include)[1]
        hi == NetBounds(include)[2]
        gap(s, r) ==
            IF s.over \/ r[1] > hi THEN s
            ELSE [cur |-> r[2] + 1, over |-> r[2] >= hi,
                  out |-> IF r[1] > s.cur THEN s.out \o EmitRange(s.cur, r[1] - 1) ELSE s.out]
        walked == FoldLeft(gap, [cur |-> lo, over |-> FALSE, out |-> <<>>],
                           SelectSeq(excludes, LAMBDA r : r[2] >= lo))
    IN  IF walked.over THEN walked.out ELSE walked.out \o EmitRange(walked.cur, hi)

ExpandCidrs(entries) ==
    LET excludes == MergeExcludes({e.net : e \in {f \in ToSet(entries) : f.exclude}})
        includes == SelectSeq(entries, LAMBDA e : ~e.exclude)
    IN  FlattenSeq([i \in 1..Len(includes) |-> SubtractMany(includes[i].net, excludes)])

(***************************************************************************)
(* A configuration: whose networks are whose (remote_subnets), and the     *)
(* addresses of the peers, which are left out of everyone's.               *)
(***************************************************************************)
Effective(config, k) ==
    config.subnets[k] \o
    SetToSeq({[mark |-> "", exclude |-> TRUE, net |-> [addr |-> a, len |-> Bits]] : a \in config.peers})

Expanded(config, k, unmarked) ==
    ExpandCidrs(SelectSeq(Effective(config, k), LAMBDA e : e.mark # unmarked))

\* CryptoKey::new().  The keys come in the order in which the map happens to
\* have them; a prefix that is there already gets the new key.
Rejected(config) ==
    \E k \in DOMAIN config.subnets \ {config.self} :
        \E n \in ToSet(Expanded(config, k, "_")) : n.addr \in config.ygg
CryptoKey(config, order) ==
    FoldLeft(LAMBDA table, k :
                 IF k = config.self THEN table
                 ELSE [n \in ToSet(Expanded(config, k, "_")) |-> k] @@ table,
             <<>>, order)

\* get_public_key_for_address().
Get(table, config, a) ==
    LET lens == {l \in 0..Bits : MaskAddr(a, l) \in DOMAIN table}
    IN  IF a \in config.ygg \/ lens = {} THEN None ELSE table[MaskAddr(a, Max(lens))]

\* install_routes() and remove_routes(): the networks whose routes lead into the TUN.
SystemRoutes(config) ==
    UNION {ToSet(Expanded(config, k, "~")) : k \in DOMAIN config.subnets \ {config.self}}

(***************************************************************************)
(* What the entries of a key say, without the arithmetic: the addresses    *)
(* left out, and the blocks that remain of an included network, which are  *)
(* the largest that have none of these in them.                            *)
(***************************************************************************)
LeftOut(config, k, unmarked) ==
    config.peers \cup
    {a \in Addr : \E e \in ToSet(config.subnets[k]) : e.exclude /\ e.mark # unmarked /\ Covers(e.net, a)}
Block(config, k, unmarked) ==
    LET out == LeftOut(config, k, unmarked)
        clear(n) == \A a \in n.addr .. n.addr + Size(n) - 1 : a \notin out
        within(i) == {n \in Net : n.len >= i.len /\ MaskAddr(n.addr, i.len) = i /\ clear(n)}
    IN  UNION {{n \in within(e.net) : n.len = e.net.len \/ MaskAddr(n.addr, n.len - 1) \notin within(e.net)} :
               e \in {f \in ToSet(config.subnets[k]) : ~f.exclude /\ f.mark # unmarked}}

\* The keys that may have the longest block that an address is in.
Owners(config, a) ==
    LET around(k) == {[key |-> k, net |-> n] : n \in {b \in Block(config, k, "_") : Covers(b, a)}}
        mine == UNION {around(k) : k \in DOMAIN config.subnets \ {config.self}}
    IN  IF a \in config.ygg THEN {} ELSE {b.key : b \in {c \in mine : \A d \in mine : d.net.len <= c.net.len}}
=============================================================================
