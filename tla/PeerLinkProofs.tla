--------------------------- MODULE PeerLinkProofs ---------------------------
(***************************************************************************)
(* For any configuration that validate() accepts, any number of probes and *)
(* any size of the channel: the reader keeps its place in the stream, no   *)
(* traffic and no answer is forgotten, and a peer is given up only after   *)
(* the silence that this takes, on a link that works only if the deadline  *)
(* was armed after the answer.                                             *)
(***************************************************************************)
EXTENDS PeerLink, TLAPS

Frames == {"frame", "keepalive"}
Msgs == Frames \cup {"schedule"}
Octets == {"more", "last", "short", "long"}
Places == {"length", "partial", "short", "long"}
Fields == {"chan", "spill", "queue", "notify", "writer", "buffer", "owed", "idle", "reader", "deadline",
           "epoch", "wake", "probes", "result", "cancel", "durable"}
Notes == {"quiet", "owes", "heard", "early", "calm", "burnt"}

\* The durable state and the state of the tasks.
Lasting(d) ==
    /\ DOMAIN d = {"floor", "ewma", "penalty"}
    /\ d.floor \in Int /\ d.ewma \in Int /\ d.penalty \in Int
Typed(s) ==
    /\ DOMAIN s = Fields
    /\ s.chan \in Seq(Msgs)
    /\ s.queue \in Nat
    /\ s.writer \in {"select", "arm", "drain", "armTraffic", "answer", "ended"}
    /\ s.reader \in Places \cup {"ended"}
    /\ s.deadline \in Int
    /\ DOMAIN s.epoch = {"age", "timeout"} /\ s.epoch.age \in Int
    /\ s.probes \in Nat
    /\ Lasting(s.durable)
TypeOK ==
    /\ Typed(me)
    /\ cfg \in Cfg
    /\ wire \in Seq(Octets)
    /\ DOMAIN peer = {"wants", "owes"}
    /\ DOMAIN ghost = Notes /\ ghost.quiet \in Nat

(***************************************************************************)
(* What the proofs rest on.                                                *)
(***************************************************************************)
\* A frame is read in steps, and a stream of frames from one boundary to another.
Moves ==
    {<<"length", "more", "partial">>, <<"length", "last", "short">>, <<"partial", "last", "long">>,
     <<"short", "short", "length">>, <<"long", "long", "length">>}
Reads(from, w) ==
    \E at \in [1 .. Len(w) + 1 -> Places] :
        /\ at[1] = from /\ at[Len(w) + 1] = "length"
        /\ \A i \in 1 .. Len(w) : <<at[i], w[i], at[i + 1]>> \in Moves

\* The reader is where the bytes in flight begin.
InStep == Aligned /\ (me.reader # "ended" => Reads(me.reader, wire))

\* Traffic in the queue will be drained.
Drains(s) ==
    s.queue > 0 =>
        /\ s.writer # "ended"
        /\ \/ s.notify \/ s.writer \in {"arm", "drain"}
           \/ s.writer \in {"answer", "select"} /\ s.chan # <<>>
Served == Drains(me)

\* An answer that is owed will be sent.
Answers(s) ==
    /\ s.writer # "ended"
    /\ s.chan # <<>> \/ (s.owed /\ s.writer \in {"drain", "answer"})
Remembered == ghost.owes => Answers(me)

\* The intervals that are over, and that which runs, were silent.
Silent ==
    /\ me.deadline >= Off
    /\ me.deadline = Off => me.probes = 0
    /\ me.probes + 1 <= Probes
    /\ me.deadline # Off => ghost.quiet + me.deadline >= (me.probes + 1) * Current(me)
    /\ ghost.quiet <= LongestSilence
    /\ (ghost.burnt \/ me.result = "timeout") /\ cfg.adaptive => me.durable.floor >= cfg.problem

\* The peer will answer, or its answer is on the way.
Coming == peer.owes \/ \E i \in DOMAIN wire : wire[i] = "last"

\* On a link that works the answer to a frame comes before time passes.
Healthy ==
    ghost.calm =>
        /\ net = "up"
        /\ me.reader # "ended" /\ me.writer \in {"arm", "armTraffic"} /\ ~ghost.heard => Coming
        /\ me.reader # "ended" /\ me.deadline # Off /\ ~ghost.early => me.deadline = Current(me) /\ Coming

\* A reader has a result when it has ended.
Finished == me.reader # "ended" => me.result = "none"

Inv == TypeOK /\ Finished /\ InStep /\ Served /\ Remembered /\ Silent /\ TimeoutEarned /\ Healthy /\ HealthyStays

(***************************************************************************)
(* Numbers.                                                                *)
(***************************************************************************)
LEMMA MaxTwo == \A a, b \in Int : Max({a, b}) = IF a >= b THEN a ELSE b
  BY DEF Max

\* The smaller of two numbers.
LEMMA MinTwo == \A a, b \in Int : Min({a, b}) = IF a <= b THEN a ELSE b
  BY DEF Min

\* clamp() stays between its bounds, and keeps what was above a number that both its argument and the
\* upper bound reach.
LEMMA Clamped ==
    ASSUME NEW x \in Int, NEW lo \in Int, NEW hi \in Int, lo <= hi
    PROVE  Clamp(x, lo, hi) \in Int /\ lo <= Clamp(x, lo, hi) /\ Clamp(x, lo, hi) <= hi
           /\ \A z \in Int : z <= x /\ z <= hi => z <= Clamp(x, lo, hi)
  <1> DEFINE m == Max({x, lo})
  <1>1. m \in Int /\ m >= x /\ m >= lo
    BY MaxTwo
  <1> HIDE DEF m
  <1>2. Clamp(x, lo, hi) = IF m <= hi THEN m ELSE hi
    BY <1>1, MinTwo DEF Clamp, m
  <1> QED
    BY <1>1, <1>2

\* Products grow with their factors.
LEMMA Times == \A a, b, c \in Nat : a <= b => a * c <= b * c /\ c * a <= c * b
  OBVIOUS

\* A configuration that validate() has accepted.
LEMMA Valid ==
    ASSUME cfg \in Cfg
    PROVE  /\ cfg.fixed \in Nat /\ cfg.min \in Nat /\ cfg.problem \in Nat /\ cfg.max \in Nat
           /\ cfg.base \in Nat /\ cfg.mult \in Nat /\ cfg.step \in Nat /\ cfg.decay \in Nat
           /\ cfg.adaptive \in BOOLEAN
           /\ 0 < cfg.min /\ cfg.min <= cfg.max
           /\ cfg.adaptive => cfg.min <= cfg.problem /\ cfg.problem <= cfg.max
           /\ ~cfg.adaptive => 0 < cfg.fixed
  BY CfgAssumption DEF Validate

\* An interval is no shorter than the least that is configured, nor than the sticky
\* floor of a peer that has timed out, and no longer than the longest.
LEMMA Interval ==
    ASSUME cfg \in Cfg, NEW d, Lasting(d)
    PROVE  /\ Compute(cfg, d) \in Nat \ {0}
           /\ ~cfg.adaptive => Compute(cfg, d) = cfg.fixed
           /\ cfg.adaptive => cfg.min <= Compute(cfg, d) /\ Compute(cfg, d) <= cfg.max
           /\ cfg.adaptive /\ cfg.problem <= d.floor => cfg.problem <= Compute(cfg, d)
  <1> DEFINE floor == Clamp(d.floor, cfg.min, cfg.max)
             rtt == IF d.ewma = 0 THEN floor ELSE cfg.base + cfg.mult * d.ewma
             sum == rtt + d.penalty
  <1>1. CASE ~cfg.adaptive
    BY <1>1, Valid DEF Compute
  <1>2. CASE cfg.adaptive
    <2>1. /\ cfg.min \in Int /\ cfg.max \in Int /\ cfg.min <= cfg.max /\ 0 < cfg.min
          /\ cfg.problem \in Int /\ cfg.problem <= cfg.max
      BY <1>2, Valid
    <2>2. /\ floor \in Int /\ cfg.min <= floor /\ floor <= cfg.max
          /\ cfg.problem <= d.floor => cfg.problem <= floor
      BY Zenon, <2>1, Clamped DEF Lasting
    <2> HIDE DEF floor
    <2>3. sum \in Int
      BY <2>2, Valid DEF Lasting
    <2> HIDE DEF sum
    <2>4. Clamp(sum, floor, cfg.max) \in Int /\ floor <= Clamp(sum, floor, cfg.max) /\ Clamp(sum, floor, cfg.max) <= cfg.max
      BY Zenon, <2>1, <2>2, <2>3, Clamped
    <2>5. Compute(cfg, d) = Clamp(sum, floor, cfg.max)
      BY <1>2 DEF Compute, sum, floor
    <2> QED
      BY <1>2, <2>1, <2>2, <2>4, <2>5
  <1> QED
    BY <1>1, <1>2

\* No interval times the number of probes exceeds what is counted of a silence.
LEMMA Longest ==
    ASSUME cfg \in Cfg, NEW d, Lasting(d), NEW n \in Nat, n <= Probes
    PROVE  LongestSilence \in Nat /\ n * Compute(cfg, d) <= LongestSilence
  <1> DEFINE m == Max({cfg.max, cfg.fixed})
             i == Compute(cfg, d)
  <1>1. m \in Nat /\ i \in Nat /\ i <= m
    BY Valid, MaxTwo, Interval
  <1>2. LongestSilence = Probes * m /\ Probes \in Nat
    BY LinkAssumption DEF LongestSilence
  <1> HIDE DEF m, i
  <1>3. n * i <= n * m /\ n * m <= Probes * m
    BY <1>1, <1>2, Times
  <1>4. n * i \in Nat /\ n * m \in Nat /\ Probes * m \in Nat
    BY <1>1, <1>2
  <1>5. n * i <= LongestSilence /\ LongestSilence \in Nat
    BY <1>2, <1>3, <1>4
  <1> QED
    BY <1>5 DEF i

(***************************************************************************)
(* The operations on the state of the tasks.                               *)
(***************************************************************************)
LEMMA TimedOut ==
    ASSUME cfg \in Cfg, NEW d, Lasting(d)
    PROVE  Lasting(OnTimeout(cfg, d)) /\ (cfg.adaptive => OnTimeout(cfg, d).floor >= cfg.problem)
  <1> DEFINE f == Max({d.floor, cfg.problem})
             p == Min({d.penalty + cfg.step, cfg.max})
  <1>1. f \in Int /\ p \in Int /\ f >= cfg.problem
    BY Valid, MaxTwo, MinTwo DEF Lasting
  <1>2. OnTimeout(cfg, d) = IF cfg.adaptive THEN [d EXCEPT !.floor = f, !.penalty = p] ELSE d
    BY DEF OnTimeout
  <1> HIDE DEF f, p
  <1> QED
    BY <1>1, <1>2 DEF Lasting

\* A sample of the round trip leaves the sticky floor alone.
LEMMA Observed ==
    ASSUME cfg \in Cfg, NEW d, Lasting(d), NEW sample \in Int
    PROVE  Lasting(ObserveSample(cfg, d, sample)) /\ ObserveSample(cfg, d, sample).floor = d.floor
  <1> DEFINE s == Min({sample, cfg.max})
             e == IF d.ewma = 0 THEN s ELSE (d.ewma * 7 + s) \div 8
             p == Max({d.penalty - cfg.decay, 0})
  <1>1. s \in Int /\ p \in Int
    BY Valid, MaxTwo, MinTwo DEF Lasting
  <1>2. e \in Int
    <2> HIDE DEF s
    <2> QED
      BY <1>1 DEF Lasting
  <1>3. ObserveSample(cfg, d, sample) = IF ~cfg.adaptive \/ s = 0 THEN d ELSE [d EXCEPT !.ewma = e, !.penalty = p]
    BY DEF ObserveSample
  <1> HIDE DEF s, e, p
  <1> QED
    BY <1>1, <1>2, <1>3 DEF Lasting

Rests(s, t) ==
    t.deadline = s.deadline /\ t.probes = s.probes /\ t.result = s.result /\ t.durable = s.durable
SameReading(s, t) == t.reader = s.reader /\ Rests(s, t)
SameWriting(s, t) ==
    /\ t.queue = s.queue /\ t.notify = s.notify /\ t.writer = s.writer /\ t.owed = s.owed
    /\ s.chan # <<>> => t.chan # <<>>
Ends(t, why) == t.reader = "ended" /\ t.result = why /\ t.deadline = Off /\ t.probes = 0
TimesOut(s, t) ==
    /\ s.deadline = 0 /\ s.probes + 1 >= Probes
    /\ Ends(t, "timeout") /\ t.durable = OnTimeout(cfg, s.durable)
Probed(s, t) ==
    /\ s.deadline = 0 /\ s.probes + 1 < Probes
    /\ t.probes = s.probes + 1 /\ t.deadline = Current(s)
    /\ t.result = s.result /\ t.durable = s.durable

\* A request for a keepalive is in the channel, or the channel is full.
LEMMA Scheduled ==
    ASSUME NEW s, Typed(s)
    PROVE  /\ Typed(Schedule(s)) /\ SameReading(s, Schedule(s)) /\ SameWriting(s, Schedule(s))
           /\ s.writer # "ended" => Schedule(s).chan # <<>>
  <1>1. /\ "schedule" \in Msgs /\ Append(s.chan, "schedule") \in Seq(Msgs)
        /\ Append(s.chan, "schedule") # <<>>
        /\ Len(s.chan) \in Nat /\ (s.chan = <<>> => Len(s.chan) = 0)
    BY DEF Typed, Msgs
  <1>2. Schedule(s) = s \/ Schedule(s) = [s EXCEPT !.chan = Append(s.chan, "schedule")]
    BY DEF Schedule
  <1>3. s.writer # "ended" /\ s.chan = <<>> => Schedule(s) = [s EXCEPT !.chan = Append(s.chan, "schedule")]
    BY <1>1, LinkAssumption DEF Schedule
  <1>4. DOMAIN s = Fields
    BY DEF Typed
  <1> QED
    BY Zenon, <1>1, <1>2, <1>3, <1>4 DEF Typed, SameReading, Rests, SameWriting, Fields

\* A reader that ends leaves the state of the writer as it is.
LEMMA ReaderEnds ==
    ASSUME NEW s, Typed(s), NEW why
    PROVE  /\ Typed(EndReader(s, why)) /\ SameWriting(s, EndReader(s, why))
           /\ Ends(EndReader(s, why), why)
           /\ EndReader(s, why).durable = s.durable
  BY DEF Typed, Fields, EndReader, NoEpoch, Off, SameWriting, Ends, Lasting

\* A writer that ends leaves the state of the reader as it is, and takes the queue with it.
LEMMA WriterEnds ==
    ASSUME NEW s, Typed(s)
    PROVE  /\ Typed(EndWriter(s)) /\ SameReading(s, EndWriter(s))
           /\ EndWriter(s).writer = "ended" /\ EndWriter(s).queue = 0
  <1>1. <<>> \in Seq(Msgs)
    OBVIOUS
  <1> QED
    BY Zenon, <1>1 DEF Typed, Fields, EndWriter, SameReading, Rests

\* A look at the deadline changes nothing before it is over; then it is armed again,
\* or the reader ends.
LEMMA Looked ==
    ASSUME cfg \in Cfg, NEW s, Typed(s), s.deadline >= Off
    PROVE  /\ Typed(Look(s)) /\ SameWriting(s, Look(s))
           /\ \/ Look(s).reader = s.reader /\ Rests(s, Look(s))
              \/ TimesOut(s, Look(s))
              \/ Look(s).reader = s.reader /\ Probed(s, Look(s))
  <1> USE LinkAssumption
  <1>1. DOMAIN s = Fields /\ s.deadline \in Int /\ s.probes \in Nat /\ Lasting(s.durable)
    BY DEF Typed
  <1>2. CASE s.deadline # 0
    <2>1. CASE s.deadline = Off
      <3> DEFINE interval == IF s.epoch = NoEpoch THEN Current(s) ELSE s.epoch.timeout
      <3>1. Look(s) = [s EXCEPT !.wake = interval]
        BY <1>1, <2>1, SMT DEF Look, Off
      <3> HIDE DEF interval
      <3> QED
        BY <1>1, <3>1 DEF Typed, Fields, Rests, SameWriting
    <2>2. CASE s.deadline > 0
      <3>1. Look(s) = [s EXCEPT !.wake = s.deadline]
        BY <1>1, <2>2 DEF Look, Off
      <3> QED
        BY <1>1, <3>1 DEF Typed, Fields, Rests, SameWriting
    <2> QED
      BY <1>1, <1>2, <2>1, <2>2 DEF Off
  <1>3. CASE s.deadline = 0 /\ s.probes + 1 >= Probes
    <2> DEFINE t == [s EXCEPT !.durable = OnTimeout(cfg, s.durable)]
    <2>1. Look(s) = EndReader(t, "timeout")
      BY <1>1, <1>3 DEF Look, Off
    <2>2. Typed(t) /\ SameWriting(s, t) /\ t.durable = OnTimeout(cfg, s.durable)
      BY <1>1, TimedOut DEF Typed, Fields, SameWriting
    <2> HIDE DEF t
    <2> QED
      BY <1>3, <2>1, <2>2, ReaderEnds DEF SameWriting, TimesOut
  <1>4. CASE s.deadline = 0 /\ ~(s.probes + 1 >= Probes)
    <2> DEFINE t == [s EXCEPT !.probes = s.probes + 1, !.deadline = Current(s), !.wake = Current(s)]
    <2>1. Look(s) = Schedule(t)
      BY <1>1, <1>4 DEF Look, Off
    <2>2. Current(s) \in Nat
      BY <1>1, Interval DEF Current
    <2>3. /\ Typed(t) /\ SameWriting(s, t)
          /\ t.probes = s.probes + 1 /\ t.deadline = Current(s)
          /\ t.reader = s.reader /\ t.result = s.result /\ t.durable = s.durable
      BY <1>1, <2>2 DEF Typed, Fields, SameWriting
    <2> HIDE DEF t
    <2>4. /\ Typed(Schedule(t)) /\ SameReading(t, Schedule(t)) /\ SameWriting(t, Schedule(t))
      BY <2>3, Scheduled
    <2>5. SameWriting(s, Look(s)) /\ Typed(Look(s))
      BY <2>1, <2>3, <2>4 DEF SameWriting
    <2>6. s.probes + 1 < Probes
      BY <1>1, <1>4
    <2>7. /\ Look(s).probes = s.probes + 1 /\ Look(s).deadline = Current(s)
          /\ Look(s).reader = s.reader /\ Look(s).result = s.result
          /\ Look(s).durable = s.durable
      BY <2>1, <2>3, <2>4 DEF SameReading, Rests
    <2> QED
      BY <1>4, <2>5, <2>6, <2>7 DEF Probed
  <1> QED
    BY <1>2, <1>3, <1>4

\* A length that has been read clears the deadline and the probes.
LEMMA LengthRead ==
    ASSUME cfg \in Cfg, NEW s, Typed(s), NEW size \in Places
    PROVE  /\ Typed(GotLength(s, size)) /\ SameWriting(s, GotLength(s, size))
           /\ GotLength(s, size).reader = size /\ GotLength(s, size).result = s.result
           /\ GotLength(s, size).deadline = Off /\ GotLength(s, size).probes = 0
           /\ GotLength(s, size).durable.floor = s.durable.floor
  <1> DEFINE d == IF s.epoch = NoEpoch THEN s.durable ELSE ObserveSample(cfg, s.durable, s.epoch.age)
  <1>1. Lasting(d) /\ d.floor = s.durable.floor
    BY Zenon, Observed DEF Typed
  <1>2. GotLength(s, size) =
          [s EXCEPT !.reader = size, !.deadline = Off, !.epoch = NoEpoch, !.wake = 0, !.probes = 0, !.durable = d]
    BY DEF GotLength
  <1> HIDE DEF d
  <1> QED
    BY <1>1, <1>2 DEF Typed, Fields, SameWriting, NoEpoch, Off

(***************************************************************************)
(* The stream.                                                             *)
(***************************************************************************)
LEMMA ReadsNone == Reads("length", <<>>)
  <1> DEFINE at == [i \in 1 .. 1 |-> "length"]
  <1>1. at \in [1 .. Len(<<>>) + 1 -> Places] /\ at[1] = "length" /\ at[Len(<<>>) + 1] = "length"
    BY DEF Places
  <1>2. \A i \in 1 .. Len(<<>>) : <<at[i], <<>>[i], at[i + 1]>> \in Moves
    OBVIOUS
  <1> QED
    BY Zenon, <1>1, <1>2 DEF Reads

\* The next byte is one that the reader expects, and it is then where the rest begins.
LEMMA ReadsOn ==
    ASSUME NEW w \in Seq(Octets), w # <<>>, NEW r \in Places, Reads(r, w)
    PROVE  \E q \in Places : <<r, Head(w), q>> \in Moves /\ Reads(q, Tail(w))
  <1> DEFINE n == Len(w)
  <1>1. n \in Nat /\ n >= 1 /\ Head(w) = w[1] /\ Len(Tail(w)) = n - 1
        /\ \A i \in 1 .. n - 1 : Tail(w)[i] = w[i + 1]
    OBVIOUS
  <1>2. PICK at \in [1 .. n + 1 -> Places] :
          at[1] = r /\ at[n + 1] = "length" /\ \A i \in 1 .. n : <<at[i], w[i], at[i + 1]>> \in Moves
    BY DEF Reads
  <1> HIDE DEF n
  <1> DEFINE on == [i \in 1 .. (n - 1) + 1 |-> at[i + 1]]
  <1>3. <<r, Head(w), at[2]>> \in Moves /\ at[2] \in Places
    BY <1>1, <1>2
  <1>4. on \in [1 .. (n - 1) + 1 -> Places] /\ on[1] = at[2] /\ on[(n - 1) + 1] = "length"
    BY <1>1, <1>2
  <1>5. \A i \in 1 .. n - 1 : <<on[i], Tail(w)[i], on[i + 1]>> \in Moves
    BY <1>1, <1>2
  <1> HIDE DEF on
  <1>6. Reads(at[2], Tail(w))
    BY <1>1, <1>4, <1>5 DEF Reads
  <1> QED
    BY <1>3, <1>6

\* A frame at the end of the stream is read from a boundary to a boundary.
LEMMA ReadsFrame ==
    ASSUME NEW w \in Seq(Octets), NEW r, Reads(r, w), NEW f \in Frames
    PROVE  w \o Bytes(f) \in Seq(Octets) /\ Reads(r, w \o Bytes(f))
  <1> DEFINE n == Len(w)
  <1>1. n \in Nat
    OBVIOUS
  <1>2. PICK at \in [1 .. n + 1 -> Places] :
          at[1] = r /\ at[n + 1] = "length" /\ \A i \in 1 .. n : <<at[i], w[i], at[i + 1]>> \in Moves
    BY DEF Reads
  <1>3. CASE f = "keepalive"
    <2> DEFINE v == w \o <<"last", "short">>
               on == [i \in 1 .. (n + 2) + 1 |-> IF i <= n + 1 THEN at[i] ELSE IF i = n + 2 THEN "short" ELSE "length"]
    <2>1. v \in Seq(Octets) /\ Len(v) = n + 2 /\ v[n + 1] = "last" /\ v[n + 2] = "short"
          /\ \A i \in 1 .. n : v[i] = w[i]
      BY DEF Octets
    <2>2. w \o Bytes(f) = v
      BY <1>3 DEF Bytes
    <2> HIDE DEF v, n
    <2>3. on \in [1 .. (n + 2) + 1 -> Places] /\ on[1] = r /\ on[(n + 2) + 1] = "length"
      BY <1>1, <1>2 DEF Places
    <2>4. ASSUME NEW i \in 1 .. n + 2 PROVE <<on[i], v[i], on[i + 1]>> \in Moves
      <3>1. CASE i \in 1 .. n
        BY <1>1, <1>2, <2>1, <3>1
      <3>2. CASE i = n + 1
        BY <1>1, <1>2, <2>1, <3>2 DEF Moves
      <3>3. CASE i = n + 2
        BY <1>1, <1>2, <2>1, <3>3 DEF Moves
      <3> QED
        BY <1>1, <3>1, <3>2, <3>3
    <2> HIDE DEF on
    <2>5. Reads(r, v)
      BY <2>1, <2>3, <2>4 DEF Reads
    <2> QED
      BY <2>1, <2>2, <2>5
  <1>4. CASE f # "keepalive"
    <2> DEFINE v == w \o <<"more", "last", "long">>
               on == [i \in 1 .. (n + 3) + 1 |->
                        IF i <= n + 1 THEN at[i]
                        ELSE IF i = n + 2 THEN "partial" ELSE IF i = n + 3 THEN "long" ELSE "length"]
    <2>1. v \in Seq(Octets) /\ Len(v) = n + 3 /\ v[n + 1] = "more" /\ v[n + 2] = "last" /\ v[n + 3] = "long"
          /\ \A i \in 1 .. n : v[i] = w[i]
      BY DEF Octets
    <2>2. w \o Bytes(f) = v
      BY <1>4 DEF Bytes
    <2> HIDE DEF v, n
    <2>3. /\ \A i \in 1 .. n + 1 : on[i] = at[i]
          /\ on[n + 2] = "partial" /\ on[n + 3] = "long" /\ on[n + 4] = "length"
      BY <1>1
    <2>5. on \in [1 .. (n + 3) + 1 -> Places] /\ on[1] = r /\ on[(n + 3) + 1] = "length"
      BY <1>1, <1>2 DEF Places
    <2> HIDE DEF on
    <2>6. ASSUME NEW i \in 1 .. n + 3 PROVE <<on[i], v[i], on[i + 1]>> \in Moves
      <3>1. CASE i \in 1 .. n
        BY <1>1, <1>2, <2>1, <2>3, <3>1
      <3>2. CASE i = n + 1
        BY <1>1, <1>2, <2>1, <2>3, <3>2 DEF Moves
      <3>3. CASE i = n + 2
        BY <1>1, <2>1, <2>3, <3>3 DEF Moves
      <3>4. CASE i = n + 3
        BY <1>1, <2>1, <2>3, <3>4 DEF Moves
      <3> QED
        BY <1>1, <3>1, <3>2, <3>3, <3>4
    <2>7. Reads(r, v)
      BY Zenon, <2>1, <2>5, <2>6 DEF Reads
    <2> QED
      BY <2>1, <2>2, <2>7
  <1> QED
    BY <1>3, <1>4

(***************************************************************************)
(* What a step of the reader does.                                         *)
(***************************************************************************)
Keeps ==
    /\ ghost'.quiet = ghost.quiet /\ ghost'.heard = ghost.heard /\ ghost'.early = ghost.early
    /\ ghost'.calm = ghost.calm /\ ghost'.burnt = ghost.burnt
Clears ==
    /\ me'.reader # "ended" /\ me'.deadline = Off /\ me'.probes = 0
    /\ me'.result = me.result /\ me'.durable.floor = me.durable.floor
    /\ ghost'.quiet = 0 /\ ghost'.heard /\ ~ghost'.early
    /\ ghost'.calm = ghost.calm /\ ghost'.burnt = ghost.burnt
Comes == Coming => Coming'
ReaderMoves ==
    /\ cfg' = cfg /\ net' = net /\ peer' = peer
    /\ TypeOK' /\ InStep' /\ SameWriting(me, me')
    /\ me.reader # "ended"
    /\ ghost'.owes => ghost.owes \/ (me.writer # "ended" /\ me'.chan # <<>>)
    /\ \/ Rests(me, me') /\ Keeps /\ Comes
       \/ TimesOut(me, me') /\ Keeps
       \/ Probed(me, me') /\ Keeps /\ Comes
       \/ Clears
       \/ \E why \in {"clean", "io"} : Ends(me', why) /\ me'.durable = me.durable /\ Keeps

\* A look at the deadline, with the reader where it is.
LEMMA Polled ==
    ASSUME TypeOK, Aligned, NEW s, Typed(s), Rests(me, s), SameWriting(me, s), s.reader = "length" \/ s.reader = me.reader,
           s.reader # "ended", me.deadline >= Off, me' = Look(s), Keeps, Comes, Reads(s.reader, wire')
    PROVE  /\ Typed(me') /\ InStep' /\ SameWriting(me, me') /\ (s.chan # <<>> => me'.chan # <<>>)
           /\ \/ Rests(me, me') /\ Keeps /\ Comes
              \/ TimesOut(me, me') /\ Keeps
              \/ Probed(me, me') /\ Keeps /\ Comes
  <1>1. s.deadline >= Off /\ cfg \in Cfg
    BY DEF Rests, TypeOK
  <1>2. /\ Typed(me') /\ SameWriting(s, me')
        /\ \/ me'.reader = s.reader /\ Rests(s, me')
           \/ TimesOut(s, me')
           \/ me'.reader = s.reader /\ Probed(s, me')
    BY <1>1, Looked
  <1>3. SameWriting(me, me') /\ (s.chan # <<>> => me'.chan # <<>>)
    BY <1>2 DEF SameWriting
  <1>4. Current(s) = Current(me)
    BY DEF Rests, Current
  <1>5. Rests(s, me') => Rests(me, me')
    BY DEF Rests
  <1>6. TimesOut(s, me') => TimesOut(me, me')
    BY DEF Rests, TimesOut
  <1>7. Probed(s, me') => Probed(me, me')
    BY <1>4 DEF Rests, Probed
  <1>8. InStep'
    <2>1. CASE me'.reader = s.reader /\ me'.result = me.result
      BY <2>1 DEF InStep, Aligned
    <2>2. CASE TimesOut(s, me')
      BY <2>2 DEF TimesOut, Ends, InStep, Aligned
    <2> QED
      BY <1>2, <2>1, <2>2 DEF Rests, Probed
  <1> QED
    BY <1>2, <1>3, <1>5, <1>6, <1>7, <1>8

\* A look at the deadline is a move of the reader.
LEMMA CheckMoves ==
    ASSUME TypeOK, InStep, Silent, Check
    PROVE  ReaderMoves
  <1>1. Keeps /\ Comes /\ ghost' = ghost /\ peer' = peer /\ wire' = wire /\ cfg' = cfg /\ net' = net
    BY DEF Check, Keeps, Comes, Coming
  <1>2. Rests(me, me) /\ SameWriting(me, me)
    BY DEF Rests, SameWriting
  <1>3. me.reader # "ended" /\ me' = Look(me)
    BY DEF Check, Reading
  <1>4. Typed(me) /\ Aligned /\ Reads(me.reader, wire') /\ me.deadline >= Off
    BY <1>1, <1>3 DEF InStep, TypeOK, Silent
  <1>5. /\ Typed(me') /\ InStep' /\ SameWriting(me, me')
        /\ \/ Rests(me, me') /\ Keeps /\ Comes
           \/ TimesOut(me, me') /\ Keeps
           \/ Probed(me, me') /\ Keeps /\ Comes
    BY <1>1, <1>2, <1>3, <1>4, Polled
  <1>6. TypeOK'
    BY <1>1, <1>5 DEF TypeOK
  <1> QED
    BY <1>1, <1>3, <1>5, <1>6 DEF ReaderMoves

\* A reader that ends on its own makes a move of the reader.
LEMMA StopMoves ==
    ASSUME TypeOK, InStep, StopReading
    PROVE  ReaderMoves
  <1>1. Keeps /\ ghost' = ghost /\ peer' = peer /\ cfg' = cfg /\ net' = net /\ wire' = <<>>
    BY DEF StopReading, Keeps
  <1>2. PICK why \in {"clean", "io"} : me' = EndReader(me, why)
    BY DEF StopReading
  <1>3. Typed(me') /\ SameWriting(me, me') /\ Ends(me', why) /\ me'.durable = me.durable
    BY <1>2, ReaderEnds DEF TypeOK
  <1>4. TypeOK'
    BY <1>1, <1>3 DEF TypeOK
  <1>5. InStep'
    BY <1>3 DEF Ends, InStep, Aligned
  <1>6. me.reader # "ended"
    BY DEF StopReading
  <1> QED
    BY <1>1, <1>3, <1>4, <1>5, <1>6 DEF ReaderMoves

\* A byte that is read makes a move of the reader.
LEMMA ByteMoves ==
    ASSUME TypeOK, InStep, Silent, ReadByte
    PROVE  ReaderMoves
  <1>1. /\ me.reader # "ended" /\ wire # <<>> /\ wire' = Tail(wire) /\ me' = Take(me, Head(wire))
        /\ cfg' = cfg /\ net' = net /\ peer' = peer
    BY DEF ReadByte
  <1>2. /\ Typed(me) /\ DOMAIN me = Fields /\ me.reader \in Places /\ wire \in Seq(Octets)
        /\ cfg \in Cfg /\ DOMAIN ghost = Notes /\ ghost.quiet \in Nat /\ me.deadline >= Off
    BY <1>1 DEF TypeOK, Typed, Silent
  <1>3. PICK q \in Places : <<me.reader, Head(wire), q>> \in Moves /\ Reads(q, wire')
    BY <1>1, <1>2, ReadsOn DEF InStep
  <1>4. wire' \in Seq(Octets)
    BY <1>1, <1>2
  <1>5. Head(wire) # "last" => Comes
    <2> SUFFICES ASSUME Head(wire) # "last", NEW i \in DOMAIN wire, wire[i] = "last"
                 PROVE  \E j \in DOMAIN wire' : wire'[j] = "last"
      BY <1>1 DEF Comes, Coming
    <2>1. i # 1 /\ i - 1 \in DOMAIN Tail(wire) /\ Tail(wire)[i - 1] = wire[i]
      BY <1>1, <1>2
    <2> QED
      BY <1>1, <2>1
  <1>6. CASE me.reader = "length" /\ Head(wire) = "more" /\ q = "partial"
    <2>1. me' = [me EXCEPT !.reader = "partial"]
      BY <1>1, <1>6 DEF Take
    <2>2. ghost' = ghost
      BY <1>6 DEF ReadByte
    <2>3. Typed(me') /\ SameWriting(me, me') /\ Rests(me, me') /\ me'.reader = q
      BY <1>2, <1>6, <2>1 DEF Typed, Fields, Places, SameWriting, Rests
    <2>4. TypeOK'
      BY <1>1, <1>2, <1>4, <2>2, <2>3 DEF TypeOK
    <2>5. InStep'
      BY <1>3, <2>3 DEF InStep, Aligned, Rests
    <2>6. Keeps
      BY <2>2 DEF Keeps
    <2> QED
      BY <1>1, <1>5, <1>6, <2>2, <2>3, <2>4, <2>5, <2>6 DEF ReaderMoves
  <1>7. CASE Head(wire) = "last" /\ me.reader \in {"length", "partial"} /\ me' = GotLength(me, q)
    <2>1. /\ Typed(me') /\ SameWriting(me, me') /\ me'.reader = q /\ me'.result = me.result
          /\ me'.deadline = Off /\ me'.probes = 0 /\ me'.durable.floor = me.durable.floor
      BY <1>2, <1>7, LengthRead
    <2>2. ghost' = [ghost EXCEPT !.quiet = 0, !.heard = TRUE, !.early = FALSE]
      BY <1>7 DEF ReadByte
    <2>3. /\ DOMAIN ghost' = Notes /\ ghost'.quiet = 0 /\ ghost'.heard = TRUE /\ ghost'.early = FALSE
          /\ ghost'.calm = ghost.calm /\ ghost'.burnt = ghost.burnt /\ ghost'.owes = ghost.owes
      BY <1>2, <2>2 DEF Notes
    <2>4. TypeOK'
      BY <1>1, <1>2, <1>4, <2>1, <2>3 DEF TypeOK
    <2>5. InStep'
      BY <1>3, <2>1 DEF InStep, Aligned
    <2>6. Clears
      BY <2>1, <2>3 DEF Clears, Places
    <2> QED
      BY <1>1, <2>1, <2>3, <2>4, <2>5, <2>6 DEF ReaderMoves
  <1>8. CASE me.reader = "short" /\ Head(wire) = "short" /\ q = "length"
    <2> DEFINE s == [me EXCEPT !.reader = "length"]
    <2>1. me' = Look(s)
      BY <1>1, <1>8 DEF Take
    <2>2. ghost' = ghost /\ Keeps
      BY Zenon, <1>8 DEF ReadByte, Keeps
    <2>3. Typed(s) /\ SameWriting(me, s) /\ Rests(me, s) /\ s.reader = "length"
      BY <1>2 DEF Typed, Fields, Places, SameWriting, Rests
    <2> HIDE DEF s
    <2>4. /\ Typed(me') /\ InStep' /\ SameWriting(me, me')
          /\ \/ Rests(me, me') /\ Keeps /\ Comes
             \/ TimesOut(me, me') /\ Keeps
             \/ Probed(me, me') /\ Keeps /\ Comes
      BY <1>2, <1>3, <1>5, <1>8, <2>1, <2>2, <2>3, Polled DEF InStep
    <2>5. TypeOK'
      BY <1>1, <1>2, <1>4, <2>2, <2>4 DEF TypeOK
    <2> QED
      BY <1>1, <2>2, <2>4, <2>5 DEF ReaderMoves
  <1>9. CASE me.reader = "long" /\ Head(wire) = "long" /\ q = "length"
    <2> DEFINE r == [me EXCEPT !.reader = "length"]
               s == Schedule(r)
    <2>1. me' = Look(s)
      BY <1>1, <1>9 DEF Take
    <2>2. ghost' = [ghost EXCEPT !.owes = me.writer # "ended"]
      BY <1>9 DEF ReadByte
    <2>3. Keeps /\ DOMAIN ghost' = Notes /\ ghost'.quiet = ghost.quiet /\ (ghost'.owes => me.writer # "ended")
      BY Zenon, <1>2, <2>2 DEF Keeps, Notes
    <2>4. Typed(r) /\ SameWriting(me, r) /\ Rests(me, r) /\ r.reader = "length"
      BY <1>2 DEF Typed, Fields, Places, SameWriting, Rests
    <2> HIDE DEF r
    <2>5. Typed(s) /\ SameReading(r, s) /\ SameWriting(r, s) /\ (r.writer # "ended" => s.chan # <<>>)
      BY <2>4, Scheduled
    <2> HIDE DEF s
    <2>6. SameWriting(me, s) /\ Rests(me, s) /\ s.reader = "length" /\ (me.writer # "ended" => s.chan # <<>>)
      BY <2>4, <2>5 DEF SameWriting, SameReading, Rests
    <2>7. /\ Typed(me') /\ InStep' /\ SameWriting(me, me') /\ (s.chan # <<>> => me'.chan # <<>>)
          /\ \/ Rests(me, me') /\ Keeps /\ Comes
             \/ TimesOut(me, me') /\ Keeps
             \/ Probed(me, me') /\ Keeps /\ Comes
      BY <1>2, <1>3, <1>5, <1>9, <2>1, <2>3, <2>5, <2>6, Polled DEF InStep
    <2>8. TypeOK'
      BY <1>1, <1>2, <1>4, <2>3, <2>7 DEF TypeOK
    <2> QED
      BY <1>1, <2>3, <2>6, <2>7, <2>8 DEF ReaderMoves
  <1>10. me.reader = "length" /\ Head(wire) = "last" /\ q = "short" => me' = GotLength(me, q)
    BY <1>1 DEF Take
  <1>11. me.reader = "partial" /\ Head(wire) = "last" /\ q = "long" => me' = GotLength(me, q)
    BY <1>1 DEF Take
  <1> QED
    BY <1>3, <1>6, <1>7, <1>8, <1>9, <1>10, <1>11 DEF Moves

\* The least interval of the peer, as TimeoutEarned has it.
Least == IF ~cfg.adaptive THEN cfg.fixed ELSE IF ghost.burnt THEN cfg.problem ELSE cfg.min

\* The interval that runs is at least the least one.
LEMMA LeastInterval ==
    ASSUME TypeOK, Silent
    PROVE  Least \in Nat /\ Current(me) \in Nat \ {0} /\ Least <= Current(me)
  <1>1. cfg \in Cfg /\ Lasting(me.durable)
    BY DEF TypeOK, Typed
  <1> DEFINE i == Compute(cfg, me.durable)
  <1>2. /\ i \in Nat \ {0}
        /\ ~cfg.adaptive => i = cfg.fixed
        /\ cfg.adaptive => cfg.min <= i
        /\ cfg.adaptive /\ cfg.problem <= me.durable.floor => cfg.problem <= i
    BY <1>1, Interval
  <1>3. ghost.burnt /\ cfg.adaptive => me.durable.floor >= cfg.problem
    BY DEF Silent
  <1>4. cfg.problem \in Nat /\ cfg.min \in Nat /\ cfg.fixed \in Nat /\ me.durable.floor \in Int
    BY <1>1, Valid DEF Lasting
  <1> HIDE DEF i
  <1>5. Least \in Nat /\ Least <= i
    <2>1. CASE ~cfg.adaptive
      BY <1>2, <1>4, <2>1 DEF Least
    <2>2. CASE cfg.adaptive /\ ghost.burnt
      BY <1>2, <1>3, <1>4, <2>2 DEF Least
    <2>3. CASE cfg.adaptive /\ ~ghost.burnt
      BY <1>2, <1>4, <2>3 DEF Least
    <2> QED
      BY <2>1, <2>2, <2>3
  <1> QED
    BY <1>2, <1>5 DEF Current, i

\* A deadline that is over for the last time.
LEMMA Earned ==
    ASSUME TypeOK, Silent, me.deadline = 0, me.probes + 1 >= Probes
    PROVE  ghost.quiet >= Probes * Least
  <1> DEFINE c == Current(me)
  <1>1. Least \in Nat /\ c \in Nat /\ Least <= c /\ Probes \in Nat /\ me.probes \in Nat /\ ghost.quiet \in Nat
    BY LeastInterval, LinkAssumption DEF TypeOK, Typed
  <1>2. me.probes + 1 = Probes
    BY <1>1 DEF Silent
  <1>3. ghost.quiet + me.deadline >= (me.probes + 1) * c
    BY DEF Silent, Off
  <1> HIDE DEF c
  <1>4. Probes * Least <= Probes * c
    BY <1>1, Times
  <1>5. Probes * Least \in Nat /\ Probes * c \in Nat
    BY <1>1
  <1> QED
    BY <1>1, <1>2, <1>3, <1>4, <1>5

\* A move of the reader keeps the invariant.
LEMMA ReaderStep ==
    ASSUME Inv, ReaderMoves
    PROVE  Inv'
  <1> USE DEF Inv
  <1>1. TypeOK' /\ InStep' /\ SameWriting(me, me') /\ cfg' = cfg /\ net' = net /\ peer' = peer
    BY DEF ReaderMoves
  <1>0. Finished'
    BY DEF Finished, ReaderMoves, Rests, TimesOut, Probed, Clears, Ends
  <1>2. Served'
    BY <1>1 DEF Served, Drains, SameWriting
  <1>3. Remembered'
    <2>1. ghost'.owes => ghost.owes \/ (me.writer # "ended" /\ me'.chan # <<>>)
      BY DEF ReaderMoves
    <2> QED
      BY <1>1, <2>1 DEF Remembered, Answers, SameWriting
  <1>4. LongestSilence' = LongestSilence
    BY <1>1 DEF LongestSilence
  <1>5. /\ me.deadline \in Int /\ me.probes \in Nat /\ ghost.quiet \in Nat /\ Probes \in Nat \ {0} /\ cfg \in Cfg
        /\ Lasting(me.durable) /\ Current(me) \in Nat \ {0} /\ LongestSilence \in Nat
    <2>1. /\ me.deadline \in Int /\ me.probes \in Nat /\ ghost.quiet \in Nat /\ Probes \in Nat \ {0} /\ cfg \in Cfg
          /\ Lasting(me.durable) /\ Current(me) \in Nat \ {0}
      BY LinkAssumption, LeastInterval DEF TypeOK, Typed
    <2>2. 0 \in Nat /\ 0 <= Probes
      BY <2>1
    <2> QED
      BY <2>1, <2>2, Longest
  <1>6. CASE Rests(me, me') /\ Keeps /\ Comes
    <2>1. Current(me)' = Current(me)
      BY <1>1, <1>6 DEF Current, Rests
    <2>2. Silent'
      BY <1>1, <1>4, <1>6, <2>1 DEF Silent, Rests, Keeps
    <2>3. TimeoutEarned' /\ HealthyStays'
      BY <1>1, <1>6 DEF TimeoutEarned, HealthyStays, Rests, Keeps
    <2>4. Healthy'
      BY <1>1, <1>6, <2>1 DEF Healthy, Rests, Keeps, Comes, SameWriting, ReaderMoves
    <2> QED
      BY <1>0, <1>1, <1>2, <1>3, <2>2, <2>3, <2>4
  <1>7. CASE TimesOut(me, me') /\ Keeps
    <2>1. /\ me.deadline = 0 /\ me.probes + 1 >= Probes /\ me'.reader = "ended" /\ me'.result = "timeout"
          /\ me'.deadline = Off /\ me'.probes = 0 /\ me'.durable = OnTimeout(cfg, me.durable)
      BY <1>7 DEF TimesOut, Ends
    <2>2. cfg.adaptive => me'.durable.floor >= cfg.problem
      BY <1>5, <2>1, TimedOut
    <2>3. Silent'
      BY <1>1, <1>4, <1>5, <1>7, <2>1, <2>2 DEF Silent, Keeps, Off
    <2>4. ghost.quiet >= Probes * Least
      BY <2>1, Earned
    <2>5. TimeoutEarned'
      BY <1>1, <1>7, <2>4 DEF TimeoutEarned, Keeps, Least
    <2>6. HealthyStays'
      <3>1. ghost.calm => ghost.early
        BY <1>5, <2>1 DEF Healthy, ReaderMoves, Off
      <3> QED
        BY <1>7, <3>1 DEF HealthyStays, Keeps
    <2>7. Healthy'
      BY <1>1, <1>7, <2>1 DEF Healthy, Keeps
    <2> QED
      BY <1>0, <1>1, <1>2, <1>3, <2>3, <2>5, <2>6, <2>7
  <1>8. CASE Probed(me, me') /\ Keeps /\ Comes
    <2> DEFINE c == Current(me)
    <2>1. /\ me.deadline = 0 /\ me.probes + 1 < Probes /\ me'.probes = me.probes + 1 /\ me'.deadline = c
          /\ me'.result = me.result /\ me'.durable = me.durable
      BY <1>8 DEF Probed
    <2>2. Current(me)' = c
      BY <1>1, <2>1 DEF Current
    <2>3. ghost.quiet >= (me.probes + 1) * c /\ c \in Nat
      BY <1>5, <2>1 DEF Silent, Off
    <2> HIDE DEF c
    <2>4. (me'.probes + 1) * c = (me.probes + 1) * c + c
      BY <1>5, <2>1, <2>3
    <2>5. ghost'.quiet + me'.deadline >= (me'.probes + 1) * c
      <3>1. (me.probes + 1) * c \in Nat
        BY <1>5, <2>3
      <3> QED
        BY <1>5, <1>8, <2>1, <2>3, <2>4, <3>1 DEF Keeps
    <2>6. Silent'
      BY <1>1, <1>4, <1>5, <1>8, <2>1, <2>2, <2>3, <2>5 DEF Silent, Keeps, Off
    <2>7. TimeoutEarned' /\ HealthyStays'
      BY <1>1, <1>8, <2>1 DEF TimeoutEarned, HealthyStays, Keeps
    <2>8. Healthy'
      <3>1. ghost.calm => ghost.early
        BY <1>5, <2>1 DEF Healthy, ReaderMoves, Off
      <3> QED
        BY <1>1, <1>8, <3>1 DEF Healthy, Keeps, Comes, SameWriting, ReaderMoves
    <2> QED
      BY <1>0, <1>1, <1>2, <1>3, <2>6, <2>7, <2>8
  <1>9. CASE Clears
    <2>1. Silent'
      BY <1>1, <1>4, <1>5, <1>9 DEF Silent, Clears, Off
    <2>2. me.result # "timeout"
      BY DEF ReaderMoves, Finished
    <2>3. TimeoutEarned' /\ HealthyStays'
      BY <1>9, <2>2 DEF TimeoutEarned, HealthyStays, Clears
    <2>4. Healthy'
      BY <1>1, <1>9 DEF Healthy, Clears
    <2> QED
      BY <1>0, <1>1, <1>2, <1>3, <2>1, <2>3, <2>4
  <1>10. ASSUME NEW why \in {"clean", "io"}, Ends(me', why), me'.durable = me.durable, Keeps
         PROVE  Inv'
    <2>1. Silent'
      BY <1>1, <1>4, <1>5, <1>10 DEF Silent, Ends, Off, Keeps
    <2>2. TimeoutEarned' /\ HealthyStays'
      BY <1>10 DEF TimeoutEarned, HealthyStays, Ends
    <2>3. Healthy'
      BY <1>1, <1>10 DEF Healthy, Ends, Keeps
    <2> QED
      BY <1>0, <1>1, <1>2, <1>3, <2>1, <2>2, <2>3
  <1> QED
    BY <1>6, <1>7, <1>8, <1>9, <1>10 DEF ReaderMoves

(***************************************************************************)
(* What a step of the writer or of the router does, but for arming.        *)
(***************************************************************************)
Arming(s) == s.writer \in {"arm", "armTraffic"}
WriterMoves ==
    /\ cfg' = cfg /\ wire' = wire /\ net' = net
    /\ TypeOK' /\ SameReading(me, me')
    /\ ghost'.quiet = ghost.quiet /\ ghost'.early = ghost.early
    /\ ghost'.calm = ghost.calm /\ ghost'.burnt = ghost.burnt
    /\ peer.owes => peer'.owes
    /\ Served' /\ Remembered'
    /\ Arming(me') => \/ Arming(me) /\ ghost'.heard = ghost.heard
                      \/ net = "up" => peer'.owes

\* A step that writes nothing.
LEMMA NothingWritten ==
    ASSUME TypeOK, Typed(me'), SameReading(me, me'), UNCHANGED <<cfg, wire, net, peer, ghost>>,
           Drains(me'), ghost.owes => Answers(me'), Arming(me') => Arming(me)
    PROVE  WriterMoves
  <1>1. TypeOK'
    BY DEF TypeOK
  <1>2. Served' /\ Remembered'
    BY DEF Served, Remembered
  <1> QED
    BY <1>1, <1>2 DEF WriterMoves

\* A flush: nothing is owed to the peer any more, which owes an answer to a frame.
LEMMA Flushed ==
    ASSUME TypeOK, NEW fs, Flush(fs)
    PROVE  /\ DOMAIN peer' = {"wants", "owes"} /\ DOMAIN ghost' = Notes
           /\ ghost'.quiet = ghost.quiet /\ ghost'.early = ghost.early
           /\ ghost'.calm = ghost.calm /\ ghost'.burnt = ghost.burnt
           /\ peer.owes => peer'.owes
           /\ "frame" \in fs /\ net = "up" => peer'.owes
           /\ ghost'.owes => fs = {} /\ ghost.owes
  <1>1. DOMAIN peer = {"wants", "owes"} /\ DOMAIN ghost = Notes
    BY DEF TypeOK
  <1> DEFINE wants == "frame" \in Pending(fs)
  <1>2. "frame" \in fs => wants
    BY DEF Pending
  <1>3. peer' = IF net = "stalled" THEN [peer EXCEPT !.wants = @ \/ wants] ELSE [peer EXCEPT !.owes = @ \/ wants]
    BY DEF Flush
  <1> HIDE DEF wants
  <1>4. DOMAIN peer' = {"wants", "owes"} /\ (peer.owes => peer'.owes)
    BY Zenon, <1>1, <1>3
  <1>5. wants /\ net = "up" => peer'.owes
    BY Zenon, <1>1, <1>3
  <1>6. ghost' = ghost \/ ghost' = [ghost EXCEPT !.owes = FALSE, !.heard = FALSE]
    BY DEF Flush
  <1>7. fs # {} => ghost' = [ghost EXCEPT !.owes = FALSE, !.heard = FALSE]
    BY DEF Flush, Pending
  <1>8. /\ DOMAIN ghost' = Notes
        /\ ghost'.quiet = ghost.quiet /\ ghost'.early = ghost.early
        /\ ghost'.calm = ghost.calm /\ ghost'.burnt = ghost.burnt
    BY Zenon, <1>1, <1>6 DEF Notes
  <1>9. ghost'.owes => fs = {} /\ ghost.owes
    BY Zenon, <1>1, <1>6, <1>7 DEF Notes
  <1> QED
    BY <1>2, <1>4, <1>5, <1>8, <1>9

\* A writer that ends makes a move of the writer.
LEMMA WriterEnding ==
    ASSUME TypeOK, me' = EndWriter(me), ghost' = [ghost EXCEPT !.owes = FALSE],
           UNCHANGED <<cfg, wire, net, peer>>
    PROVE  WriterMoves
  <1>1. /\ Typed(me') /\ SameReading(me, me') /\ me'.writer = "ended" /\ me'.queue = 0
    BY WriterEnds DEF TypeOK
  <1>2. DOMAIN ghost = Notes
    BY DEF TypeOK
  <1>3. /\ DOMAIN ghost' = Notes /\ ghost'.owes = FALSE
        /\ ghost'.quiet = ghost.quiet /\ ghost'.early = ghost.early
        /\ ghost'.calm = ghost.calm /\ ghost'.burnt = ghost.burnt
    BY <1>2 DEF Notes
  <1>4. TypeOK'
    BY <1>1, <1>3 DEF TypeOK
  <1>5. Served' /\ Remembered' /\ ~Arming(me')
    BY <1>1, <1>3 DEF Served, Drains, Remembered, Arming
  <1> QED
    BY <1>1, <1>3, <1>4, <1>5 DEF WriterMoves

\* So does one that writes, whether its flush goes well or not.
LEMMA Written ==
    ASSUME TypeOK, NEW fs, NEW s, Typed(s), SameReading(me, s), UNCHANGED <<cfg, wire, net>>, Write(fs, s),
           Drains(s), ghost.owes /\ fs = {} => Answers(s), Arming(s) => "frame" \in fs
    PROVE  WriterMoves
  <1>1. CASE Flush(fs) /\ me' = [s EXCEPT !.buffer = {}]
    <2>1. DOMAIN s = Fields
      BY DEF Typed
    <2>2. /\ Typed(me') /\ SameReading(me, me')
          /\ me'.queue = s.queue /\ me'.notify = s.notify /\ me'.writer = s.writer /\ me'.chan = s.chan
          /\ me'.owed = s.owed
      BY <1>1, <2>1 DEF Typed, SameReading, Rests, Fields
    <2>3. Drains(me') /\ (Answers(s) => Answers(me')) /\ (Arming(me') => Arming(s))
      BY <2>2 DEF Drains, Answers, Arming
    <2>4. /\ DOMAIN peer' = {"wants", "owes"} /\ DOMAIN ghost' = Notes
          /\ ghost'.quiet = ghost.quiet /\ ghost'.early = ghost.early
          /\ ghost'.calm = ghost.calm /\ ghost'.burnt = ghost.burnt
          /\ peer.owes => peer'.owes
          /\ "frame" \in fs /\ net = "up" => peer'.owes
          /\ ghost'.owes => fs = {} /\ ghost.owes
      BY <1>1, Flushed
    <2>5. TypeOK'
      BY <2>2, <2>4 DEF TypeOK
    <2>6. Served' /\ Remembered'
      BY <2>3, <2>4 DEF Served, Remembered
    <2> QED
      BY <2>2, <2>3, <2>4, <2>5, <2>6 DEF WriterMoves
  <1>2. CASE me' = EndWriter(me) /\ ghost' = [ghost EXCEPT !.owes = FALSE] /\ UNCHANGED peer
    BY <1>2, WriterEnding
  <1> QED
    BY <1>1, <1>2 DEF Write

\* A move of the writer keeps the invariant.
LEMMA WriterStep ==
    ASSUME Inv, WriterMoves
    PROVE  Inv'
  <1> USE DEF Inv
  <1>1. /\ TypeOK' /\ cfg' = cfg /\ wire' = wire /\ net' = net /\ Served' /\ Remembered'
        /\ me'.reader = me.reader /\ Rests(me, me')
    BY DEF WriterMoves, SameReading
  <1>2. Current(me)' = Current(me) /\ LongestSilence' = LongestSilence
    BY <1>1 DEF Current, Rests, LongestSilence
  <1>3. Finished' /\ InStep'
    BY <1>1 DEF Finished, InStep, Aligned, Rests
  <1>4. Silent'
    BY <1>1, <1>2 DEF Silent, Rests, WriterMoves
  <1>5. TimeoutEarned' /\ HealthyStays'
    BY <1>1 DEF TimeoutEarned, HealthyStays, Rests, WriterMoves
  <1>6. Coming => Coming'
    BY <1>1 DEF Coming, WriterMoves
  <1>7. peer'.owes => Coming'
    BY DEF Coming
  <1>8. Healthy'
    BY <1>1, <1>2, <1>6, <1>7 DEF Healthy, WriterMoves, Rests, Arming
  <1> QED
    BY <1>1, <1>3, <1>4, <1>5, <1>8

(***************************************************************************)
(* The steps of the writer.                                                *)
(***************************************************************************)
LEMMA SendFrameMoves ==
    ASSUME Inv, SendFrame
    PROVE  WriterMoves
  <1> DEFINE f == Head(me.chan)
             s == [me EXCEPT !.chan = Tail(me.chan), !.owed = FALSE, !.writer = AfterFrame(f)]
  <1>1. TypeOK /\ Typed(me) /\ DOMAIN me = Fields /\ me.chan \in Seq(Msgs) /\ me.chan # <<>> /\ f # "schedule"
    BY DEF Inv, TypeOK, Typed, SendFrame
  <1>2. f \in Frames /\ Tail(me.chan) \in Seq(Msgs)
    BY <1>1 DEF Msgs
  <1>3. Write({f}, s) /\ UNCHANGED <<cfg, wire, net>>
    BY DEF SendFrame
  <1>4. AfterFrame(f) \in {"drain", "arm"} /\ (AfterFrame(f) = "arm" => f = "frame")
    BY <1>2 DEF AfterFrame, Frames
  <1> HIDE DEF f
  <1>5. Typed(s) /\ SameReading(me, s) /\ s.writer = AfterFrame(f)
    BY <1>1, <1>2, <1>4 DEF Typed, Fields, SameReading, Rests
  <1> HIDE DEF s
  <1>6. Drains(s) /\ (Arming(s) => "frame" \in {f})
    BY <1>4, <1>5 DEF Drains, Arming
  <1> QED
    BY <1>1, <1>3, <1>5, <1>6, Written

\* A keepalive that the reader asks for, with all that is coalesced after it.
LEMMA ScheduleMoves ==
    ASSUME Inv, ScheduleKeepalive
    PROVE  WriterMoves
  <1> DEFINE frames(i) == {me.chan[j] : j \in 1 .. i} \ {"schedule"}
             n == Len(me.chan)
  <1>0. TypeOK /\ Typed(me) /\ DOMAIN me = Fields /\ me.chan \in Seq(Msgs) /\ me.chan # <<>>
    BY Zenon DEF Inv, TypeOK, Typed, ScheduleKeepalive
  <1>1. /\ TypeOK /\ Typed(me) /\ DOMAIN me = Fields /\ me.chan \in Seq(Msgs) /\ me.chan # <<>>
        /\ n \in Nat /\ n >= 1
    BY <1>0
  <1>2. UNCHANGED <<cfg, wire, net>>
    BY Zenon DEF ScheduleKeepalive
  <1>3. ASSUME NEW i \in 1 .. n, NEW next \in 1 .. n + 1, NEW buffer,
               IF frames(i) = {} THEN UNCHANGED <<peer, ghost>> ELSE Flush(frames(i)),
               me' = [me EXCEPT !.writer = "drain", !.owed = (me.chan[i] = "schedule"),
                                !.chan = SubSeq(me.chan, next, n), !.buffer = buffer]
        PROVE  WriterMoves
    <2>1. SubSeq(me.chan, next, n) \in Seq(Msgs)
      BY <1>1, <1>3
    <2>2. /\ Typed(me') /\ SameReading(me, me') /\ me'.writer = "drain"
          /\ me'.owed = (me.chan[i] = "schedule")
      BY <1>1, <1>3, <2>1 DEF Typed, Fields, SameReading, Rests
    <2>3. Drains(me') /\ ~Arming(me')
      BY <2>2 DEF Drains, Arming
    <2>4. CASE frames(i) = {}
      <3>1. me.chan[i] = "schedule"
        <4>1. i \in 1 .. i
          BY <1>1, <1>3
        <4>2. me.chan[i] \in {me.chan[j] : j \in 1 .. i}
          BY <4>1
        <4> QED
          BY Zenon, <2>4, <4>2
      <3>2. me'.owed = TRUE
        BY Zenon, <2>2, <3>1
      <3>3. Answers(me')
        BY <2>2, <3>2 DEF Answers
      <3>4. UNCHANGED <<peer, ghost>>
        BY <1>3, <2>4
      <3> QED
        BY <1>1, <1>2, <2>2, <2>3, <3>3, <3>4, NothingWritten
    <2>5. CASE frames(i) # {}
      <3>1. Flush(frames(i))
        BY Zenon, <1>3, <2>5
      <3> HIDE DEF frames
      <3>2. /\ DOMAIN peer' = {"wants", "owes"} /\ DOMAIN ghost' = Notes
            /\ ghost'.quiet = ghost.quiet /\ ghost'.early = ghost.early
            /\ ghost'.calm = ghost.calm /\ ghost'.burnt = ghost.burnt
            /\ peer.owes => peer'.owes
            /\ ~ghost'.owes
        BY <1>1, <2>5, <3>1, Flushed
      <3>3. TypeOK'
        BY <1>1, <1>2, <2>2, <3>2 DEF TypeOK
      <3> QED
        BY <1>2, <2>2, <2>3, <3>2, <3>3 DEF WriterMoves, Served, Remembered
    <2> QED
      BY Zenon, <2>4, <2>5
  <1>4. \/ \E buffer : /\ IF frames(n) = {} THEN UNCHANGED <<peer, ghost>> ELSE Flush(frames(n))
                       /\ me' = [me EXCEPT !.writer = "drain", !.owed = (me.chan[n] = "schedule"),
                                           !.chan = SubSeq(me.chan, n + 1, n), !.buffer = buffer]
        \/ \E i \in 2 .. n : \E buffer :
             /\ IF frames(i - 1) = {} THEN UNCHANGED <<peer, ghost>> ELSE Flush(frames(i - 1))
             /\ me' = [me EXCEPT !.writer = "drain", !.owed = (me.chan[i - 1] = "schedule"),
                                 !.chan = SubSeq(me.chan, i + 1, n), !.buffer = buffer]
    BY Zenon DEF ScheduleKeepalive
  <1> HIDE DEF frames
  <1>5. n \in 1 .. n /\ n + 1 \in 1 .. n + 1 /\ \A i \in 2 .. n : i - 1 \in 1 .. n /\ i + 1 \in 1 .. n + 1
    BY <1>1
  <1> QED
    BY Zenon, <1>3, <1>4, <1>5

\* The permit of the traffic queue.
LEMMA NotifiedMoves ==
    ASSUME Inv, Notified
    PROVE  WriterMoves
  <1>1. TypeOK /\ Typed(me) /\ DOMAIN me = Fields /\ me.chan = <<>> /\ me.writer = "select" /\ ~ghost.owes
    BY DEF Inv, TypeOK, Typed, Notified, AtSelect, Remembered, Answers
  <1>2. me' = [me EXCEPT !.notify = FALSE, !.writer = "drain"] /\ UNCHANGED <<cfg, wire, net, peer, ghost>>
    BY DEF Notified
  <1>3. Typed(me') /\ SameReading(me, me') /\ me'.writer = "drain"
    BY Zenon, <1>1, <1>2 DEF Typed, Fields, SameReading, Rests
  <1> QED
    BY <1>1, <1>2, <1>3, NothingWritten DEF Drains, Arming

\* The keepalive of an idle link.
LEMMA IdleMoves ==
    ASSUME Inv, IdleKeepalive
    PROVE  WriterMoves
  <1> DEFINE s == [me EXCEPT !.owed = FALSE, !.idle = Idle]
  <1>1. TypeOK /\ Typed(me) /\ DOMAIN me = Fields /\ me.writer = "select"
    BY DEF Inv, TypeOK, Typed, IdleKeepalive, AtSelect
  <1>2. Write({"keepalive"}, s) /\ UNCHANGED <<cfg, wire, net>>
    BY DEF IdleKeepalive
  <1>3. /\ Typed(s) /\ SameReading(me, s)
        /\ s.writer = me.writer /\ s.queue = me.queue /\ s.notify = me.notify /\ s.chan = me.chan
    BY <1>1 DEF Typed, Fields, SameReading, Rests
  <1> HIDE DEF s
  <1>4. Drains(s) /\ ~Arming(s)
    BY <1>1, <1>3 DEF Inv, Served, Drains, Arming
  <1> QED
    BY <1>1, <1>2, <1>3, <1>4, Written

\* Packets taken from the traffic queue, up to what one drain takes.
LEMMA DrainMoves ==
    ASSUME Inv, DrainTrafficQueue
    PROVE  WriterMoves
  <1>1. TypeOK /\ Typed(me) /\ DOMAIN me = Fields /\ me.writer = "drain" /\ me.queue \in Nat
    BY DEF Inv, TypeOK, Typed, DrainTrafficQueue
  <1>2. UNCHANGED <<cfg, wire, net>>
    BY DEF DrainTrafficQueue
  <1>3. CASE me.chan # <<>>
    <2>1. me' = [me EXCEPT !.writer = "answer"] /\ UNCHANGED <<peer, ghost>>
      BY <1>3 DEF DrainTrafficQueue
    <2>2. Typed(me') /\ SameReading(me, me') /\ me'.writer = "answer" /\ me'.chan = me.chan
      BY <1>1, <2>1 DEF Typed, Fields, SameReading, Rests
    <2>3. Drains(me') /\ Answers(me') /\ ~Arming(me')
      BY <1>3, <2>2 DEF Drains, Answers, Arming
    <2> QED
      BY <1>1, <1>2, <2>1, <2>2, <2>3, NothingWritten
  <1>4. CASE me.chan = <<>>
    <2>1. PICK b \in Batches : Write(IF b[1] = 0 THEN {} ELSE {"frame"}, Drained(b[1], b[2]))
      BY <1>4 DEF DrainTrafficQueue
    <2> DEFINE s == Drained(b[1], b[2])
               fs == IF b[1] = 0 THEN {} ELSE {"frame"}
    <2>2. /\ b[1] \in Nat /\ b[2] \in Nat /\ Drain \in Nat /\ b[1] <= Drain
          /\ b[1] = 0 => me.queue = 0
          /\ b[1] + b[2] <= me.queue
          /\ b[1] < Drain => b[2] = 0
      <3>1. Drain \in Nat
        BY LinkAssumption
      <3>2. Min({me.queue, Drain}) \in Nat /\ Min({me.queue, Drain}) <= Drain
        BY <1>1, <3>1, MinTwo
      <3>3. b \in (0 .. Min({me.queue, Drain})) \X (0 .. me.queue)
        BY DEF Batches
      <3>4. b[1] \in 0 .. Min({me.queue, Drain}) /\ b[2] \in 0 .. me.queue
        BY <3>3
      <3>5. (b[1] = 0 => me.queue = 0) /\ b[1] + b[2] <= me.queue /\ (b[1] < Drain => b[2] = 0)
        BY DEF Batches
      <3> QED
        BY <1>1, <3>1, <3>2, <3>4, <3>5
    <2>3. /\ Typed(s) /\ SameReading(me, s) /\ s.queue = b[2] /\ s.chan = me.chan /\ s.owed = me.owed
          /\ s.writer = IF b[1] = 0 THEN "answer" ELSE "armTraffic"
      BY <1>1, <2>2 DEF Drained, Typed, Fields, SameReading, Rests
    <2>4. b[1] = Drain => s.notify = TRUE
      BY Zenon, <1>1 DEF Drained, Fields
    <2> HIDE DEF s
    <2>5. b[2] > 0 => b[1] = Drain /\ b[1] # 0
      BY <1>1, <2>2
    <2>6. Drains(s)
      BY <2>2, <2>3, <2>4, <2>5 DEF Drains
    <2>7. ghost.owes => me.owed
      BY <1>1, <1>4 DEF Inv, Remembered, Answers
    <2>8. ghost.owes /\ fs = {} => Answers(s)
      BY <2>3, <2>7 DEF Answers
    <2>9. Arming(s) => "frame" \in fs
      BY <2>3 DEF Arming
    <2>10. Write(fs, s)
      BY <2>1 DEF s
    <2> HIDE DEF fs
    <2> QED
      BY <1>1, <1>2, <2>3, <2>6, <2>8, <2>9, <2>10, Written
  <1> QED
    BY <1>3, <1>4

\* The answer that is owed after the coalescing loop.
LEMMA AnswerMoves ==
    ASSUME Inv, Answer
    PROVE  WriterMoves
  <1> DEFINE s == [me EXCEPT !.writer = "select", !.idle = Idle]
             t == [s EXCEPT !.owed = FALSE]
  <1>1. TypeOK /\ Typed(me) /\ DOMAIN me = Fields /\ me.writer = "answer"
    BY DEF Inv, TypeOK, Typed, Answer
  <1>2. UNCHANGED <<cfg, wire, net>>
    BY DEF Answer
  <1>3. /\ Typed(s) /\ SameReading(me, s) /\ s.writer = "select"
        /\ s.queue = me.queue /\ s.notify = me.notify /\ s.chan = me.chan /\ s.owed = me.owed
    BY <1>1 DEF Typed, Fields, SameReading, Rests
  <1>4. /\ s.owed /\ s.chan = <<>> => Write({"keepalive"}, t)
        /\ ~(s.owed /\ s.chan = <<>>) => me' = s /\ UNCHANGED <<peer, ghost>>
    BY DEF Answer
  <1> HIDE DEF s
  <1>5. Drains(s) /\ ~Arming(s)
    BY <1>1, <1>3 DEF Inv, Served, Drains, Arming
  <1>6. CASE s.owed /\ s.chan = <<>>
    <2>1. /\ Typed(t) /\ SameReading(me, t)
          /\ t.writer = s.writer /\ t.queue = s.queue /\ t.notify = s.notify /\ t.chan = s.chan
      BY <1>3 DEF Typed, Fields, SameReading, Rests
    <2> HIDE DEF t
    <2>2. Drains(t) /\ ~Arming(t)
      BY <1>5, <2>1 DEF Drains, Arming
    <2> QED
      BY Zenon, <1>1, <1>2, <1>4, <1>6, <2>1, <2>2, Written
  <1>7. CASE ~(s.owed /\ s.chan = <<>>)
    <2>1. ghost.owes => Answers(s)
      BY <1>1, <1>3, <1>7 DEF Inv, Remembered, Answers
    <2> QED
      BY <1>1, <1>2, <1>3, <1>4, <1>5, <1>7, <2>1, NothingWritten
  <1> QED
    BY <1>6, <1>7

\* The end of the writer.
LEMMA StopWritingMoves ==
    ASSUME Inv, StopWriting
    PROVE  WriterMoves
  BY WriterEnding DEF Inv, StopWriting

\* What the router puts into the channel and the queue.
LEMMA RouterMoves ==
    ASSUME Inv, Unspill \/ Router
    PROVE  WriterMoves
  <1>1. TypeOK /\ Typed(me) /\ DOMAIN me = Fields /\ me.chan \in Seq(Msgs) /\ me.queue \in Nat
    BY DEF Inv, TypeOK, Typed
  <1>2. Append(me.chan, "frame") \in Seq(Msgs) /\ Append(me.chan, "frame") # <<>>
    BY <1>1 DEF Msgs, Frames
  <1>3. UNCHANGED <<cfg, wire, net, peer, ghost>>
    BY DEF Unspill, Router, RouterFrame, RouterTraffic
  <1>4. CASE me' = [me EXCEPT !.spill = me.spill + 1]
    <2>1. /\ Typed(me') /\ SameReading(me, me') /\ me'.writer = me.writer
          /\ me'.queue = me.queue /\ me'.notify = me.notify /\ me'.chan = me.chan /\ me'.owed = me.owed
      BY <1>1, <1>4 DEF Typed, Fields, SameReading, Rests
    <2>2. Drains(me') /\ (ghost.owes => Answers(me')) /\ (Arming(me') => Arming(me))
      BY <2>1 DEF Inv, Served, Drains, Remembered, Answers, Arming
    <2> QED
      BY <1>1, <1>3, <2>1, <2>2, NothingWritten
  <1>5. CASE \E x : me' = [me EXCEPT !.spill = x, !.chan = Append(me.chan, "frame")]
    <2>1. /\ Typed(me') /\ SameReading(me, me') /\ me'.writer = me.writer
          /\ me'.queue = me.queue /\ me'.notify = me.notify /\ me'.chan # <<>> /\ me'.owed = me.owed
      BY <1>1, <1>2, <1>5 DEF Typed, Fields, SameReading, Rests
    <2>2. Drains(me') /\ (ghost.owes => Answers(me')) /\ (Arming(me') => Arming(me))
      BY <2>1 DEF Inv, Served, Drains, Remembered, Answers, Arming
    <2> QED
      BY <1>1, <1>3, <2>1, <2>2, NothingWritten
  <1>6. CASE me' = [me EXCEPT !.chan = Append(me.chan, "frame")]
    <2>1. /\ Typed(me') /\ SameReading(me, me') /\ me'.writer = me.writer
          /\ me'.queue = me.queue /\ me'.notify = me.notify /\ me'.chan # <<>> /\ me'.owed = me.owed
      BY <1>1, <1>2, <1>6 DEF Typed, Fields, SameReading, Rests
    <2>2. Drains(me') /\ (ghost.owes => Answers(me')) /\ (Arming(me') => Arming(me))
      BY <2>1 DEF Inv, Served, Drains, Remembered, Answers, Arming
    <2> QED
      BY <1>1, <1>3, <2>1, <2>2, NothingWritten
  <1>7. CASE me.writer # "ended" /\ me' = [me EXCEPT !.queue = me.queue + 1, !.notify = TRUE]
    <2>1. /\ Typed(me') /\ SameReading(me, me') /\ me'.writer = me.writer
          /\ me'.notify = TRUE /\ me'.chan = me.chan /\ me'.owed = me.owed
      BY <1>1, <1>7 DEF Typed, Fields, SameReading, Rests
    <2>2. Drains(me') /\ (ghost.owes => Answers(me')) /\ (Arming(me') => Arming(me))
      BY <1>7, <2>1 DEF Inv, Drains, Remembered, Answers, Arming
    <2> QED
      BY <1>1, <1>3, <2>1, <2>2, NothingWritten
  <1>8. Unspill => me' = [me EXCEPT !.spill = me.spill - 1, !.chan = Append(me.chan, "frame")]
    BY DEF Unspill
  <1> QED
    BY Zenon, <1>4, <1>5, <1>6, <1>7, <1>8 DEF Router, RouterFrame, RouterTraffic

(***************************************************************************)
(* The other steps.                                                        *)
(***************************************************************************)
LEMMA ArmStep ==
    ASSUME Inv, ArmReadDeadline
    PROVE  Inv'
  <1> USE DEF Inv
  <1> DEFINE c == Current(me)
  <1>1. /\ Typed(me) /\ DOMAIN me = Fields /\ DOMAIN ghost = Notes /\ ghost.quiet \in Nat
        /\ me.deadline \in Int /\ me.probes \in Nat /\ Arming(me) /\ c \in Nat \ {0}
    BY LeastInterval DEF TypeOK, Typed, ArmReadDeadline, Arming
  <1>2. UNCHANGED <<cfg, wire, net, peer>>
    BY DEF ArmReadDeadline
  <1> DEFINE epoch == IF me.deadline = Off THEN [age |-> 0, timeout |-> c] ELSE me.epoch
  <1>3. me' = [me EXCEPT !.deadline = IF me.deadline = Off THEN c ELSE me.deadline, !.epoch = epoch,
                         !.owed = FALSE, !.writer = IF me.writer = "arm" THEN "drain" ELSE "answer"]
    BY DEF ArmReadDeadline
  <1>4. ghost' = [ghost EXCEPT !.early = ghost.early \/ (me.deadline = Off /\ ghost.heard)]
    BY DEF ArmReadDeadline
  <1>5. DOMAIN epoch = {"age", "timeout"} /\ epoch.age \in Int
    BY DEF TypeOK, Typed
  <1> HIDE DEF c, epoch
  <1>6. /\ Typed(me') /\ me'.deadline = (IF me.deadline = Off THEN c ELSE me.deadline)
        /\ me'.writer = (IF me.writer = "arm" THEN "drain" ELSE "answer")
        /\ me'.reader = me.reader /\ me'.result = me.result /\ me'.durable = me.durable
        /\ me'.probes = me.probes /\ me'.chan = me.chan /\ me'.queue = me.queue /\ me'.notify = me.notify
    BY <1>1, <1>3, <1>5 DEF Typed, Fields
  <1>7. /\ DOMAIN ghost' = Notes /\ ghost'.quiet = ghost.quiet /\ ghost'.calm = ghost.calm
        /\ ghost'.burnt = ghost.burnt /\ ghost'.owes = ghost.owes /\ ghost'.heard = ghost.heard
    BY <1>1, <1>4 DEF Notes
  <1>8. /\ ghost.early => ghost'.early
        /\ me.deadline = Off /\ ghost.heard => ghost'.early
    BY Zenon, <1>1, <1>4 DEF Notes
  <1>9. TypeOK'
    BY <1>1, <1>2, <1>6, <1>7 DEF TypeOK
  <1>10. Finished' /\ InStep'
    BY <1>2, <1>6 DEF Finished, InStep, Aligned
  <1>11. Served' /\ Remembered'
    BY <1>1, <1>6, <1>7 DEF Served, Drains, Remembered, Answers, Arming
  <1>12. Current(me)' = c /\ LongestSilence' = LongestSilence
    BY <1>2, <1>6 DEF Current, LongestSilence, c
  <1>13. Silent'
    <2>1. CASE me.deadline = Off
      <3>1. me'.probes = 0 /\ me'.deadline = c /\ (me'.probes + 1) * c = c
        BY <1>1, <1>6, <2>1 DEF Silent
      <3> QED
        BY <1>1, <1>2, <1>6, <1>7, <1>12, <3>1 DEF Silent, Off
    <2>2. CASE me.deadline # Off
      <3>1. me'.deadline = me.deadline
        BY <1>6, <2>2
      <3>2. ghost.quiet + me.deadline >= (me.probes + 1) * c
        BY <2>2 DEF Silent, c
      <3> QED
        BY <1>1, <1>2, <1>6, <1>7, <1>12, <2>2, <3>1, <3>2 DEF Silent
    <2> QED
      BY <2>1, <2>2
  <1>14. TimeoutEarned' /\ HealthyStays'
    BY <1>2, <1>6, <1>7, <1>8 DEF TimeoutEarned, HealthyStays
  <1>15. Healthy'
    <2>1. Coming' = Coming
      BY <1>2 DEF Coming
    <2>2. ~Arming(me')
      BY <1>6 DEF Arming
    <2>3. me.deadline # Off /\ ghost.calm /\ me.reader # "ended" /\ ~ghost'.early => me'.deadline = c /\ Coming
      BY <1>6, <1>8 DEF Healthy, c
    <2>4. me.deadline = Off /\ ghost.calm /\ me.reader # "ended" /\ ~ghost'.early => me'.deadline = c /\ Coming
      BY <1>1, <1>6, <1>8 DEF Healthy, Arming
    <2> QED
      BY <1>2, <1>6, <1>7, <1>12, <2>1, <2>2, <2>3, <2>4 DEF Healthy, Arming
  <1> QED
    BY <1>9, <1>10, <1>11, <1>13, <1>14, <1>15

\* Time that passes keeps the invariant: it passes only when no task has anything to do.
LEMMA TickStep ==
    ASSUME Inv, Tick
    PROVE  Inv'
  <1> USE DEF Inv
  <1> DEFINE c == Current(me)
             q == Min({ghost.quiet + 1, LongestSilence})
  <1>1. /\ Typed(me) /\ DOMAIN me = Fields /\ DOMAIN ghost = Notes /\ ghost.quiet \in Nat
        /\ me.deadline \in Int /\ me.probes \in Nat /\ cfg \in Cfg /\ Lasting(me.durable) /\ Probes \in Nat
        /\ c \in Nat
    BY LeastInterval, LinkAssumption DEF TypeOK, Typed
  <1>2. UNCHANGED <<cfg, wire, net, peer>>
    BY DEF Tick
  <1> DEFINE epoch == Older(me.epoch)
  <1>3. me' = [me EXCEPT !.deadline = Down(me.deadline), !.wake = Down(me.wake), !.idle = Down(me.idle),
                         !.epoch = epoch]
    BY DEF Tick
  <1>4. ghost' = [ghost EXCEPT !.quiet = q]
    BY DEF Tick
  <1>5. DOMAIN epoch = {"age", "timeout"} /\ epoch.age \in Int
    <2>1. DOMAIN me.epoch = {"age", "timeout"} /\ me.epoch.age \in Int /\ cfg.max \in Int
      BY <1>1, Valid DEF Typed
    <2>2. Min({me.epoch.age + 1, cfg.max}) \in Int
      BY <2>1, MinTwo
    <2> QED
      BY <2>1, <2>2 DEF Older
  <1>6. /\ LongestSilence \in Nat /\ (me.probes + 1) * c <= LongestSilence /\ (me.probes + 1) * c \in Nat
    <2>1. me.probes + 1 \in Nat /\ me.probes + 1 <= Probes
      BY <1>1 DEF Silent
    <2>2. LongestSilence \in Nat /\ (me.probes + 1) * c <= LongestSilence
      BY <1>1, <2>1, Longest DEF Current
    <2> QED
      BY <1>1, <2>1, <2>2
  <1>7. q = IF ghost.quiet + 1 <= LongestSilence THEN ghost.quiet + 1 ELSE LongestSilence
    BY <1>1, <1>6, MinTwo
  <1>8. q \in Nat /\ ghost.quiet <= q /\ q <= LongestSilence
    BY <1>1, <1>6, <1>7 DEF Silent
  <1>9. Down(me.deadline) = (IF me.deadline > 0 THEN me.deadline - 1 ELSE me.deadline) /\ Down(me.deadline) \in Int
    BY <1>1 DEF Down
  <1> HIDE DEF c, q, epoch
  <1>10. /\ Typed(me') /\ me'.deadline = Down(me.deadline) /\ me'.writer = me.writer
         /\ me'.reader = me.reader /\ me'.result = me.result /\ me'.durable = me.durable /\ me'.owed = me.owed
         /\ me'.probes = me.probes /\ me'.chan = me.chan /\ me'.queue = me.queue /\ me'.notify = me.notify
    BY <1>1, <1>3, <1>5, <1>9 DEF Typed, Fields
  <1>11. /\ DOMAIN ghost' = Notes /\ ghost'.quiet = q /\ ghost'.calm = ghost.calm /\ ghost'.early = ghost.early
         /\ ghost'.burnt = ghost.burnt /\ ghost'.owes = ghost.owes /\ ghost'.heard = ghost.heard
    BY <1>1, <1>4 DEF Notes
  <1>12. TypeOK'
    BY <1>1, <1>2, <1>8, <1>10, <1>11 DEF TypeOK
  <1>13. Finished' /\ InStep' /\ Served' /\ Remembered'
    BY <1>2, <1>10, <1>11 DEF Finished, InStep, Aligned, Served, Drains, Remembered, Answers
  <1>14. Current(me)' = c /\ LongestSilence' = LongestSilence
    BY <1>2, <1>10 DEF Current, LongestSilence, c
  <1>15. Silent'
    <2>1. me'.deadline # Off => q + me'.deadline >= (me.probes + 1) * c
      <3>1. SUFFICES ASSUME me'.deadline # Off PROVE q + me'.deadline >= (me.probes + 1) * c
        OBVIOUS
      <3>2. me.deadline \in Nat /\ ghost.quiet + me.deadline >= (me.probes + 1) * c
        BY <1>1, <1>9, <1>10, <3>1 DEF Silent, Off, c
      <3> QED
        BY <1>1, <1>6, <1>7, <1>9, <1>10, <3>2
    <2>2. me'.deadline >= Off /\ (me'.deadline = Off => me'.probes = 0)
      BY <1>1, <1>9, <1>10 DEF Silent, Off
    <2> QED
      BY Zenon, <1>1, <1>2, <1>8, <1>10, <1>11, <1>14, <2>1, <2>2 DEF Silent
  <1>16. TimeoutEarned' /\ HealthyStays'
    <2>1. TimeoutEarned'
      <3>1. SUFFICES ASSUME me'.result = "timeout" PROVE q >= Probes * Least
        BY <1>2, <1>11 DEF TimeoutEarned, Least
      <3>2. ghost.quiet >= Probes * Least
        BY <1>10, <3>1 DEF TimeoutEarned, Least
      <3>3. Probes * Least \in Nat
        BY <1>1, LeastInterval
      <3> QED
        BY <1>1, <1>8, <3>2, <3>3
    <2> QED
      BY <1>10, <1>11, <2>1 DEF HealthyStays
  <1>17. Healthy'
    <2>1. ~Arming(me)
      BY DEF Tick, Rest, WriterRests, Arming
    <2>2. me.reader # "ended" /\ net = "up" => ~Coming
      BY DEF Tick, Rest, ReaderRests, Coming
    <2>3. me'.deadline # Off => me.deadline # Off
      BY <1>9, <1>10 DEF Off
    <2> QED
      BY <1>2, <1>10, <1>11, <2>1, <2>2, <2>3 DEF Healthy, Arming
  <1> QED
    BY <1>12, <1>13, <1>15, <1>16, <1>17

\* A frame of the peer keeps the invariant: it is put behind whole frames.
LEMMA PeerStep ==
    ASSUME Inv, NEW f \in Frames, PeerSends(f)
    PROVE  Inv'
  <1> USE DEF Inv
  <1>1. /\ me.reader # "ended" /\ wire' = wire \o Bytes(f) /\ peer' = [peer EXCEPT !.owes = FALSE]
        /\ UNCHANGED <<cfg, me, net, ghost>>
    BY DEF PeerSends
  <1>2. wire \in Seq(Octets) /\ Reads(me.reader, wire) /\ DOMAIN peer = {"wants", "owes"}
    BY <1>1 DEF InStep, TypeOK
  <1>3. wire' \in Seq(Octets) /\ Reads(me.reader, wire')
    BY <1>1, <1>2, ReadsFrame
  <1>4. DOMAIN peer' = {"wants", "owes"}
    BY <1>1, <1>2
  <1>5. TypeOK' /\ InStep'
    BY <1>1, <1>3, <1>4 DEF TypeOK, InStep, Aligned
  <1>6. Coming'
    <2>1. CASE f = "keepalive"
      <3>1. Len(wire) + 1 \in DOMAIN (wire \o <<"last", "short">>) /\ (wire \o <<"last", "short">>)[Len(wire) + 1] = "last"
        BY <1>2
      <3> QED
        BY <1>1, <2>1, <3>1 DEF Coming, Bytes
    <2>2. CASE f # "keepalive"
      <3>1. /\ Len(wire) + 2 \in DOMAIN (wire \o <<"more", "last", "long">>)
            /\ (wire \o <<"more", "last", "long">>)[Len(wire) + 2] = "last"
        BY <1>2
      <3> QED
        BY Zenon, <1>1, <2>2, <3>1 DEF Coming, Bytes
    <2> QED
      BY <2>1, <2>2
  <1>7. Finished' /\ Served' /\ Remembered' /\ TimeoutEarned' /\ HealthyStays'
    BY <1>1 DEF Finished, Served, Remembered, TimeoutEarned, HealthyStays
  <1>8. Current(me)' = Current(me) /\ LongestSilence' = LongestSilence
    BY <1>1 DEF Current, LongestSilence
  <1>9. Silent'
    BY <1>1, <1>8 DEF Silent
  <1>10. Healthy'
    BY <1>1, <1>6, <1>8 DEF Healthy
  <1> QED
    BY <1>5, <1>7, <1>9, <1>10

\* A network that stalls, closes or recovers keeps the invariant.
LEMMA FaultStep ==
    ASSUME Inv, Fault \/ Resume
    PROVE  Inv'
  <1> USE DEF Inv
  <1>1. cfg' = cfg /\ wire' = wire /\ Typed(me) /\ DOMAIN me = Fields /\ DOMAIN ghost = Notes
    BY DEF Fault, Resume, TypeOK, Typed
  <1>2. DOMAIN peer' = {"wants", "owes"}
    BY DEF Fault, Resume, TypeOK
  <1>3. me' = me \/ me' = [me EXCEPT !.cancel = TRUE]
    BY DEF Fault, Resume
  <1>4. Typed(me') /\ SameReading(me, me') /\ SameWriting(me, me')
    BY <1>1, <1>3 DEF Typed, Fields, SameReading, Rests, SameWriting
  <1>5. ghost' = ghost \/ ghost' = [ghost EXCEPT !.calm = FALSE]
    BY DEF Fault, Resume
  <1>6. /\ DOMAIN ghost' = Notes /\ ghost'.quiet = ghost.quiet /\ ghost'.early = ghost.early
        /\ ghost'.burnt = ghost.burnt /\ ghost'.owes = ghost.owes
    BY <1>1, <1>5 DEF Notes
  <1>7. ~ghost'.calm
    <2>1. CASE Fault
      BY <1>1, <2>1 DEF Fault, Notes
    <2>2. CASE Resume
      BY <2>2 DEF Resume, Healthy
    <2> QED
      BY <2>1, <2>2
  <1>8. TypeOK'
    BY <1>1, <1>2, <1>4, <1>6 DEF TypeOK
  <1>9. Finished' /\ InStep' /\ Served' /\ Remembered'
    BY <1>1, <1>4, <1>6 DEF Finished, InStep, Aligned, Served, Drains, Remembered, Answers, SameReading, Rests, SameWriting
  <1>10. Current(me)' = Current(me) /\ LongestSilence' = LongestSilence
    BY <1>1, <1>4 DEF Current, LongestSilence, SameReading, Rests
  <1>11. Silent' /\ TimeoutEarned' /\ HealthyStays' /\ Healthy'
    BY <1>1, <1>4, <1>6, <1>7, <1>10 DEF Silent, TimeoutEarned, HealthyStays, Healthy, SameReading, Rests
  <1> QED
    BY <1>8, <1>9, <1>11

\* A connection begins as it should, whatever an earlier one has left.
LEMMA Begins ==
    ASSUME NEW d, Lasting(d), NEW b, cfg' \in Cfg, me' = Connected(d), ghost' = Unheard(b),
           wire' = <<>>, net' = "up", peer' = NewPeer, b /\ cfg'.adaptive => d.floor >= cfg'.problem
    PROVE  Inv'
  <1>1. <<"frame", "keepalive">> \in Seq(Msgs)
    BY DEF Msgs, Frames
  <1>2. /\ Typed(me') /\ me'.queue = 0 /\ me'.reader = "length" /\ me'.writer = "select" /\ me'.durable = d
        /\ me'.deadline = Off /\ me'.probes = 0 /\ me'.result = "none"
    <2>1. /\ me'.queue = 0 /\ me'.reader = "length" /\ me'.writer = "select" /\ me'.durable = d
          /\ me'.deadline = Off /\ me'.probes = 0 /\ me'.result = "none"
          /\ me'.chan = <<"frame", "keepalive">> /\ me'.epoch = NoEpoch
      BY Zenon DEF Connected
    <2>2. DOMAIN me' = Fields
      BY Zenon DEF Connected, Fields
    <2>3. DOMAIN NoEpoch = {"age", "timeout"} /\ NoEpoch.age \in Int /\ Off \in Int /\ 0 \in Nat
      BY DEF NoEpoch, Off
    <2>4. Typed(me')
      BY Zenon, <1>1, <2>1, <2>2, <2>3 DEF Typed, Places
    <2> QED
      BY <2>1, <2>4
  <1>3. DOMAIN ghost' = Notes /\ ghost'.quiet = 0 /\ ghost'.burnt = b /\ ghost'.owes = FALSE
    BY DEF Unheard, Notes
  <1>4. DOMAIN peer' = {"wants", "owes"} /\ wire' \in Seq(Octets)
    BY DEF NewPeer
  <1>5. TypeOK'
    BY <1>2, <1>3, <1>4 DEF TypeOK
  <1>6. InStep' /\ Finished'
    BY <1>2, ReadsNone DEF InStep, Aligned, Finished
  <1>7. Served' /\ Remembered' /\ TimeoutEarned' /\ HealthyStays' /\ Healthy'
    BY <1>2, <1>3 DEF Served, Drains, Remembered, TimeoutEarned, HealthyStays, Healthy
  <1>8. LongestSilence' \in Nat
    <2>1. Max({cfg.max, cfg.fixed})' \in Nat
      <3>1. cfg'.max \in Nat /\ cfg'.fixed \in Nat
        BY CfgAssumption
      <3> QED
        BY <3>1, MaxTwo
    <2> QED
      BY <2>1, LinkAssumption DEF LongestSilence
  <1>9. Silent'
    BY <1>2, <1>3, <1>8, LinkAssumption DEF Silent, Off
  <1> QED
    BY <1>5, <1>6, <1>7, <1>9 DEF Inv

\* A new connection of the same peer keeps the invariant.
LEMMA ReconnectStep ==
    ASSUME Inv, Reconnect
    PROVE  Inv'
  <1>1. /\ me' = Connected(me.durable) /\ ghost' = Unheard(ghost.burnt \/ me.result = "timeout")
        /\ wire' = <<>> /\ net' = "up" /\ peer' = NewPeer /\ cfg' = cfg
    BY DEF Reconnect
  <1>2. Lasting(me.durable) /\ cfg \in Cfg
    BY DEF Inv, TypeOK, Typed
  <1>3. (ghost.burnt \/ me.result = "timeout") /\ cfg'.adaptive => me.durable.floor >= cfg'.problem
    BY <1>1 DEF Inv, Silent
  <1> QED
    BY Zenon, <1>1, <1>2, <1>3, Begins

\* The first connection.
LEMMA InvInit == Init => Inv
  <1> SUFFICES ASSUME Init PROVE Inv
    OBVIOUS
  <1> DEFINE d == [floor |-> cfg.min, ewma |-> 0, penalty |-> 0]
  <1>1. /\ cfg \in Cfg /\ me = Connected(d) /\ ghost = Unheard(FALSE) /\ wire = <<>> /\ net = "up"
        /\ peer = NewPeer
    BY DEF Init
  <1>0. cfg \in Cfg /\ net = "up"
    BY <1>1
  <1>2. Lasting(d)
    <2>1. cfg.min \in Int
      BY <1>1, Valid
    <2> QED
      BY <2>1 DEF Lasting
  <1> HIDE DEF d
  <1>3. <<"frame", "keepalive">> \in Seq(Msgs)
    BY DEF Msgs, Frames
  <1>4. /\ Typed(me) /\ me.queue = 0 /\ me.reader = "length" /\ me.writer = "select" /\ me.durable = d
        /\ me.deadline = Off /\ me.probes = 0 /\ me.result = "none"
    <2>1. /\ me.queue = 0 /\ me.reader = "length" /\ me.writer = "select" /\ me.durable = d
          /\ me.deadline = Off /\ me.probes = 0 /\ me.result = "none"
          /\ me.chan = <<"frame", "keepalive">> /\ me.epoch = NoEpoch
      BY Zenon, <1>1 DEF Connected
    <2>2. DOMAIN me = Fields
      BY Zenon, <1>1 DEF Connected, Fields
    <2>3. DOMAIN NoEpoch = {"age", "timeout"} /\ NoEpoch.age \in Int /\ Off \in Int /\ 0 \in Nat
      BY DEF NoEpoch, Off
    <2>4. Typed(me)
      BY Zenon, <1>2, <1>3, <2>1, <2>2, <2>3 DEF Typed, Places
    <2> QED
      BY Zenon, <2>1, <2>4
  <1>5. /\ DOMAIN ghost = Notes /\ ghost.quiet = 0 /\ ghost.burnt = FALSE /\ ghost.owes = FALSE
    BY <1>1 DEF Unheard, Notes
  <1>6. DOMAIN peer = {"wants", "owes"} /\ wire \in Seq(Octets)
    BY <1>1 DEF NewPeer
  <1>7. TypeOK
    BY <1>4, <1>5, <1>6, <1>0 DEF TypeOK
  <1>8. InStep /\ Finished
    BY <1>1, <1>4, ReadsNone DEF InStep, Aligned, Finished
  <1>9. Served /\ Remembered /\ TimeoutEarned /\ HealthyStays /\ Healthy
    BY <1>4, <1>5, <1>0 DEF Served, Drains, Remembered, TimeoutEarned, HealthyStays, Healthy
  <1>10. LongestSilence \in Nat
    BY <1>1, <1>2, LinkAssumption, Longest
  <1>11. Silent
    BY <1>4, <1>5, <1>10, LinkAssumption DEF Silent, Off
  <1> QED
    BY <1>7, <1>8, <1>9, <1>11 DEF Inv

\* Nothing happens.
LEMMA Stutters == Inv /\ UNCHANGED vars => Inv'
  <1> SUFFICES ASSUME Inv, UNCHANGED vars PROVE Inv'
    OBVIOUS
  <1>1. UNCHANGED <<cfg, me, wire, net, peer, ghost>>
    BY DEF vars
  <1>2. TypeOK' /\ Finished' /\ InStep' /\ Served' /\ Remembered' /\ TimeoutEarned' /\ HealthyStays'
    BY <1>1 DEF Inv, TypeOK, Finished, InStep, Aligned, Served, Remembered, TimeoutEarned, HealthyStays
  <1>3. Current(me)' = Current(me) /\ LongestSilence' = LongestSilence /\ Coming' = Coming
    BY <1>1 DEF Current, LongestSilence, Coming
  <1>4. Silent' /\ Healthy'
    BY <1>1, <1>3 DEF Inv, Silent, Healthy
  <1> QED
    BY <1>2, <1>4 DEF Inv

\* Every step keeps the invariant.
LEMMA InvStep == Inv /\ [Next]_vars => Inv'
  <1> SUFFICES ASSUME Inv, [Next]_vars PROVE Inv'
    OBVIOUS
  <1>1. CASE Reader
    <2>1. TypeOK /\ InStep /\ Silent
      BY DEF Inv
    <2>2. ReaderMoves
      BY <1>1, <2>1, CheckMoves, StopMoves, ByteMoves DEF Reader
    <2> QED
      BY <2>2, ReaderStep
  <1>2. CASE Writer
    <2>1. CASE ArmReadDeadline
      BY <2>1, ArmStep
    <2>2. CASE ~ArmReadDeadline
      <3>1. WriterMoves
        BY <1>2, <2>2, SendFrameMoves, ScheduleMoves, NotifiedMoves, IdleMoves, DrainMoves, AnswerMoves,
           StopWritingMoves, RouterMoves DEF Writer
      <3> QED
        BY <3>1, WriterStep
    <2> QED
      BY <2>1, <2>2
  <1>3. CASE Router
    BY <1>3, WriterStep, RouterMoves
  <1>4. CASE \E f \in {"frame", "keepalive"} : PeerSends(f)
    BY <1>4, PeerStep DEF Frames
  <1>5. CASE Fault \/ Resume
    BY <1>5, FaultStep
  <1>6. CASE Tick
    BY <1>6, TickStep
  <1>7. CASE Reconnect
    BY <1>7, ReconnectStep
  <1>8. CASE UNCHANGED vars
    BY <1>8, Stutters
  <1> QED
    BY <1>1, <1>2, <1>3, <1>4, <1>5, <1>6, <1>7, <1>8 DEF Next

\* The invariant of a link holds at all times.
THEOREM InvHolds == Spec => []Inv
  BY InvInit, InvStep, PTL DEF Spec

\* Whatever probes, deadlines, stalls and ends come between the bytes, a length is
\* never read from the middle of a frame (read_uvarint(), peer_reader()).
THEOREM AlignedHolds == Spec => []Aligned
  <1>1. Inv => Aligned
    BY DEF Inv, InStep
  <1> QED
    BY <1>1, InvHolds, PTL

\* The writer of a link never goes to rest with a frame left in the queue, or with
\* a keepalive that it owes the peer (peer_writer(), push_traffic()).
THEOREM NothingForgottenHolds == Spec => []NothingForgotten
  <1>1. Inv => NothingForgotten
    <2> SUFFICES ASSUME Inv, Rest, ~Ended PROVE me.queue = 0 /\ ~ghost.owes
      BY DEF NothingForgotten
    <2>1. CASE me.writer = "ended"
      BY <2>1 DEF Inv, TypeOK, Typed, Served, Remembered, Drains, Answers
    <2>2. CASE me.writer # "ended"
      BY <2>2 DEF Inv, TypeOK, Typed, Served, Remembered, Drains, Answers, Rest, WriterRests
    <2> QED
      BY <2>1, <2>2
  <1> QED
    BY <1>1, InvHolds, PTL

\* No peer is given up before Probes whole intervals without a frame from it have
\* passed, on however many connections and with whatever timeouts in between
\* (peer_reader(), AdaptiveTimeout).
THEOREM TimeoutEarnedHolds == Spec => []TimeoutEarned
  <1>1. Inv => TimeoutEarned
    BY DEF Inv
  <1> QED
    BY <1>1, InvHolds, PTL

\* On a link without faults a peer times out only after an answer that came before
\* its deadline was armed (peer_reader(), peer_writer()).
THEOREM HealthyStaysHolds == Spec => []HealthyStays
  <1>1. Inv => HealthyStays
    BY DEF Inv
  <1> QED
    BY <1>1, InvHolds, PTL
=============================================================================
