----------------------------- MODULE PeerLink -----------------------------
(***************************************************************************)
(* The connection of a node to a peer (peers.rs, peer_timeout.rs): a reader *)
(* and a writer task that share a channel, a traffic queue, a read deadline *)
(* and a cancellation token.  The writer arms the deadline after it has    *)
(* flushed a frame that wants an answer; the reader clears it when the     *)
(* length of any frame has come in, and gives the peer up after Probes     *)
(* intervals of silence.  Every frame but a keepalive is answered, by a    *)
(* keepalive if nothing else is to be sent.                                *)
(*                                                                         *)
(* The peer runs the same code.  It is reduced to what NothingForgotten    *)
(* says of the node itself: it sends what it likes, and does not let time  *)
(* pass while it owes an answer.                                           *)
(*                                                                         *)
(* Time passes in ticks, and only when no task has anything to do: the     *)
(* tasks and the network are fast against the timeouts, except while the   *)
(* network stalls, which it may do between any two bytes.                  *)
(***************************************************************************)
EXTENDS Integers, Sequences, FiniteSetsExt

CONSTANTS Cfg,      \* the values AdaptiveTimeoutConfig may have
          Probes,   \* peer_probe_count
          Idle,     \* IDLE_KEEPALIVE_INTERVAL, in ticks
          Cap,      \* PEER_WRITER_CHANNEL_SIZE
          Drain,    \* MAX_DRAIN_PER_ITER
          Setting   \* bounds: how many frames and packets the router sends, how many
                    \* frames the peer sends that want an answer (inbound), how many
                    \* faults there are, and how many connections (conns), one by one

(***************************************************************************)
(* peer_timeout.rs.  The durable state, kept by key, survives the connection. *)
(***************************************************************************)
\* validate(); a configuration that fails it is refused at start.
Validate(c) ==
    /\ c.mult >= 1
    /\ c.max >= c.min
    /\ c.adaptive => c.max >= c.problem /\ c.problem >= c.min
    /\ ~c.adaptive => c.fixed > 0
    /\ c.min > 0

ASSUME CfgAssumption ==
    /\ Cfg \subseteq [adaptive : BOOLEAN, fixed : Nat, min : Nat, problem : Nat, max : Nat,
                     base : Nat, mult : Nat, step : Nat, decay : Nat]
    /\ \A c \in Cfg : Validate(c)
ASSUME LinkAssumption ==
    /\ Probes \in Nat \ {0} /\ Cap \in Nat \ {0} /\ Drain \in Nat \ {0}
    /\ Idle \in Nat
    /\ Setting \subseteq [frames : Nat, packets : Nat, inbound : Nat, faults : Nat, conns : Nat]

Clamp(x, lo, hi) == Min({Max({x, lo}), hi})

\* compute(): the length of an interval.
Compute(c, d) ==
    LET floor == Clamp(d.floor, c.min, c.max)
        fromRtt == IF d.ewma = 0 THEN floor ELSE c.base + c.mult * d.ewma
    IN  IF c.adaptive THEN Clamp(fromRtt + d.penalty, floor, c.max) ELSE c.fixed

\* on_timeout(): the sticky floor and the penalty go up.
OnTimeout(c, d) ==
    IF c.adaptive
    THEN [d EXCEPT !.floor = Max({@, c.problem}), !.penalty = Min({@ + c.step, c.max})]
    ELSE d

\* observe_sample(): the time from arming to the first frame.
ObserveSample(c, d, sample) ==
    LET s == Min({sample, c.max}) IN
    IF ~c.adaptive \/ s = 0 THEN d
    ELSE [d EXCEPT !.ewma = IF @ = 0 THEN s ELSE (@ * 7 + s) \div 8,
                   !.penalty = Max({@ - c.decay, 0})]

VARIABLES cfg,    \* the configuration
          me,     \* the two tasks and what they share
          wire,   \* bytes in flight to the reader
          net,    \* "up", "stalled" or "closed"
          peer,   \* owes: the peer owes an answer; wants: it will, once the frames reach
                  \* it that were written while the network stalls
          left,   \* what the bounds still allow
          ghost   \* history, for the properties
vars == <<cfg, me, wire, net, peer, left, ghost>>

(***************************************************************************)
(* The tasks.  writer is where the writer stands in its loop: at the select,  *)
(* with a frame flushed ("arm"), before or after draining traffic          *)
(* ("drain", "armTraffic", "answer").  reader says what is read next: a    *)
(* length, the rest of one ("partial"), or a body.                         *)
(***************************************************************************)
Off == -1
NoEpoch == [age |-> 0, timeout |-> Off]

\* handle_conn_with_id(): the router has queued its first frames for the peer,
\* and a keepalive follows them.
Connected(d) ==
    [chan |-> <<"frame", "keepalive">>, \* the writer's channel
     spill |-> 0,           \* frames of tasks that wait for room in the channel
     queue |-> 0,           \* packets in the traffic queue
     notify |-> FALSE,      \* the permit of traffic_notify
     writer |-> "select",
     buffer |-> {},         \* frames that a failed flush left in the BufWriter
     owed |-> FALSE,        \* keepalive_owed
     idle |-> Idle,         \* ticks to the proactive keepalive
     reader |-> "length",
     deadline |-> Off,      \* ticks to read_deadline
     epoch |-> NoEpoch,     \* ticks since arming, and the timeout armed
     wake |-> 0,            \* ticks to the reader's next look at the deadline
     probes |-> 0,          \* probes_sent
     result |-> "none",     \* why the reader ended
     cancel |-> FALSE,      \* the cancellation token
     durable |-> d]         \* floor, ewma and penalty, kept for the peer's key

\* quiet: ticks without a frame; owes: nothing was sent since a frame that wants
\* an answer came in; heard: a frame came in since the last flush; early: the
\* deadline was armed after the answer had come; calm: the connection has had no
\* fault; burnt: the peer timed out on an earlier one.
Unheard(b) ==
    [quiet |-> 0, owes |-> FALSE, heard |-> FALSE, early |-> FALSE, calm |-> TRUE, burnt |-> b]

NewPeer == [wants |-> FALSE, owes |-> FALSE]

Init ==
    /\ cfg \in Cfg
    /\ me = Connected([floor |-> cfg.min, ewma |-> 0, penalty |-> 0])
    /\ wire = <<>>
    /\ net = "up"
    /\ peer = NewPeer
    /\ left \in Setting
    /\ ghost = Unheard(FALSE)

Current(s) == Compute(cfg, s.durable)

\* try_send() of ScheduleKeepalive: dropped when the channel is full or closed.
Schedule(s) ==
    IF Len(s.chan) < Cap /\ s.writer # "ended" THEN [s EXCEPT !.chan = Append(@, "schedule")] ELSE s

\* The two tasks end; each cancels the token that the other looks at.
EndReader(s, why) ==
    [s EXCEPT !.reader = "ended", !.result = why, !.cancel = TRUE, !.deadline = Off,
              !.epoch = NoEpoch, !.wake = 0, !.probes = 0]
EndWriter(s) ==
    [s EXCEPT !.writer = "ended", !.cancel = TRUE, !.chan = <<>>, !.spill = 0, !.queue = 0,
              !.notify = FALSE, !.buffer = {}, !.owed = FALSE, !.idle = 0]

(***************************************************************************)
(* Bytes.  A keepalive is short: one byte of length, then the body.  Other *)
(* frames have a length of two bytes, the first with the continuation bit. *)
(***************************************************************************)
Bytes(f) == IF f = "keepalive" THEN <<"last", "short">> ELSE <<"more", "last", "long">>

(***************************************************************************)
(* The reader.                                                             *)
(***************************************************************************)
Reading(s) == s.reader \in {"length", "partial"}

\* The head of the poll loop.  When the deadline is over, the reader probes the
\* peer, or gives it up at the last probe; what it has read of a length is kept.
\* Mutant: a probe starts to read the length anew.
LookRestart(s) ==
    LET interval == IF s.epoch = NoEpoch THEN Current(s) ELSE s.epoch.timeout
    IN  CASE s.deadline = Off -> [s EXCEPT !.wake = interval]
          [] s.deadline > 0 -> [s EXCEPT !.wake = s.deadline]
          [] s.deadline = 0 /\ s.probes + 1 >= Probes ->
               EndReader([s EXCEPT !.durable = OnTimeout(cfg, @)], "timeout")
          [] OTHER -> Schedule([s EXCEPT !.probes = @ + 1, !.deadline = Current(s),
                                         !.wake = Current(s), !.reader = "length"])

\* Mutant: the probes are not counted.
LookUncounted(s) ==
    LET interval == IF s.epoch = NoEpoch THEN Current(s) ELSE s.epoch.timeout
    IN  CASE s.deadline = Off -> [s EXCEPT !.wake = interval]
          [] s.deadline > 0 -> [s EXCEPT !.wake = s.deadline]
          [] OTHER -> Schedule([s EXCEPT !.deadline = Current(s), !.wake = Current(s)])

Look(s) ==
    LET interval == IF s.epoch = NoEpoch THEN Current(s) ELSE s.epoch.timeout
    IN  CASE s.deadline = Off -> [s EXCEPT !.wake = interval]
          [] s.deadline > 0 -> [s EXCEPT !.wake = s.deadline]
          [] s.deadline = 0 /\ s.probes + 1 >= Probes ->
               EndReader([s EXCEPT !.durable = OnTimeout(cfg, @)], "timeout")
          [] OTHER -> Schedule([s EXCEPT !.probes = @ + 1, !.deadline = Current(s),
                                         !.wake = Current(s)])

\* clear_on_reply(), and the probes are forgiven.
\* Mutant: the probes are not forgiven.
GotLengthProbed(s, size) ==
    [s EXCEPT !.reader = size, !.deadline = Off, !.epoch = NoEpoch, !.wake = 0,
              !.durable = IF s.epoch = NoEpoch THEN @ ELSE ObserveSample(cfg, @, s.epoch.age)]

GotLength(s, size) ==
    [s EXCEPT !.reader = size, !.deadline = Off, !.epoch = NoEpoch, !.wake = 0, !.probes = 0,
              !.durable = IF s.epoch = NoEpoch THEN @ ELSE ObserveSample(cfg, @, s.epoch.age)]

\* What the reader makes of byte b.  A length is taken for what its bytes say;
\* any other byte at the wrong place is garbage and ends the connection.
Take(s, b) ==
    CASE s.reader = "length" /\ b = "more" -> [s EXCEPT !.reader = "partial"]
      [] s.reader = "length" /\ b = "last" -> GotLength(s, "short")
      [] s.reader = "partial" /\ b = "last" -> GotLength(s, "long")
      [] s.reader = "short" /\ b = "short" -> Look([s EXCEPT !.reader = "length"])
      [] s.reader = "long" /\ b = "long" -> Look(Schedule([s EXCEPT !.reader = "length"]))
      [] OTHER -> EndReader(s, "decode")

ReadByte ==
    LET b == Head(wire) IN
    /\ me.reader # "ended"
    /\ net # "stalled"
    /\ wire # <<>>
    /\ wire' = Tail(wire)
    /\ me' = Take(me, b)
    /\ ghost' = CASE b = "last" -> [ghost EXCEPT !.quiet = 0, !.heard = TRUE, !.early = FALSE]
                  [] b = "long" -> [ghost EXCEPT !.owes = me.writer # "ended"]
                  [] OTHER -> ghost
    /\ UNCHANGED <<cfg, net, peer, left>>

\* The reader's sleep is over.
Check ==
    /\ Reading(me)
    /\ me.wake = 0
    /\ me' = Look(me)
    /\ UNCHANGED <<cfg, wire, net, peer, left, ghost>>

\* The token is cancelled, or the transport is closed and the read fails.
StopReading ==
    /\ me.reader # "ended"
    /\ \/ me.cancel /\ me' = EndReader(me, "clean")
       \/ net = "closed" /\ me' = EndReader(me, "io")
    /\ wire' = <<>>
    /\ UNCHANGED <<cfg, net, peer, left, ghost>>

(***************************************************************************)
(* The writer.                                                             *)
(***************************************************************************)
\* A write with its flush, which also sends what an earlier flush has left in
\* the buffer.  While the network stalls the transport may take it or be full,
\* and then the write fails after WRITE_TIMEOUT.
Pending(frames) == me.buffer \cup frames
CanFail(frames) == net # "up" /\ Pending(frames) # {}

Flush(frames) ==
    LET wants == "frame" \in Pending(frames) IN
    /\ peer' = IF net = "stalled"
               THEN [peer EXCEPT !.wants = @ \/ wants]
               ELSE [peer EXCEPT !.owes = @ \/ wants]
    /\ ghost' = IF Pending(frames) = {} THEN ghost
                ELSE [ghost EXCEPT !.owes = FALSE, !.heard = FALSE]

\* The writer writes frames and goes on as s, or fails and ends.
Write(frames, s) ==
    \/ Flush(frames) /\ me' = [s EXCEPT !.buffer = {}]
    \/ /\ CanFail(frames)
       /\ me' = EndWriter(me)
       /\ ghost' = [ghost EXCEPT !.owes = FALSE]
       /\ UNCHANGED peer

AtSelect == me.writer = "select" /\ ~me.cancel

\* needs_deadline: a frame that is not a keepalive arms the deadline.
\* Mutant: every frame does.
AfterFrameArm(f) == "arm"

AfterFrame(f) == IF f = "keepalive" THEN "drain" ELSE "arm"

\* The writer gets a frame from its channel, which goes before everything else.
SendFrame ==
    LET f == Head(me.chan) IN
    /\ AtSelect
    /\ me.chan # <<>>
    /\ f # "schedule"
    /\ Write({f}, [me EXCEPT !.chan = Tail(@), !.owed = FALSE, !.writer = AfterFrame(f)])
    /\ UNCHANGED <<cfg, wire, net, left>>

\* ScheduleKeepalive takes all that is in the channel with it, and writes the
\* frames among it without arming the deadline.  A write that fails (of message
\* i) ends only this inner loop, and its frame stays in the buffer.
ScheduleKeepalive ==
    LET frames(i) == {me.chan[j] : j \in 1..i} \ {"schedule"}
        WriteFirst(i, next, failed) ==
            /\ IF frames(i) = {} THEN UNCHANGED <<peer, ghost>> ELSE Flush(frames(i))
            /\ me' = [me EXCEPT
                        !.writer = "drain",
                        !.owed = me.chan[i] = "schedule",
                        !.chan = SubSeq(@, next, Len(@)),
                        !.buffer = (IF frames(i) = {} THEN @ ELSE {}) \cup failed]
    IN
    /\ AtSelect
    /\ me.chan # <<>>
    /\ Head(me.chan) = "schedule"
    /\ \/ WriteFirst(Len(me.chan), Len(me.chan) + 1, {})
       \/ \E i \in {j \in 2..Len(me.chan) : me.chan[j] # "schedule"} :
            net # "up" /\ WriteFirst(i - 1, i + 1, {me.chan[i]})
    /\ UNCHANGED <<cfg, wire, net, left>>

\* traffic_notify.
Notified ==
    /\ AtSelect
    /\ me.chan = <<>>
    /\ me.notify
    /\ me' = [me EXCEPT !.notify = FALSE, !.writer = "drain"]
    /\ UNCHANGED <<cfg, wire, net, peer, left, ghost>>

\* The proactive keepalive.
IdleKeepalive ==
    /\ AtSelect
    /\ me.chan = <<>> /\ ~me.notify
    /\ me.idle = 0
    /\ Write({"keepalive"}, [me EXCEPT !.owed = FALSE, !.idle = Idle])
    /\ UNCHANGED <<cfg, wire, net, left>>

\* arm_read_deadline(), after a flush has returned: a deadline that is already
\* armed stays.  Between flush and arming the reader may have got the answer.
ArmReadDeadline ==
    /\ me.writer \in {"arm", "armTraffic"}
    /\ me' = [me EXCEPT
                !.deadline = IF @ = Off THEN Current(me) ELSE @,
                !.epoch = IF me.deadline = Off THEN [age |-> 0, timeout |-> Current(me)] ELSE @,
                !.owed = FALSE,
                !.writer = IF @ = "arm" THEN "drain" ELSE "answer"]
    /\ ghost' = [ghost EXCEPT !.early = @ \/ (me.deadline = Off /\ ghost.heard)]
    /\ UNCHANGED <<cfg, wire, net, peer, left>>

\* drain_traffic_queue(), unless the channel has filled again: a batch of
\* traffic is written.  pop_codel() may drop packets, but returns one as long as
\* there is one.  A full batch notifies the writer again.
Batches ==
    {b \in (0..Min({me.queue, Drain})) \X (0..me.queue) :
        /\ b[1] = 0 <=> me.queue = 0
        /\ b[1] + b[2] <= me.queue
        /\ b[1] < Drain => b[2] = 0}

\* Mutant: a full batch does not notify the writer again.
DrainedQuietly(n, rest) ==
    [me EXCEPT !.queue = rest, !.writer = IF n = 0 THEN "answer" ELSE "armTraffic"]

Drained(n, rest) ==
    [me EXCEPT !.queue = rest, !.writer = IF n = 0 THEN "answer" ELSE "armTraffic",
               !.notify = @ \/ n = Drain]

DrainTrafficQueue ==
    /\ me.writer = "drain"
    /\ IF me.chan # <<>>
       THEN me' = [me EXCEPT !.writer = "answer"] /\ UNCHANGED <<peer, ghost>>
       ELSE \E b \in Batches : Write(IF b[1] = 0 THEN {} ELSE {"frame"}, Drained(b[1], b[2]))
    /\ UNCHANGED <<cfg, wire, net, left>>

\* The end of the loop: a keepalive, if an answer is owed and nothing waits in
\* the channel that will be one.
Answer ==
    LET s == [me EXCEPT !.writer = "select", !.idle = Idle] IN
    /\ me.writer = "answer"
    /\ IF s.owed /\ s.chan = <<>>
       THEN Write({"keepalive"}, [s EXCEPT !.owed = FALSE])
       ELSE me' = s /\ UNCHANGED <<peer, ghost>>
    /\ UNCHANGED <<cfg, wire, net, left>>

StopWriting ==
    /\ me.writer = "select"
    /\ me.cancel
    /\ me' = EndWriter(me)
    /\ ghost' = [ghost EXCEPT !.owes = FALSE]
    /\ UNCHANGED <<cfg, wire, net, peer, left>>

(***************************************************************************)
(* The router, and tasks that wait for room in the channel.                *)
(***************************************************************************)
\* send_to_peer().
RouterFrame ==
    /\ left.frames > 0 /\ left' = [left EXCEPT !.frames = @ - 1]
    /\ me.writer # "ended"
    /\ me' = IF Len(me.chan) < Cap THEN [me EXCEPT !.chan = Append(@, "frame")]
             ELSE [me EXCEPT !.spill = @ + 1]
    /\ UNCHANGED <<cfg, wire, net, peer, ghost>>

Unspill ==
    /\ me.spill > 0
    /\ Len(me.chan) < Cap
    /\ me' = [me EXCEPT !.spill = @ - 1, !.chan = Append(@, "frame")]
    /\ UNCHANGED <<cfg, wire, net, peer, left, ghost>>

\* send_traffic_to_peers_batch(), for this peer.
RouterTraffic ==
    /\ left.packets > 0 /\ left' = [left EXCEPT !.packets = @ - 1]
    /\ me.writer # "ended"
    /\ me' = [me EXCEPT !.queue = @ + 1, !.notify = TRUE]
    /\ UNCHANGED <<cfg, wire, net, peer, ghost>>

(***************************************************************************)
(* The peer, faults and time.                                              *)
(***************************************************************************)
\* The peer sends a frame, which is an answer too, or a keepalive.
PeerSends(f) ==
    /\ net # "closed" /\ me.reader # "ended"
    /\ wire = <<>> \/ peer.owes
    /\ f = "frame" => left.inbound > 0
    /\ left' = IF f = "frame" THEN [left EXCEPT !.inbound = @ - 1] ELSE left
    /\ wire' = wire \o Bytes(f)
    /\ peer' = [peer EXCEPT !.owes = FALSE]
    /\ UNCHANGED <<cfg, me, net, ghost>>

Fault ==
    /\ left.faults > 0 /\ left' = [left EXCEPT !.faults = @ - 1]
    /\ ghost' = [ghost EXCEPT !.calm = FALSE]
    /\ UNCHANGED <<cfg, wire, peer>>
    /\ \/ net = "up" /\ net' = "stalled" /\ UNCHANGED me
       \/ net # "closed" /\ net' = "closed" /\ UNCHANGED me
       \/ \* close(), or the link is taken down from above
          ~me.cancel /\ me' = [me EXCEPT !.cancel = TRUE] /\ UNCHANGED net

Resume ==
    /\ net = "stalled" /\ net' = "up"
    /\ peer' = [wants |-> FALSE, owes |-> peer.owes \/ peer.wants]
    /\ UNCHANGED <<cfg, me, wire, left, ghost>>

\* No task has anything to do before time passes.
WriterRests ==
    \/ me.writer = "ended"
    \/ /\ me.writer = "select" /\ ~me.cancel
       /\ me.chan = <<>> /\ me.spill = 0 /\ ~me.notify /\ me.idle > 0
ReaderRests ==
    \/ me.reader = "ended"
    \/ /\ ~me.cancel /\ net # "closed"
       /\ net = "up" => wire = <<>> /\ ~peer.owes
       /\ Reading(me) => me.wake > 0
Rest == WriterRests /\ ReaderRests

Ended == me.reader = "ended" /\ me.writer = "ended"

LongestSilence == Probes * Max({cfg.max, cfg.fixed})
Down(x) == IF x > 0 THEN x - 1 ELSE x
Older(e) == IF e = NoEpoch THEN e ELSE [e EXCEPT !.age = Min({@ + 1, cfg.max})]

Tick ==
    /\ Rest /\ ~Ended
    /\ me' = [me EXCEPT
                !.deadline = Down(@), !.wake = Down(@), !.idle = Down(@),
                !.epoch = Older(@)]
    /\ ghost' = [ghost EXCEPT !.quiet = Min({@ + 1, LongestSilence})]
    /\ UNCHANGED <<cfg, wire, net, peer, left>>

\* A new connection to the same peer; ctrl_for() finds the durable state.
Reconnect ==
    /\ left.conns > 1 /\ left' = [left EXCEPT !.conns = @ - 1]
    /\ Ended
    /\ me' = Connected(me.durable)
    /\ ghost' = Unheard(ghost.burnt \/ me.result = "timeout")
    /\ wire' = <<>>
    /\ net' = "up"
    /\ peer' = NewPeer
    /\ UNCHANGED cfg

Reader == ReadByte \/ Check \/ StopReading
Writer ==
    \/ SendFrame \/ ScheduleKeepalive \/ Notified \/ IdleKeepalive
    \/ ArmReadDeadline \/ DrainTrafficQueue \/ Answer \/ StopWriting \/ Unspill
Router == RouterFrame \/ RouterTraffic

Next ==
    \/ Reader \/ Writer \/ Router
    \/ \E f \in {"frame", "keepalive"} : PeerSends(f)
    \/ Fault \/ Resume \/ Tick \/ Reconnect

Spec == Init /\ [][Next]_vars

\* Tasks run, and time passes when they rest.
FairSpec == Spec /\ WF_vars(Tick \/ Reader \/ Writer)

(***************************************************************************)
(* Properties.                                                             *)
(***************************************************************************)
\* The reader never loses its place in the stream: whatever probes, deadlines and
\* stalls come between the bytes of a length, the frames of a correct peer do not
\* turn to garbage (the read future is pinned across the checks of the deadline).
Aligned == me.result # "decode"

\* When both tasks rest, the traffic queue is empty and the peer is owed no answer.
\* The permit of traffic_notify is one bit, a full batch leaves traffic behind, a
\* keepalive that is owed may be put off in favour of frames, and its request may
\* be dropped at a full channel.
NothingForgotten == Rest /\ ~Ended => me.queue = 0 /\ ~ghost.owes

\* A peer is given up only after Probes whole intervals without a frame from it; a
\* shorter stall never costs the link.  With adaptive timeouts the intervals are
\* those of the sticky floor, once the peer timed out on an earlier connection.
TimeoutEarned ==
    me.result = "timeout" =>
        ghost.quiet >= Probes * (IF ~cfg.adaptive THEN cfg.fixed
                                 ELSE IF ghost.burnt THEN cfg.problem ELSE cfg.min)

\* On a link that works all the time the peer does not time out, although probes
\* are keepalives that it does not answer.  There is one exception: the reader got
\* the answer before the writer, back from its flush, armed the deadline for it.
HealthyStays == me.result = "timeout" /\ ghost.calm => ghost.early

\* A peer from which nothing comes any more is given up, if the deadline is armed
\* and the silence did not begin inside a frame: no deadline is checked while the
\* reader waits for a body.
SilenceEnds == [](me.deadline # Off /\ Reading(me) /\ [](net = "stalled") => <>Ended)
=============================================================================
