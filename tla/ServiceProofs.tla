--------------------------- MODULE ServiceProofs ---------------------------
(***************************************************************************)
(* For any timeouts, sizes of channels, servers and configurations: a      *)
(* question to another node is not cancelled without reason, and the files *)
(* of route lists are what was downloaded.                                 *)
(***************************************************************************)
EXTENDS Proto, RouteLists, TLAPS

(***************************************************************************)
(* Questions.                                                              *)
(***************************************************************************)
\* The age of a callback is the time that its call has spent, in the wait for
\* a place and in the wait for the answer.
CallsKept ==
    /\ calls \in [Call -> [pc : {"new"}]
                          \cup [pc : {"send", "wait", "returned"}, kind : Kind, node : Remote,
                                got : {"nothing", "answer", "cancel"}, beaten : BOOLEAN, held : Nat, left : Nat]]
    /\ \A q \in DOMAIN callbacks :
         /\ callbacks[q].call \in Call /\ callbacks[q].age \in Nat
         /\ calls[callbacks[q].call].pc # "new"
         /\ Open(callbacks[q].call) =>
              callbacks[q].age + calls[callbacks[q].call].left <= calls[callbacks[q].call].held + RequestTimeout

\* No question has been asked.
LEMMA CallsInit == ProtoInit => CallsKept /\ CancelEarned
<1> SUFFICES ASSUME ProtoInit PROVE CallsKept /\ CancelEarned
    OBVIOUS
<1>1. calls \in [Call -> [pc : {"new"}]] /\ DOMAIN callbacks = {}
    BY DEF ProtoInit
<1> QED
    BY <1>1 DEF CallsKept, CancelEarned

\* A call that is told that its callback is gone is one that waited, and
\* nothing else of it changes.
LEMMA CancelChanges ==
    ASSUME CallsKept, NEW gone \in SUBSET (DOMAIN callbacks), NEW beaten \in BOOLEAN, NEW c \in Call
    PROVE  \/ Cancel(gone, beaten)[c] = calls[c]
           \/ /\ Open(c) /\ \E q \in gone : callbacks[q].call = c
              /\ Cancel(gone, beaten)[c] = [calls[c] EXCEPT !.got = "cancel", !.beaten = beaten]
    BY DEF Cancel

\* The record of a call that is no longer new.
LEMMA AskedCall ==
    ASSUME CallsKept, NEW c \in Call, calls[c].pc # "new"
    PROVE  calls[c] \in [pc : {"send", "wait", "returned"}, kind : Kind, node : Remote,
                         got : {"nothing", "answer", "cancel"}, beaten : BOOLEAN, held : Nat, left : Nat]
    BY DEF CallsKept

\* Each step of a call, of the tasks that send and handle, and of the cleanup.
LEMMA CallsStep == CallsKept /\ CancelEarned /\ [ProtoNext \/ \E m \in abroad : Dispatch(m)]_protoVars
                   => CallsKept' /\ CancelEarned'
<1> SUFFICES ASSUME CallsKept, CancelEarned, [ProtoNext \/ \E m \in abroad : Dispatch(m)]_protoVars
             PROVE  CallsKept' /\ CancelEarned'
    OBVIOUS
<1> DEFINE Rec == [pc : {"send", "wait", "returned"}, kind : Kind, node : Remote,
                   got : {"nothing", "answer", "cancel"}, beaten : BOOLEAN, held : Nat, left : Nat]
<1>p. RequestTimeout \in Nat /\ CallbackTimeout \in Nat
    BY ProtoAssumption
<1>1. ASSUME NEW c \in Call, NEW kind \in Kind, NEW node \in Remote, Register(c, kind, node)
      PROVE  CallsKept' /\ CancelEarned'
  <2> DEFINE gone == {<<kind, node>>} \cap DOMAIN callbacks
             new == [pc |-> "send", kind |-> kind, node |-> node, got |-> "nothing",
                     beaten |-> FALSE, held |-> 0, left |-> RequestTimeout]
  <2>1. /\ calls' = [Cancel(gone, TRUE) EXCEPT ![c] = new] /\ calls[c].pc = "new"
        /\ callbacks' = Put(callbacks, <<kind, node>>, [call |-> c, age |-> 0])
      BY <1>1 DEF Register
  <2>2. DOMAIN Cancel(gone, TRUE) = Call
      BY DEF Cancel
  <2>3. calls'[c] = new /\ \A b \in Call : b # c => calls'[b] = Cancel(gone, TRUE)[b]
      BY <2>1, <2>2
  <2>4. ASSUME NEW b \in Call, b # c
        PROVE  \/ calls'[b] = calls[b]
               \/ Open(b) /\ calls[b] \in Rec /\ calls'[b] = [calls[b] EXCEPT !.got = "cancel", !.beaten = TRUE]
    <3>1. \/ Cancel(gone, TRUE)[b] = calls[b]
          \/ Open(b) /\ Cancel(gone, TRUE)[b] = [calls[b] EXCEPT !.got = "cancel", !.beaten = TRUE]
        BY CancelChanges
    <3>2. Open(b) => calls[b] \in Rec
        BY AskedCall DEF Open
    <3> QED
        BY <2>3, <2>4, <3>1, <3>2
  <2>5. new \in Rec
      BY <1>p
  <2>6. calls' \in [Call -> [pc : {"new"}] \cup Rec]
    <3>1. ASSUME NEW b \in Call PROVE calls'[b] \in [pc : {"new"}] \cup Rec
      <4>1. CASE b = c
          BY <2>3, <2>5, <4>1
      <4>2. CASE calls'[b] = calls[b]
          BY <4>2 DEF CallsKept
      <4>3. CASE calls[b] \in Rec /\ calls'[b] = [calls[b] EXCEPT !.got = "cancel", !.beaten = TRUE]
          BY <4>3
      <4> QED
          BY <2>4, <4>1, <4>2, <4>3
    <3>2. calls' = [b \in Call |-> calls'[b]]
        BY <2>1, <2>2
    <3> QED
        BY <3>1, <3>2
  <2>7. ASSUME NEW q \in DOMAIN callbacks', NEW b, b = callbacks'[q].call
        PROVE  /\ b \in Call /\ callbacks'[q].age \in Nat
               /\ calls'[b].pc # "new"
               /\ Open(b)' => callbacks'[q].age + calls'[b].left <= calls'[b].held + RequestTimeout
    <3>1. CASE q = <<kind, node>>
      <4>1. callbacks'[q] = [call |-> c, age |-> 0]
          BY <2>1, <3>1 DEF Put
      <4> QED
          BY <1>p, <2>3, <2>7, <4>1
    <3>2. CASE q # <<kind, node>>
      <4>1. q \in DOMAIN callbacks /\ callbacks'[q] = callbacks[q]
          BY <2>1, <3>2 DEF Put
      <4>2. b # c /\ b \in Call /\ b = callbacks[q].call
          BY <2>1, <2>7, <4>1 DEF CallsKept
      <4>3. CASE calls'[b] = calls[b]
          BY <4>1, <4>2, <4>3 DEF CallsKept, Open
      <4>4. CASE Open(b) /\ calls[b] \in Rec /\ calls'[b] = [calls[b] EXCEPT !.got = "cancel", !.beaten = TRUE]
        <5>1. calls'[b].got = "cancel" /\ calls'[b].pc = calls[b].pc
            BY <4>4
        <5> QED
            BY <4>1, <4>2, <5>1 DEF CallsKept, Open
      <4> QED
          BY <2>4, <4>2, <4>3, <4>4
    <3> QED
        BY <3>1, <3>2
  <2>8. CancelEarned'
    <3>1. ASSUME NEW b \in Call, calls'[b].pc # "new", calls'[b].got = "cancel"
          PROVE  calls'[b].beaten \/ calls'[b].held >= CallbackTimeout - RequestTimeout
      <4>1. b # c
          BY <2>3, <3>1
      <4> QED
          BY <2>4, <3>1, <4>1 DEF CancelEarned
    <3> QED
        BY <3>1 DEF CancelEarned
  <2> QED
      BY <2>6, <2>7, <2>8 DEF CallsKept
<1>2. ASSUME NEW c \in Call, SendRequest(c) \/ Return(c) PROVE CallsKept' /\ CancelEarned'
  <2>1. callbacks' = callbacks /\ calls[c].pc \in {"send", "wait"}
      BY <1>2 DEF SendRequest, Return, Due
  <2>2. PICK pc \in {"wait", "returned"} : calls' = [calls EXCEPT ![c].pc = pc]
      BY <1>2 DEF SendRequest, Return
  <2>3. calls[c] \in Rec
      BY <2>1, AskedCall
  <2>4. calls'[c] = [calls[c] EXCEPT !.pc = pc] /\ \A b \in Call : b # c => calls'[b] = calls[b]
      BY <2>2 DEF CallsKept
  <2>5. calls' \in [Call -> [pc : {"new"}] \cup Rec]
      BY <2>2, <2>3 DEF CallsKept
  <2>6. ASSUME NEW b \in Call
        PROVE  /\ calls'[b].pc = "new" <=> calls[b].pc = "new"
               /\ calls[b].pc # "new" => /\ calls'[b].got = calls[b].got /\ calls'[b].beaten = calls[b].beaten
                                         /\ calls'[b].held = calls[b].held /\ calls'[b].left = calls[b].left
               /\ Open(b)' => Open(b)
      BY <2>1, <2>3, <2>4 DEF Open
  <2>7. ASSUME NEW q \in DOMAIN callbacks, NEW b, b = callbacks[q].call
        PROVE  /\ b \in Call /\ callbacks[q].age \in Nat
               /\ calls'[b].pc # "new"
               /\ Open(b)' => callbacks[q].age + calls'[b].left <= calls'[b].held + RequestTimeout
      BY <2>6, <2>7 DEF CallsKept
  <2> QED
      BY <2>1, <2>5, <2>6, <2>7 DEF CallsKept, CancelEarned
<1>3. CASE calls' = calls /\ callbacks' = callbacks
    BY <1>3 DEF CallsKept, CancelEarned, Open
<1>4. ASSUME NEW m, Answered(m) PROVE CallsKept' /\ CancelEarned'
  <2>1. ASSUME NEW b \in Call
        PROVE  calls'[b] = calls[b] \/ (calls[b] \in Rec /\ Open(b) /\ calls'[b] = [calls[b] EXCEPT !.got = "answer"])
    <3>1. Open(b) => calls[b] \in Rec
        BY AskedCall DEF Open
    <3> QED
        BY <1>4, <3>1 DEF Answered
  <2>2. calls' \in [Call -> [pc : {"new"}] \cup Rec]
    <3>1. ASSUME NEW b \in Call PROVE calls'[b] \in [pc : {"new"}] \cup Rec
      <4>1. calls[b] \in [pc : {"new"}] \cup Rec
          BY DEF CallsKept
      <4>2. calls[b] \in Rec => [calls[b] EXCEPT !.got = "answer"] \in Rec
          OBVIOUS
      <4> QED
          BY <2>1, <4>1, <4>2
    <3>2. calls' = [b \in Call |-> calls'[b]]
        BY <1>4 DEF Answered
    <3> QED
        BY <3>1, <3>2
  <2>3. \A q \in DOMAIN callbacks' : q \in DOMAIN callbacks /\ callbacks'[q] = callbacks[q]
      BY <1>4 DEF Answered, Restrict
  <2>4. ASSUME NEW q \in DOMAIN callbacks', NEW b, b = callbacks'[q].call
        PROVE  /\ b \in Call /\ callbacks'[q].age \in Nat
               /\ calls'[b].pc # "new"
               /\ Open(b)' => callbacks'[q].age + calls'[b].left <= calls'[b].held + RequestTimeout
    <3>1. q \in DOMAIN callbacks /\ callbacks'[q] = callbacks[q] /\ b = callbacks[q].call /\ b \in Call
        BY <2>3, <2>4 DEF CallsKept
    <3>2. CASE calls'[b] = calls[b]
        BY <3>1, <3>2 DEF CallsKept, Open
    <3>3. CASE calls[b] \in Rec /\ calls'[b] = [calls[b] EXCEPT !.got = "answer"]
      <4>1. calls'[b].got = "answer" /\ calls'[b].pc = calls[b].pc
          BY <3>3
      <4> QED
          BY <3>1, <4>1 DEF CallsKept, Open
    <3> QED
        BY <2>1, <3>1, <3>2, <3>3
  <2>5. ASSUME NEW b \in Call, calls'[b].pc # "new", calls'[b].got = "cancel" PROVE calls'[b] = calls[b]
      BY <2>1, <2>5
  <2> QED
      BY <2>2, <2>4, <2>5 DEF CallsKept, CancelEarned
<1>5. CASE CleanupExpired
  <2> DEFINE gone == {q \in DOMAIN callbacks : Expired(q)}
  <2>1. calls' = Cancel(gone, FALSE) /\ callbacks' = Restrict(callbacks, DOMAIN callbacks \ gone)
      BY <1>5 DEF CleanupExpired
  <2>2. ASSUME NEW b \in Call
        PROVE  \/ calls'[b] = calls[b]
               \/ /\ calls[b] \in Rec /\ calls'[b] = [calls[b] EXCEPT !.got = "cancel", !.beaten = FALSE]
                  /\ calls[b].held >= CallbackTimeout - RequestTimeout
    <3>1. CASE calls'[b] = calls[b]
        BY <3>1
    <3>2. CASE /\ Open(b) /\ \E q \in gone : callbacks[q].call = b
               /\ calls'[b] = [calls[b] EXCEPT !.got = "cancel", !.beaten = FALSE]
      <4>1. calls[b] \in Rec
          BY <3>2, AskedCall DEF Open
      <4>2. PICK q \in DOMAIN callbacks : Expired(q) /\ callbacks[q].call = b
          BY <3>2
      <4>3. callbacks[q].age >= CallbackTimeout /\ callbacks[q].age \in Nat
          BY <4>2 DEF Expired, CallsKept
      <4>4. callbacks[q].age + calls[b].left <= calls[b].held + RequestTimeout
          BY <3>2, <4>2 DEF CallsKept
      <4>5. calls[b].left \in Nat /\ calls[b].held \in Nat
          BY <4>1
      <4>6. calls[b].held >= CallbackTimeout - RequestTimeout
          BY <1>p, <4>3, <4>4, <4>5
      <4> QED
          BY <3>2, <4>1, <4>6
    <3>3. gone \in SUBSET (DOMAIN callbacks) /\ FALSE \in BOOLEAN
        OBVIOUS
    <3> HIDE DEF gone
    <3>4. \/ Cancel(gone, FALSE)[b] = calls[b]
          \/ /\ Open(b) /\ \E q \in gone : callbacks[q].call = b
             /\ Cancel(gone, FALSE)[b] = [calls[b] EXCEPT !.got = "cancel", !.beaten = FALSE]
        BY <3>3, CancelChanges
    <3> QED
        BY <2>1, <3>1, <3>2, <3>4
  <2>3. calls' \in [Call -> [pc : {"new"}] \cup Rec]
    <3>1. ASSUME NEW b \in Call PROVE calls'[b] \in [pc : {"new"}] \cup Rec
      <4>1. calls[b] \in [pc : {"new"}] \cup Rec
          BY DEF CallsKept
      <4>2. calls[b] \in Rec => [calls[b] EXCEPT !.got = "cancel", !.beaten = FALSE] \in Rec
          OBVIOUS
      <4> QED
          BY <2>2, <4>1, <4>2
    <3>2. calls' = [b \in Call |-> calls'[b]]
        BY <2>1 DEF Cancel
    <3> QED
        BY <3>1, <3>2
  <2>4. ASSUME NEW q \in DOMAIN callbacks', NEW b, b = callbacks'[q].call
        PROVE  /\ b \in Call /\ callbacks'[q].age \in Nat
               /\ calls'[b].pc # "new"
               /\ Open(b)' => callbacks'[q].age + calls'[b].left <= calls'[b].held + RequestTimeout
    <3>1. q \in DOMAIN callbacks /\ callbacks'[q] = callbacks[q]
        BY <2>1 DEF Restrict
    <3>2. b = callbacks[q].call /\ b \in Call
        BY <2>4, <3>1 DEF CallsKept
    <3>3. CASE calls'[b] = calls[b]
        BY <3>1, <3>2, <3>3 DEF CallsKept, Open
    <3>4. CASE calls[b] \in Rec /\ calls'[b] = [calls[b] EXCEPT !.got = "cancel", !.beaten = FALSE]
      <4>1. calls'[b].got = "cancel" /\ calls'[b].pc = calls[b].pc
          BY <3>4
      <4> QED
          BY <3>1, <3>2, <4>1 DEF CallsKept, Open
    <3> QED
        BY <2>2, <3>2, <3>3, <3>4
  <2>5. ASSUME NEW b \in Call, calls'[b].pc # "new", calls'[b].got = "cancel"
        PROVE  calls'[b].beaten \/ calls'[b].held >= CallbackTimeout - RequestTimeout
    <3>1. CASE calls'[b] = calls[b]
        BY <2>5, <3>1 DEF CancelEarned
    <3>2. CASE /\ calls[b] \in Rec /\ calls'[b] = [calls[b] EXCEPT !.got = "cancel", !.beaten = FALSE]
               /\ calls[b].held >= CallbackTimeout - RequestTimeout
        BY <3>2
    <3> QED
        BY <2>2, <3>1, <3>2
  <2> QED
      BY <2>3, <2>4, <2>5 DEF CallsKept, CancelEarned
<1>6. CASE Elapse
  <2>1. ASSUME NEW b \in Call
        PROVE  \/ calls'[b] = calls[b] /\ ~Open(b)
               \/ calls[b] \in Rec /\ calls'[b] = [calls[b] EXCEPT !.held = @ + 1]
               \/ calls[b] \in Rec /\ calls'[b] = [calls[b] EXCEPT !.left = @ - 1] /\ calls[b].left > 0
    <3>1. calls'[b] = CASE calls[b].pc = "send" -> [calls[b] EXCEPT !.held = @ + 1]
                        [] calls[b].pc = "wait" -> [calls[b] EXCEPT !.left = @ - 1]
                        [] OTHER -> calls[b]
        BY <1>6 DEF Elapse
    <3>2. calls[b].pc = "wait" => calls[b].left # 0
        BY <1>6 DEF Elapse, Due
    <3>3. calls[b].pc # "new" => calls[b] \in Rec
        BY AskedCall
    <3>4. CASE calls[b].pc = "send"
        BY <3>1, <3>3, <3>4
    <3>5. CASE calls[b].pc = "wait"
        BY <3>1, <3>2, <3>3, <3>5
    <3>6. CASE calls[b].pc \notin {"send", "wait"}
        BY <3>1, <3>6 DEF Open
    <3> QED
        BY <3>4, <3>5, <3>6
  <2>2. ASSUME NEW b \in Call, calls[b] \in Rec, calls'[b] = [calls[b] EXCEPT !.held = @ + 1]
        PROVE  /\ calls'[b] \in Rec /\ calls'[b].pc = calls[b].pc /\ calls'[b].got = calls[b].got
               /\ calls'[b].beaten = calls[b].beaten /\ calls'[b].held = calls[b].held + 1 /\ calls'[b].left = calls[b].left
      BY <2>2
  <2>3. ASSUME NEW b \in Call, calls[b] \in Rec, calls'[b] = [calls[b] EXCEPT !.left = @ - 1], calls[b].left > 0
        PROVE  /\ calls'[b] \in Rec /\ calls'[b].pc = calls[b].pc /\ calls'[b].got = calls[b].got
               /\ calls'[b].beaten = calls[b].beaten /\ calls'[b].held = calls[b].held /\ calls'[b].left = calls[b].left - 1
      BY <2>3
  <2>4. calls' \in [Call -> [pc : {"new"}] \cup Rec]
    <3>1. ASSUME NEW b \in Call PROVE calls'[b] \in [pc : {"new"}] \cup Rec
      <4>1. calls[b] \in [pc : {"new"}] \cup Rec
          BY DEF CallsKept
      <4> QED
          BY <2>1, <2>2, <2>3, <4>1
    <3>2. calls' = [b \in Call |-> calls'[b]]
        BY <1>6 DEF Elapse
    <3> QED
        BY <3>1, <3>2
  <2>5. ASSUME NEW q \in DOMAIN callbacks', NEW b, b = callbacks'[q].call
        PROVE  /\ b \in Call /\ callbacks'[q].age \in Nat
               /\ calls'[b].pc # "new"
               /\ Open(b)' => callbacks'[q].age + calls'[b].left <= calls'[b].held + RequestTimeout
    <3>1. q \in DOMAIN callbacks /\ callbacks'[q] = [callbacks[q] EXCEPT !.age = IF @ < CallbackTimeout THEN @ + 1 ELSE @]
        BY <1>6 DEF Elapse
    <3>2. callbacks[q].call \in Call /\ callbacks[q].age \in Nat
        BY <3>1 DEF CallsKept
    <3>3. b = callbacks[q].call /\ callbacks'[q].age \in Nat /\ callbacks'[q].age <= callbacks[q].age + 1
        BY <2>5, <3>1, <3>2, <1>p
    <3>4. calls[b].pc # "new" /\ (Open(b) => callbacks[q].age + calls[b].left <= calls[b].held + RequestTimeout)
        BY <3>1, <3>3 DEF CallsKept
    <3>5. calls[b] \in Rec
        BY <3>2, <3>3, <3>4, AskedCall
    <3>6. calls[b].left \in Nat /\ calls[b].held \in Nat /\ b \in Call
        BY <3>2, <3>3, <3>5
    <3>7. CASE calls'[b] = calls[b] /\ ~Open(b)
        BY <3>3, <3>4, <3>6, <3>7 DEF Open
    <3>8. CASE calls'[b] = [calls[b] EXCEPT !.held = @ + 1]
        BY <1>p, <2>2, <3>2, <3>3, <3>4, <3>5, <3>6, <3>8 DEF Open
    <3>9. CASE calls'[b] = [calls[b] EXCEPT !.left = @ - 1] /\ calls[b].left > 0
        BY <1>p, <2>3, <3>2, <3>3, <3>4, <3>5, <3>6, <3>9 DEF Open
    <3> QED
        BY <2>1, <3>6, <3>7, <3>8, <3>9
  <2>6. ASSUME NEW b \in Call, calls'[b].pc # "new", calls'[b].got = "cancel"
        PROVE  calls'[b].beaten \/ calls'[b].held >= CallbackTimeout - RequestTimeout
    <3>1. CASE calls'[b] = calls[b]
        BY <2>6, <3>1 DEF CancelEarned
    <3>2. CASE calls[b] \in Rec /\ calls'[b] = [calls[b] EXCEPT !.held = @ + 1]
        BY <1>p, <2>2, <2>6, <3>2 DEF CancelEarned
    <3>3. CASE calls[b] \in Rec /\ calls'[b] = [calls[b] EXCEPT !.left = @ - 1] /\ calls[b].left > 0
        BY <2>3, <2>6, <3>3 DEF CancelEarned
    <3> QED
        BY <2>1, <3>1, <3>2, <3>3
  <2> QED
      BY <2>4, <2>5, <2>6 DEF CallsKept, CancelEarned
<1>7. CASE Handle
  <2>1. Answered(Head(in)) \/ Replied(Head(in))
      BY <1>7 DEF Handle
  <2> QED
      BY <1>3, <1>4, <2>1 DEF Replied
<1>8. CASE Transmit \/ (\E kind \in Kind, node \in Remote : Asked(kind, node))
           \/ (\E m \in abroad : Dispatch(m)) \/ UNCHANGED protoVars
    BY <1>3, <1>8 DEF Transmit, Asked, Dispatch, protoVars
<1> QED
    BY <1>1, <1>2, <1>5, <1>6, <1>7, <1>8 DEF ProtoNext

\* A question is given up as cancelled only for one of the two reasons, for any
\* timeouts and any sizes of the channels (cleanup_expired()).
THEOREM CancelEarnedHolds == ProtoSpec => []CancelEarned
    BY CallsInit, CallsStep, PTL DEF ProtoSpec

(***************************************************************************)
(* Route lists.                                                            *)
(***************************************************************************)
Pcs == {"off", "lists", "slot", "old", "keep", "write", "peers", "start", "up"}
IsProcess(p) ==
    p \in [pc : Pcs, slot : Nat, got : {p.got}, excluded : {p.excluded},
           looking : BOOLEAN, spoiled : BOOLEAN, orderly : BOOLEAN]
Shapes ==
    /\ config \in Configs /\ stop \in BOOLEAN
    /\ IsProcess(proc)
    /\ kernel \in [lists : {kernel.lists}, overlay : BOOLEAN, local : BOOLEAN]
    /\ chance \in [boots : Nat, harm : Nat, changes : Nat, hurt : BOOLEAN]

\* The list that is at work, and the ones that are done.
Working == proc.pc \in {"old", "keep", "write"}
Finished(i) == i \in DOMAIN proc.got /\ (Working => i # proc.slot)

\* A list has one file, the one that it should have.
Right(i) == \E f \in disk : /\ {g \in disk : g.slot = i} = {f}
                            /\ f.mark = Lists[i].mark /\ f.md5 = proc.got[i]

\* The files: no two for the same content, and none cut short but by a crash,
\* a failure, or because it is just being written.
FilesKept ==
    /\ \A f \in disk : f = File(f.slot, f.mark, f.md5, f.body) /\ f.slot \in Nat
    /\ \A f, g \in disk : f.slot = g.slot /\ f.md5 = g.md5 => f = g
    /\ \A f \in disk : \/ f.body = f.md5
                       \/ f.body \in Torn /\ chance.hurt
                       \/ f.body \in Torn /\ proc.pc = "write" /\ f.slot = proc.slot /\ f.md5 = proc.got[proc.slot]

\* Where download_route_lists() is.
DownloadKept ==
    /\ Working => proc.slot <= Len(Lists) /\ proc.slot \in DOMAIN proc.got
    /\ proc.pc = "lists" => DOMAIN proc.got = {}
    /\ ~proc.spoiled =>
          /\ \A i \in DOMAIN proc.got : Finished(i) => Right(i)
          /\ proc.pc = "keep" => \A f \in disk : f.slot = proc.slot => f.md5 = proc.got[proc.slot]
          /\ proc.pc = "write" => Right(proc.slot)
          /\ ~stop /\ config.enable /\ config.key = "other" /\ proc.pc \notin {"off", "lists"} =>
                \A f \in disk : f.slot <= Len(Lists)

\* Routes are there only while the node is up, and are those that an orderly
\* end takes back.
RoutesKept ==
    /\ kernel.lists # {} \/ kernel.overlay => proc.pc = "up"
    /\ proc.pc = "up" => kernel.lists \subseteq SystemLists /\ (kernel.overlay => config.table)
    /\ proc.pc = "off" => ~proc.looking
    /\ proc.pc = "off" /\ proc.orderly /\ config.table => ~kernel.local

ListsKept == Shapes /\ FilesKept /\ DownloadKept /\ RoutesKept

\* The node is off, and has no file and no route.
LEMMA ListsStart == ListsInit => ListsKept
<1> SUFFICES ASSUME ListsInit PROVE ListsKept
    OBVIOUS
<1>1. proc = Process("off") /\ kernel = NoRoutes /\ disk = {} /\ stop = FALSE
    BY DEF ListsInit
<1>2. DOMAIN proc.got = {} /\ proc.pc = "off"
    BY <1>1 DEF Process
<1>3. Shapes
  <2>1. config \in Configs /\ chance \in [boots : Nat, harm : Nat, changes : Nat, hurt : BOOLEAN]
      BY ListsAssumption DEF ListsInit
  <2> QED
      BY <1>1, <2>1 DEF Shapes, Process, NoRoutes, IsProcess, Pcs
<1>4. FilesKept /\ RoutesKept
    BY <1>1 DEF FilesKept, RoutesKept, Process, NoRoutes
<1>5. DownloadKept
    BY <1>1, <1>2 DEF DownloadKept, Working
<1> QED
    BY <1>3, <1>4, <1>5 DEF ListsKept

\* The bounds: what they allow becomes less, and harm that was done stays done.
LEMMA Chances ==
    ASSUME chance \in [boots : Nat, harm : Nat, changes : Nat, hurt : BOOLEAN]
    PROVE  /\ Use("boots") \/ Use("changes") =>
                chance' \in [boots : Nat, harm : Nat, changes : Nat, hurt : BOOLEAN] /\ chance'.hurt = chance.hurt
           /\ Hurt => chance' \in [boots : Nat, harm : Nat, changes : Nat, hurt : BOOLEAN] /\ chance'.hurt
<1>1. ASSUME Use("boots")
      PROVE  chance' \in [boots : Nat, harm : Nat, changes : Nat, hurt : BOOLEAN] /\ chance'.hurt = chance.hurt
    BY <1>1 DEF Use
<1>2. ASSUME Use("changes")
      PROVE  chance' \in [boots : Nat, harm : Nat, changes : Nat, hurt : BOOLEAN] /\ chance'.hurt = chance.hurt
    BY <1>2 DEF Use
<1>3. ASSUME Hurt
      PROVE  chance' \in [boots : Nat, harm : Nat, changes : Nat, hurt : BOOLEAN] /\ chance'.hurt
  <2>1. chance' = [chance EXCEPT !.harm = chance.harm - 1, !.hurt = TRUE] /\ chance.harm > 0
      BY <1>3 DEF Hurt
  <2>2. chance' = [boots |-> chance.boots, harm |-> chance.harm - 1, changes |-> chance.changes, hurt |-> TRUE]
      BY <2>1
  <2>3. chance.harm - 1 \in Nat /\ chance.boots \in Nat /\ chance.changes \in Nat
      BY <2>1
  <2>4. chance'.hurt
      BY <2>2, Zenon
  <2>5. chance' \in [boots : Nat, harm : Nat, changes : Nat, hurt : BOOLEAN]
      BY <2>2, <2>3
  <2> QED
      BY <2>4, <2>5
<1> QED
    BY <1>1, <1>2, <1>3

\* A step on the disk is done, or fails and is only logged.
LEMMA Attempted ==
    ASSUME Shapes, NEW files, NEW done, NEW failed, Attempt(files, done, failed)
    PROVE  /\ UNCHANGED <<config, server, kernel, stop>>
           /\ \/ disk' = files /\ proc' = done /\ chance' = chance
              \/ /\ disk' = disk /\ proc' = [failed EXCEPT !.spoiled = TRUE]
                 /\ chance' \in [boots : Nat, harm : Nat, changes : Nat, hurt : BOOLEAN] /\ chance'.hurt
    BY Chances DEF Attempt, Fail, Shapes

\* The process, but for where it is and whether something failed.
Moved(p, pc, slot) ==
    /\ IsProcess(p) /\ p.pc = pc /\ p.slot = slot
    /\ p.got = proc.got /\ p.excluded = proc.excluded /\ p.looking = proc.looking /\ p.orderly = proc.orderly

\* What the steps make of the process.
LEMMA Processes ==
    ASSUME IsProcess(proc)
    PROVE  /\ \A pc \in Pcs : Moved(At(pc), pc, proc.slot) /\ At(pc).spoiled = proc.spoiled
           /\ Moved(NextSlot, "slot", proc.slot + 1) /\ NextSlot.spoiled = proc.spoiled
           /\ \A p, pc, slot : Moved(p, pc, slot) => /\ Moved([p EXCEPT !.spoiled = TRUE], pc, slot)
                                                     /\ [p EXCEPT !.spoiled = TRUE].spoiled
<1>1. ASSUME NEW pc \in Pcs PROVE Moved(At(pc), pc, proc.slot) /\ At(pc).spoiled = proc.spoiled
    BY DEF At, Moved, IsProcess
<1>2. ASSUME NEW p, IsProcess(p), NEW n \in Nat
      PROVE  /\ IsProcess([p EXCEPT !.slot = n])
             /\ [p EXCEPT !.slot = n].slot = n /\ [p EXCEPT !.slot = n].pc = p.pc
             /\ [p EXCEPT !.slot = n].got = p.got /\ [p EXCEPT !.slot = n].excluded = p.excluded
             /\ [p EXCEPT !.slot = n].looking = p.looking /\ [p EXCEPT !.slot = n].orderly = p.orderly
             /\ [p EXCEPT !.slot = n].spoiled = p.spoiled
    BY <1>2 DEF IsProcess
<1>3. Moved(NextSlot, "slot", proc.slot + 1) /\ NextSlot.spoiled = proc.spoiled
  <2>1. proc.slot + 1 \in Nat /\ "slot" \in Pcs
      BY DEF IsProcess, Pcs
  <2>2. NextSlot = [At("slot") EXCEPT !.slot = proc.slot + 1] /\ IsProcess(At("slot"))
      BY <1>1, <2>1 DEF NextSlot, Moved
  <2> QED
      BY <1>1, <1>2, <2>1, <2>2 DEF Moved
<1>4. ASSUME NEW p, NEW pc, NEW slot, Moved(p, pc, slot)
      PROVE  Moved([p EXCEPT !.spoiled = TRUE], pc, slot) /\ [p EXCEPT !.spoiled = TRUE].spoiled
    BY <1>4 DEF Moved, IsProcess
<1> QED
    BY <1>1, <1>3, <1>4

\* A step leaves process, routes and bounds what they are.
LEMMA ShapesStep == Shapes /\ [ListsNext]_listVars => Shapes'
<1> SUFFICES ASSUME Shapes, [ListsNext]_listVars PROVE Shapes'
    OBVIOUS
<1> DEFINE Bound == [boots : Nat, harm : Nat, changes : Nat, hurt : BOOLEAN]
<1>0. IsProcess(proc)
    BY DEF Shapes
<1>1. CASE Boot
  <2>1. config' \in Configs /\ proc' = Process("lists") /\ stop' = FALSE /\ kernel' = kernel
      BY <1>1 DEF Boot
  <2>2. chance' \in Bound
      BY <1>1, Chances DEF Boot, Shapes
  <2> QED
      BY <2>1, <2>2 DEF Shapes, Process, IsProcess, Pcs
<1>2. CASE Signal
    BY <1>2 DEF Signal, Shapes
<1>3. ASSUME NEW files, NEW d, NEW e, Attempt(files, d, e), IsProcess(d), Moved(e, e.pc, e.slot)
      PROVE  Shapes'
  <2>1. UNCHANGED <<config, kernel, stop>> /\ chance' \in Bound
      BY <1>3, Attempted DEF Shapes
  <2>2. proc' = d \/ proc' = [e EXCEPT !.spoiled = TRUE]
      BY <1>3, Attempted
  <2>3. IsProcess(proc')
      BY <1>0, <1>3, <2>2, Processes DEF Moved
  <2> QED
      BY <2>1, <2>3 DEF Shapes, IsProcess
<1>m. /\ \A pc \in Pcs : IsProcess(At(pc)) /\ Moved(At(pc), At(pc).pc, At(pc).slot)
      /\ IsProcess(NextSlot) /\ Moved(NextSlot, NextSlot.pc, NextSlot.slot)
    BY <1>0, Processes DEF Moved
<1>c. \A pc \in {"slot", "peers", "keep", "write", "old", "start", "up"} : pc \in Pcs
    BY DEF Pcs
<1>4. CASE Clean
    BY <1>3, <1>4, <1>m, <1>c DEF Clean
<1>5. CASE CleanFails
  <2>1. proc' = [At("peers") EXCEPT !.spoiled = TRUE] /\ chance' \in Bound /\ UNCHANGED <<config, kernel, stop>>
      BY <1>5, Chances DEF CleanFails, Fail, Shapes
  <2>2. IsProcess(proc')
      BY <1>0, <1>c, <2>1, Processes DEF Moved
  <2> QED
      BY <2>1, <2>2 DEF Shapes, IsProcess
<1>6. CASE Fetch
  <2>1. \/ proc' = At("peers") \/ proc' = NextSlot
        \/ proc' = [At("old") EXCEPT !.got = Put(At("old").got, proc.slot, server[Lists[proc.slot].url])]
      BY <1>6 DEF Fetch
  <2>2. UNCHANGED <<config, kernel, stop, chance>>
      BY <1>6 DEF Fetch
  <2>3. CASE proc' \in {At("peers"), NextSlot}
      BY <1>c, <1>m, <2>2, <2>3 DEF Shapes, IsProcess
  <2>4. ASSUME NEW g, proc' = [At("old") EXCEPT !.got = g] PROVE Shapes'
      BY <1>c, <1>m, <2>2, <2>4 DEF Shapes, IsProcess
  <2> QED
      BY <2>1, <2>3, <2>4
<1>7. CASE RemoveOld
    BY <1>3, <1>7, <1>m, <1>c DEF RemoveOld
<1>8. CASE Keep
  <2>1. \E files, d : d \in {NextSlot, At("write")} /\ Attempt(files, d, NextSlot)
      BY <1>8 DEF Keep
  <2> QED
      BY <1>3, <2>1, <1>m, <1>c
<1>9. CASE WriteBody
    BY <1>3, <1>9, <1>m, <1>c DEF WriteBody
<1>10. CASE Prepare
  <2>1. \E x : proc' = [At("start") EXCEPT !.excluded = x]
      BY <1>10 DEF Prepare
  <2> QED
      BY <1>10, <1>c, <1>m, <2>1 DEF Prepare, Shapes, IsProcess
<1>11. CASE StartUp
  <2>0. UNCHANGED <<config, stop, chance>> /\ config.table \in BOOLEAN
      BY <1>11, ListsAssumption DEF StartUp, Shapes
  <2>1. CASE proc' = At("up") /\ UNCHANGED kernel
      BY <1>c, <1>m, <2>0, <2>1 DEF Shapes, IsProcess
  <2>2. CASE Gone
      BY <2>0, <2>2 DEF Gone, Shapes, Process, IsProcess, Pcs, NoRoutes
  <2>3. CASE /\ \E o \in OverlayRoute : kernel' = [lists |-> SystemLists, overlay |-> o, local |-> kernel.local]
             /\ proc' = [At("up") EXCEPT !.looking = config.table]
    <3>1. PICK o \in BOOLEAN : kernel' = [lists |-> SystemLists, overlay |-> o, local |-> kernel.local]
        BY <2>0, <2>3 DEF OverlayRoute
    <3> QED
        BY <1>c, <1>m, <2>0, <2>3, <3>1 DEF Shapes, IsProcess
  <2> QED
      BY <1>11, <2>1, <2>2, <2>3 DEF StartUp
<1>12. CASE LookForLan
  <2>1. PICK l \in {TRUE, kernel.local} : kernel' = [kernel EXCEPT !.local = l]
      BY <1>12 DEF LookForLan
  <2>2. proc' = [proc EXCEPT !.looking = FALSE] /\ UNCHANGED <<config, stop, chance>>
      BY <1>12 DEF LookForLan
  <2>3. l \in BOOLEAN
      BY <2>1 DEF Shapes
  <2> QED
      BY <2>1, <2>2, <2>3 DEF Shapes, IsProcess
<1>13. CASE Stop
    BY <1>13 DEF Stop, Shapes, Process, IsProcess, Pcs
<1>14. CASE Crash
    BY <1>14, Chances DEF Crash, Gone, Shapes, Process, IsProcess, Pcs, NoRoutes
<1>15. CASE Publish
    BY <1>15, Chances DEF Publish, Shapes
<1>16. CASE UNCHANGED listVars
    BY <1>16 DEF listVars, Shapes
<1> QED
    BY <1>1, <1>2, <1>4, <1>5, <1>6, <1>7, <1>8, <1>9, <1>10, <1>11, <1>12, <1>13, <1>14, <1>15, <1>16
    DEF ListsNext

\* Files that go, or stay, while none is being written.
LEMMA FilesFewer ==
    ASSUME FilesKept, disk' \subseteq disk, chance'.hurt = chance.hurt \/ chance'.hurt,
           \/ chance'.hurt \/ proc.pc # "write"
           \/ proc'.pc = proc.pc /\ proc'.slot = proc.slot /\ proc'.got = proc.got
    PROVE  FilesKept'
    BY DEF FilesKept

\* What the steps on the disk do to the files.
LEMMA FilesStep == Shapes /\ FilesKept /\ DownloadKept /\ [ListsNext]_listVars => FilesKept'
<1> SUFFICES ASSUME Shapes, FilesKept, DownloadKept, [ListsNext]_listVars PROVE FilesKept'
    OBVIOUS
<1>0. IsProcess(proc) /\ chance \in [boots : Nat, harm : Nat, changes : Nat, hurt : BOOLEAN]
    BY DEF Shapes
<1>c. \A pc \in {"slot", "peers", "keep", "write", "old", "start", "up"} : pc \in Pcs
    BY DEF Pcs
<1>1. CASE Boot
    BY <1>0, <1>1, Chances, FilesFewer DEF Boot
<1>2. CASE Signal \/ UNCHANGED listVars
    BY <1>2, FilesFewer DEF Signal, listVars
<1>3. CASE Clean
  <2>1. \E on : Attempt(disk \ Stale, on, on) /\ proc.pc = "lists"
      BY <1>3 DEF Clean
  <2>2. disk' \subseteq disk /\ (chance'.hurt = chance.hurt \/ chance'.hurt) /\ proc.pc # "write"
      BY <2>1, Attempted
  <2> QED
      BY <2>2, FilesFewer
<1>4. CASE CleanFails
    BY <1>0, <1>4, Chances, FilesFewer DEF CleanFails, Fail
<1>5. CASE Fetch \/ Prepare \/ StartUp \/ Stop
    BY <1>5, FilesFewer DEF Fetch, Prepare, StartUp, Stop
<1>6. CASE RemoveOld
  <2>1. Attempt(disk \ Old(proc.slot, proc.got[proc.slot]), At("keep"), At("keep")) /\ proc.pc = "old"
      BY <1>6 DEF RemoveOld
  <2>2. disk' \subseteq disk /\ (chance'.hurt = chance.hurt \/ chance'.hurt) /\ proc.pc # "write"
      BY <2>1, Attempted
  <2> QED
      BY <2>2, FilesFewer
<1>7. CASE LookForLan
  <2>1. disk' = disk /\ chance' = chance /\ proc' = [proc EXCEPT !.looking = FALSE]
      BY <1>7 DEF LookForLan
  <2>2. proc'.pc = proc.pc /\ proc'.slot = proc.slot /\ proc'.got = proc.got
      BY <1>0, <2>1 DEF IsProcess
  <2> QED
      BY <2>1, <2>2, FilesFewer
<1>8. CASE Crash
    BY <1>0, <1>8, Chances, FilesFewer DEF Crash
<1>9. CASE Publish
    BY <1>0, <1>9, Chances, FilesFewer DEF Publish
<1> DEFINE md5 == proc.got[proc.slot]
           mark == Lists[proc.slot].mark
           same == {f \in disk : f.slot = proc.slot /\ f.md5 = md5}
<1>10. CASE Keep /\ same # {}
  <2> DEFINE files == (disk \ same) \cup {[f EXCEPT !.mark = mark] : f \in same}
  <2>1. Attempt(files, NextSlot, NextSlot) /\ proc.pc = "keep"
      BY <1>10 DEF Keep
  <2>2. CASE disk' = disk /\ chance'.hurt
      BY <2>2, FilesFewer
  <2>3. CASE disk' = files /\ chance' = chance
    <3>1. ASSUME NEW f \in same
          PROVE  [f EXCEPT !.mark = mark] = File(f.slot, mark, f.md5, f.body)
      <4>1. f = File(f.slot, f.mark, f.md5, f.body)
          BY DEF FilesKept
      <4> QED
          BY <4>1 DEF File
    <3>2. \A f \in disk' : \E g \in disk : /\ f.slot = g.slot /\ f.md5 = g.md5 /\ f.body = g.body
                                           /\ f = g \/ (g \in same /\ f = File(g.slot, mark, g.md5, g.body))
      <4> SUFFICES ASSUME NEW f \in disk'
                   PROVE  \E g \in disk : /\ f.slot = g.slot /\ f.md5 = g.md5 /\ f.body = g.body
                                          /\ f = g \/ (g \in same /\ f = File(g.slot, mark, g.md5, g.body))
          OBVIOUS
      <4>1. CASE f \in disk
          BY <4>1
      <4>2. CASE \E g \in same : f = [g EXCEPT !.mark = mark]
        <5>1. PICK g \in same : f = [g EXCEPT !.mark = mark]
            BY <4>2
        <5>2. f = File(g.slot, mark, g.md5, g.body) /\ g \in disk
            BY <3>1, <5>1
        <5>3. f.slot = g.slot /\ f.md5 = g.md5 /\ f.body = g.body
            BY <5>2 DEF File
        <5> QED
            BY <5>2, <5>3
      <4> QED
          BY <2>3, <4>1, <4>2
    <3>3. \A f \in disk' : f = File(f.slot, f.mark, f.md5, f.body) /\ f.slot \in Nat
        BY <3>2 DEF FilesKept, File
    <3>4. ASSUME NEW f \in disk', NEW g \in disk', f.slot = g.slot, f.md5 = g.md5 PROVE f = g
      <4>1. PICK a \in disk : /\ f.slot = a.slot /\ f.md5 = a.md5 /\ f.body = a.body
                              /\ f = a \/ (a \in same /\ f = File(a.slot, mark, a.md5, a.body))
          BY <3>2
      <4>2. PICK b \in disk : /\ g.slot = b.slot /\ g.md5 = b.md5 /\ g.body = b.body
                              /\ g = b \/ (b \in same /\ g = File(b.slot, mark, b.md5, b.body))
          BY <3>2
      <4>3. a = b
          BY <3>4, <4>1, <4>2 DEF FilesKept
      <4>4. CASE a \notin same
          BY <4>1, <4>2, <4>3, <4>4
      <4>5. CASE a \in same
        <5>1. \A h \in disk' : h.slot = proc.slot /\ h.md5 = md5 => h.mark = mark
            BY <2>3, <3>1 DEF File
        <5>2. f.mark = mark /\ g.mark = mark
            BY <3>4, <4>1, <4>5, <5>1
        <5> QED
            BY <3>3, <4>1, <4>2, <4>3, <5>2
      <4> QED
          BY <4>4, <4>5
    <3>5. \A f \in disk' : f.body = f.md5 \/ (f.body \in Torn /\ chance'.hurt)
        BY <2>1, <2>3, <3>2 DEF FilesKept
    <3> QED
        BY <3>3, <3>4, <3>5 DEF FilesKept
  <2> QED
      BY <2>1, <2>2, <2>3, Attempted
<1>11. CASE Keep /\ same = {}
  <2>1. PICK torn \in Torn : Attempt(disk \cup {File(proc.slot, mark, md5, torn)}, At("write"), NextSlot)
      BY <1>11 DEF Keep
  <2>2. CASE disk' = disk /\ chance'.hurt
      BY <2>2, FilesFewer
  <2>3. CASE disk' = disk \cup {File(proc.slot, mark, md5, torn)} /\ proc' = At("write") /\ chance' = chance
    <3> DEFINE new == File(proc.slot, mark, md5, torn)
    <3>1. proc'.pc = "write" /\ proc'.slot = proc.slot /\ proc'.got = proc.got
        BY <1>0, <1>c, <2>3, Processes DEF Moved
    <3>2. new.slot = proc.slot /\ new.md5 = md5 /\ new.body = torn /\ new.mark = mark
        BY DEF File
    <3>3. \A f \in disk' : f = File(f.slot, f.mark, f.md5, f.body) /\ f.slot \in Nat
        BY <1>0, <2>3, <3>2 DEF FilesKept, IsProcess
    <3>4. \A f \in disk : ~(f.slot = new.slot /\ f.md5 = new.md5)
        BY <1>11, <3>2
    <3>5. \A f, g \in disk' : f.slot = g.slot /\ f.md5 = g.md5 => f = g
        BY <2>3, <3>4 DEF FilesKept
    <3>6. \A f \in disk : f.body = f.md5 \/ (f.body \in Torn /\ chance.hurt)
        BY <1>11 DEF FilesKept, Keep
    <3>7. \A f \in disk' : \/ f.body = f.md5
                           \/ f.body \in Torn /\ chance'.hurt
                           \/ f.body \in Torn /\ proc'.pc = "write" /\ f.slot = proc'.slot /\ f.md5 = proc'.got[proc'.slot]
        BY <2>1, <2>3, <3>1, <3>2, <3>6
    <3> QED
        BY <3>3, <3>5, <3>7 DEF FilesKept
  <2> QED
      BY <2>1, <2>2, <2>3, Attempted
<1>12. CASE WriteBody
  <2> DEFINE files == (disk \ same) \cup {[f EXCEPT !.body = md5] : f \in same}
  <2>1. Attempt(files, NextSlot, NextSlot) /\ proc.pc = "write"
      BY <1>12 DEF WriteBody
  <2>2. CASE disk' = disk /\ chance'.hurt
      BY <2>2, FilesFewer
  <2>3. CASE disk' = files /\ chance' = chance
    <3>1. ASSUME NEW f \in same PROVE [f EXCEPT !.body = md5] = File(f.slot, f.mark, f.md5, md5)
      <4>1. f = File(f.slot, f.mark, f.md5, f.body)
          BY DEF FilesKept
      <4> QED
          BY <4>1 DEF File
    <3>2. \A f \in disk' : \E g \in disk : /\ f.slot = g.slot /\ f.md5 = g.md5 /\ f.mark = g.mark
                                           /\ \/ f = g /\ g \notin same
                                              \/ g \in same /\ f = File(g.slot, g.mark, g.md5, md5)
      <4> SUFFICES ASSUME NEW f \in disk'
                   PROVE  \E g \in disk : /\ f.slot = g.slot /\ f.md5 = g.md5 /\ f.mark = g.mark
                                          /\ \/ f = g /\ g \notin same
                                             \/ g \in same /\ f = File(g.slot, g.mark, g.md5, md5)
          OBVIOUS
      <4>1. CASE f \in disk \ same
          BY <4>1
      <4>2. CASE \E g \in same : f = [g EXCEPT !.body = md5]
        <5>1. PICK g \in same : f = [g EXCEPT !.body = md5]
            BY <4>2
        <5>2. f = File(g.slot, g.mark, g.md5, md5) /\ g \in disk
            BY <3>1, <5>1
        <5>3. f.slot = g.slot /\ f.md5 = g.md5 /\ f.mark = g.mark
            BY <5>2 DEF File
        <5> QED
            BY <5>2, <5>3
      <4> QED
          BY <2>3, <4>1, <4>2
    <3>3. \A f \in disk' : f = File(f.slot, f.mark, f.md5, f.body) /\ f.slot \in Nat
        BY <3>2 DEF FilesKept, File
    <3>4. ASSUME NEW f \in disk', NEW g \in disk', f.slot = g.slot, f.md5 = g.md5 PROVE f = g
      <4>1. PICK a \in disk : /\ f.slot = a.slot /\ f.md5 = a.md5 /\ f.mark = a.mark
                              /\ \/ f = a /\ a \notin same
                                 \/ a \in same /\ f = File(a.slot, a.mark, a.md5, md5)
          BY <3>2
      <4>2. PICK b \in disk : /\ g.slot = b.slot /\ g.md5 = b.md5 /\ g.mark = b.mark
                              /\ \/ g = b /\ b \notin same
                                 \/ b \in same /\ g = File(b.slot, b.mark, b.md5, md5)
          BY <3>2
      <4>3. a = b
          BY <3>4, <4>1, <4>2 DEF FilesKept
      <4> QED
          BY <4>1, <4>2, <4>3
    <3>5. ASSUME NEW f \in disk' PROVE f.body = f.md5 \/ (f.body \in Torn /\ chance'.hurt)
      <4>1. PICK g \in disk : /\ f.slot = g.slot /\ f.md5 = g.md5 /\ f.mark = g.mark
                              /\ \/ f = g /\ g \notin same
                                 \/ g \in same /\ f = File(g.slot, g.mark, g.md5, md5)
          BY <3>2
      <4>2. CASE g \in same
          BY <4>1, <4>2 DEF File
      <4>3. CASE g \notin same
          BY <2>3, <4>1, <4>3 DEF FilesKept
      <4> QED
          BY <4>2, <4>3
    <3> QED
        BY <3>3, <3>4, <3>5 DEF FilesKept
  <2> QED
      BY <2>1, <2>2, <2>3, Attempted
<1> QED
    BY <1>1, <1>2, <1>3, <1>4, <1>5, <1>6, <1>7, <1>8, <1>9, <1>10, <1>11, <1>12 DEF ListsNext

\* A list whose files stay has them as it should.
LEMMA RightKept ==
    ASSUME NEW i, Right(i), \A g : g.slot = i => (g \in disk' <=> g \in disk),
           proc'.got[i] = proc.got[i], Lists' = Lists
    PROVE  Right(i)'
<1>1. PICK f \in disk : {g \in disk : g.slot = i} = {f} /\ f.mark = Lists[i].mark /\ f.md5 = proc.got[i]
    BY DEF Right
<1>2. f.slot = i /\ f \in disk'
    BY <1>1
<1>3. {g \in disk' : g.slot = i} = {f}
    BY <1>1, <1>2
<1> QED
    BY <1>1, <1>2, <1>3 DEF Right

\* Steps that leave the download where it is, and steps that end the process
\* or start one.
LEMMA DownloadSame ==
    ASSUME DownloadKept, UNCHANGED <<config, disk>>, stop' = stop \/ stop',
           proc'.slot = proc.slot, proc'.got = proc.got, proc'.spoiled = proc.spoiled,
           \/ proc'.pc = proc.pc
           \/ proc.pc \in {"slot", "peers", "start"} /\ proc'.pc \in {"peers", "start", "up"}
    PROVE  DownloadKept'
<1>1. Lists' = Lists
    BY DEF Lists
<1>2. \A i : Finished(i)' => Finished(i)
    BY DEF Finished, Working
<1>3. \A i : Right(i) => Right(i)'
    BY <1>1 DEF Right
<1>4. Working' => Working
    BY DEF Working
<1> QED
    BY <1>1, <1>2, <1>3, <1>4 DEF DownloadKept, Finished

\* A process that has just started, or has ended, has downloaded nothing.
LEMMA DownloadNone ==
    ASSUME NEW pc \in {"off", "lists"}, proc' = Process(pc) \/ proc' = [Process(pc) EXCEPT !.orderly = TRUE]
    PROVE  DownloadKept'
<1>1. DOMAIN proc'.got = {} /\ proc'.pc = pc
    BY DEF Process
<1> QED
    BY <1>1 DEF DownloadKept, Working

\* Each step of download_route_lists() brings the list at work nearer to what
\* it should be, and leaves the others alone.
LEMMA DownloadStep == Shapes /\ FilesKept /\ DownloadKept /\ [ListsNext]_listVars => DownloadKept'
<1> SUFFICES ASSUME Shapes, FilesKept, DownloadKept, [ListsNext]_listVars PROVE DownloadKept'
    OBVIOUS
<1>0. IsProcess(proc) /\ proc.slot \in Nat /\ Len(Lists) \in Nat
  <2>1. Len(config.lists) \in Nat
      BY ListsAssumption DEF Shapes
  <2> QED
      BY <2>1 DEF Shapes, IsProcess, Lists
<1>c. \A pc \in {"slot", "peers", "keep", "write", "old", "start", "up"} : pc \in Pcs
    BY DEF Pcs
<1>l. config' = config => Lists' = Lists
    BY DEF Lists
<1>1. CASE Boot
    BY <1>1, DownloadNone DEF Boot
<1>2. CASE Signal \/ Publish \/ UNCHANGED listVars
    BY <1>2, DownloadSame DEF Signal, Publish, listVars
<1>3. CASE LookForLan
  <2>1. proc' = [proc EXCEPT !.looking = FALSE] /\ UNCHANGED <<config, disk, stop>>
      BY <1>3 DEF LookForLan
  <2>2. proc'.pc = proc.pc /\ proc'.slot = proc.slot /\ proc'.got = proc.got /\ proc'.spoiled = proc.spoiled
      BY <1>0, <2>1 DEF IsProcess
  <2> QED
      BY <2>1, <2>2, DownloadSame
<1>4. CASE Stop \/ Crash
    BY <1>4, DownloadNone DEF Stop, Crash, Gone
<1>5. CASE Prepare
  <2>1. PICK x : proc' = [At("start") EXCEPT !.excluded = x]
      BY <1>5 DEF Prepare
  <2>2. proc'.pc = "start" /\ proc'.slot = proc.slot /\ proc'.got = proc.got /\ proc'.spoiled = proc.spoiled
      BY <1>0, <1>c, <2>1, Processes DEF Moved, IsProcess
  <2>3. UNCHANGED <<config, disk, stop>> /\ proc.pc = "peers"
      BY <1>5 DEF Prepare
  <2> QED
      BY <2>2, <2>3, DownloadSame
<1>6. CASE StartUp
  <2>1. CASE proc' = At("up") \/ proc' = [At("up") EXCEPT !.looking = config.table]
    <3>1. proc'.pc = "up" /\ proc'.slot = proc.slot /\ proc'.got = proc.got /\ proc'.spoiled = proc.spoiled
        BY <1>0, <1>c, <2>1, Processes DEF Moved, IsProcess
    <3>2. UNCHANGED <<config, disk, stop>> /\ proc.pc = "start"
        BY <1>6 DEF StartUp
    <3> QED
        BY <3>1, <3>2, DownloadSame
  <2>2. CASE proc' = Process("off")
      BY <2>2, DownloadNone
  <2> QED
      BY <1>6, <2>1, <2>2 DEF StartUp, Gone
<1>7. ASSUME NEW e, NEW pc, NEW slot, Moved(e, pc, slot), pc \in {"slot", "peers", "keep"},
             proc' = [e EXCEPT !.spoiled = TRUE], UNCHANGED <<config, disk>>,
             pc = "keep" => proc.pc = "old" /\ slot = proc.slot
      PROVE  DownloadKept'
  <2>1. Moved(proc', pc, slot) /\ proc'.spoiled
      BY <1>0, <1>7, Processes
  <2>2. proc'.pc = pc /\ proc'.slot = slot /\ proc'.got = proc.got
      BY <2>1 DEF Moved
  <2> QED
      BY <1>l, <1>7, <2>1, <2>2 DEF DownloadKept, Working
<1>8. CASE CleanFails
    BY <1>0, <1>c, <1>7, <1>8, Processes DEF CleanFails, Fail
<1>9. CASE Clean
  <2>1. PICK pc \in {"slot", "peers"} : Attempt(disk \ Stale, At(pc), At(pc))
      BY <1>9 DEF Clean
  <2>2. CASE disk' = disk /\ proc' = [At(pc) EXCEPT !.spoiled = TRUE]
      BY <1>0, <1>c, <1>7, <2>1, <2>2, Attempted, Processes
  <2>3. CASE disk' = disk \ Stale /\ proc' = At(pc)
    <3>1. proc'.pc = pc /\ proc'.got = proc.got /\ UNCHANGED <<config, stop>> /\ DOMAIN proc.got = {}
        BY <1>0, <1>9, <1>c, <2>1, <2>3, Attempted, Processes DEF Moved, Clean, DownloadKept
    <3>2. ~stop /\ config.enable /\ config.key = "other" => Stale = {f \in disk : f.slot > Len(Lists)}
        BY DEF Stale
    <3>3. ~stop /\ config.enable /\ config.key = "other" => \A f \in disk' : f.slot <= Len(Lists)
        BY <1>0, <2>3, <3>2 DEF FilesKept
    <3> QED
        BY <1>l, <3>1, <3>3 DEF DownloadKept, Working
  <2> QED
      BY <2>1, <2>2, <2>3, Attempted
<1>10. CASE Fetch
  <2>0. UNCHANGED <<config, disk, stop>> /\ proc.pc = "slot" /\ Lists' = Lists
      BY <1>10, <1>l DEF Fetch
  <2>1. CASE proc' = At("peers")
      BY <1>0, <1>c, <2>0, <2>1, Processes, DownloadSame DEF Moved
  <2>2. CASE proc' = NextSlot
    <3>1. proc'.pc = "slot" /\ proc'.got = proc.got /\ proc'.spoiled = proc.spoiled
        BY <1>0, <2>2, Processes DEF Moved
    <3>2. \A i : (Finished(i)' => Finished(i)) /\ (Right(i) => Right(i)')
        BY <2>0, <3>1 DEF Finished, Working, Right
    <3> QED
        BY <2>0, <3>1, <3>2 DEF DownloadKept, Working
  <2>3. CASE /\ proc.slot <= Len(Lists)
             /\ proc' = [At("old") EXCEPT !.got = Put(At("old").got, proc.slot, server[Lists[proc.slot].url])]
    <3> DEFINE x == server[Lists[proc.slot].url]
    <3>1. Moved(At("old"), "old", proc.slot) /\ At("old").spoiled = proc.spoiled
        BY <1>0, <1>c, Processes
    <3>2. /\ proc'.pc = "old" /\ proc'.slot = proc.slot /\ proc'.spoiled = proc.spoiled
          /\ proc'.got = Put(proc.got, proc.slot, x)
        BY <2>3, <3>1 DEF Moved, IsProcess
    <3>3. DOMAIN proc'.got = DOMAIN proc.got \cup {proc.slot} /\ \A i \in DOMAIN proc.got : i # proc.slot => proc'.got[i] = proc.got[i]
        BY <3>2 DEF Put
    <3>4. ASSUME NEW i \in DOMAIN proc'.got, Finished(i)', ~proc.spoiled PROVE Right(i)'
      <4>1. i \in DOMAIN proc.got /\ i # proc.slot /\ Finished(i)
          BY <2>0, <3>2, <3>3, <3>4 DEF Finished, Working
      <4>2. Right(i)
          BY <3>4, <4>1 DEF DownloadKept
      <4> QED
          BY <2>0, <3>3, <4>1, <4>2, RightKept
    <3> QED
        BY <2>0, <2>3, <3>2, <3>3, <3>4 DEF DownloadKept
  <2> QED
      BY <1>0, <1>10, <2>1, <2>2, <2>3 DEF Fetch
<1>11. ASSUME Working, NEW files, NEW d, NEW pc, NEW slot, NEW e, NEW s, s = proc.slot,
              Moved(d, pc, slot), d.spoiled = proc.spoiled, Attempt(files, d, e),
              disk' = files, proc' = d,
              \A g : g.slot # proc.slot => (g \in files <=> g \in disk),
              pc = "slot" \/ (pc \in {"keep", "write"} /\ slot = proc.slot),
              ~proc.spoiled /\ pc \in {"slot", "write"} => Right(s)',
              ~proc.spoiled /\ pc = "keep" => \A f \in files : f.slot = proc.slot => f.md5 = proc.got[proc.slot]
       PROVE  DownloadKept'
  <2>0. UNCHANGED <<config, stop>> /\ Lists' = Lists
      BY <1>11, <1>l, Attempted
  <2>1. proc'.pc = pc /\ proc'.slot = slot /\ proc'.got = proc.got /\ proc'.spoiled = proc.spoiled
      BY <1>11 DEF Moved
  <2>2. proc.slot <= Len(Lists) /\ proc.slot \in DOMAIN proc.got /\ proc.pc \notin {"off", "lists"}
      BY <1>11 DEF DownloadKept, Working
  <2>3. Working' => proc'.slot <= Len(Lists') /\ proc'.slot \in DOMAIN proc'.got
      BY <1>11, <2>0, <2>1, <2>2 DEF Working
  <2>4. ASSUME NEW i \in DOMAIN proc'.got, Finished(i)', ~proc.spoiled PROVE Right(i)'
    <3>1. CASE i # proc.slot
      <4>1. Right(i)
          BY <2>1, <2>4, <3>1 DEF DownloadKept, Finished
      <4> QED
          BY <1>11, <2>0, <2>1, <3>1, <4>1, RightKept
    <3>2. CASE i = proc.slot
      <4>1. pc = "slot"
          BY <1>11, <2>1, <2>4, <3>2 DEF Finished, Working
      <4> QED
          BY <1>11, <2>4, <3>2, <4>1
    <3> QED
        BY <3>1, <3>2
  <2>5. ASSUME ~stop, ~proc.spoiled, config.enable, config.key = "other"
        PROVE  \A f \in disk' : f.slot <= Len(Lists)
    <3>1. \A f \in disk : f.slot <= Len(Lists)
        BY <2>2, <2>5 DEF DownloadKept
    <3> QED
        BY <1>11, <2>2, <3>1
  <2>6. proc'.pc = "keep" /\ ~proc'.spoiled => \A f \in disk' : f.slot = proc'.slot => f.md5 = proc'.got[proc'.slot]
      BY <1>11, <2>1
  <2>7. proc'.pc = "write" /\ ~proc'.spoiled => Right(s)' /\ proc'.slot = s
      BY <1>11, <2>1
  <2>8. proc'.pc = "write" /\ ~proc'.spoiled => Right(proc.slot)'
      BY <2>7 DEF Right
  <2> QED
      BY <1>11, <2>0, <2>1, <2>3, <2>4, <2>5, <2>6, <2>8 DEF DownloadKept
<1> DEFINE md5 == proc.got[proc.slot]
           mark == Lists[proc.slot].mark
           same == {f \in disk : f.slot = proc.slot /\ f.md5 = md5}
<1>12. ASSUME NEW files, NEW pc, NEW slot, NEW e, Moved(e, pc, slot), pc \in {"slot", "keep"},
              pc = "keep" => proc.pc = "old" /\ slot = proc.slot, disk' = disk,
              proc' = [e EXCEPT !.spoiled = TRUE], NEW d, Attempt(files, d, e)
       PROVE  DownloadKept'
    BY <1>7, <1>12, Attempted
<1>13. Moved(NextSlot, "slot", proc.slot + 1) /\ NextSlot.spoiled = proc.spoiled
    BY <1>0, Processes
<1>14. CASE RemoveOld
  <2> DEFINE files == disk \ Old(proc.slot, md5)
  <2>0. Attempt(files, At("keep"), At("keep")) /\ proc.pc = "old" /\ Working
      BY <1>14 DEF RemoveOld, Working
  <2>1. Moved(At("keep"), "keep", proc.slot) /\ At("keep").spoiled = proc.spoiled
      BY <1>0, <1>c, Processes
  <2>2. \A g : g.slot # proc.slot => (g \in files <=> g \in disk)
      BY DEF Old
  <2>3. \A f \in files : f.slot = proc.slot => f.md5 = md5
      BY DEF Old
  <2>4. CASE disk' = files /\ proc' = At("keep")
      BY <1>11, <2>0, <2>1, <2>2, <2>3, <2>4
  <2>5. CASE disk' = disk /\ proc' = [At("keep") EXCEPT !.spoiled = TRUE]
      BY <1>12, <2>0, <2>1, <2>5
  <2> QED
      BY <2>0, <2>4, <2>5, Attempted
<1>15. CASE Keep /\ same # {}
  <2> DEFINE files == (disk \ same) \cup {[f EXCEPT !.mark = mark] : f \in same}
  <2>0. Attempt(files, NextSlot, NextSlot) /\ proc.pc = "keep" /\ Working
      BY <1>15 DEF Keep, Working
  <2>1. ASSUME NEW f \in same
        PROVE  [f EXCEPT !.mark = mark] = File(f.slot, mark, f.md5, f.body)
    <3>1. f = File(f.slot, f.mark, f.md5, f.body)
        BY DEF FilesKept
    <3> QED
        BY <3>1 DEF File
  <2>2. \A g : g.slot # proc.slot => (g \in files <=> g \in disk)
      BY <2>1 DEF File
  <2>3. CASE disk' = disk /\ proc' = [NextSlot EXCEPT !.spoiled = TRUE]
      BY <1>12, <1>13, <2>0, <2>3
  <2>4. CASE disk' = files /\ proc' = NextSlot
    <3>1. ASSUME NEW s, s = proc.slot, ~proc.spoiled PROVE Right(s)'
      <4>1. PICK f \in same : TRUE
          BY <1>15
      <4>2. \A g \in disk : g.slot = s => g = f
          BY <2>0, <3>1 DEF DownloadKept, FilesKept
      <4> DEFINE h == File(f.slot, mark, f.md5, f.body)
      <4>3. h \in disk' /\ h.slot = s /\ h.mark = mark /\ h.md5 = md5
          BY <2>1, <2>4, <3>1 DEF File
      <4>4. ASSUME NEW g \in disk', g.slot = s PROVE g = h
        <5>1. CASE g \in disk \ same
            BY <4>2, <4>4, <5>1
        <5>2. ASSUME NEW o \in same, g = [o EXCEPT !.mark = mark] PROVE g = h
          <6>1. o = f
              BY <3>1, <4>2
          <6> QED
              BY <2>1, <5>2, <6>1
        <5> QED
            BY <2>4, <5>1, <5>2
      <4>5. {g \in disk' : g.slot = s} = {h}
          BY <4>3, <4>4
      <4>6. Lists' = Lists /\ proc'.got = proc.got
          BY <1>13, <1>l, <2>0, <2>4, Attempted DEF Moved
      <4> QED
          BY <3>1, <4>3, <4>5, <4>6 DEF Right
    <3> QED
        BY <1>11, <1>13, <2>0, <2>2, <2>4, <3>1
  <2> QED
      BY <2>0, <2>3, <2>4, Attempted
<1>16. CASE Keep /\ same = {}
  <2>0. proc.pc = "keep" /\ Working
      BY <1>16 DEF Keep, Working
  <2>1. PICK torn \in Torn : Attempt(disk \cup {File(proc.slot, mark, md5, torn)}, At("write"), NextSlot)
      BY <1>16 DEF Keep
  <2> DEFINE new == File(proc.slot, mark, md5, torn)
  <2>2. new.slot = proc.slot /\ new.mark = mark /\ new.md5 = md5
      BY DEF File
  <2>3. \A g : g.slot # proc.slot => (g \in disk \cup {new} <=> g \in disk)
      BY <2>2
  <2>4. Moved(At("write"), "write", proc.slot) /\ At("write").spoiled = proc.spoiled
      BY <1>0, <1>c, Processes
  <2>5. CASE disk' = disk /\ proc' = [NextSlot EXCEPT !.spoiled = TRUE]
      BY <1>12, <1>13, <2>1, <2>5
  <2>6. CASE disk' = disk \cup {new} /\ proc' = At("write")
    <3>1. ASSUME NEW s, s = proc.slot, ~proc.spoiled PROVE Right(s)'
      <4>1. \A g \in disk : g.slot # s
          BY <1>16, <2>0, <3>1 DEF DownloadKept
      <4>2. {g \in disk' : g.slot = s} = {new} /\ new \in disk'
          BY <2>2, <2>6, <3>1, <4>1
      <4>3. Lists' = Lists /\ proc'.got = proc.got
          BY <1>l, <2>1, <2>4, <2>6, Attempted DEF Moved
      <4> QED
          BY <2>2, <3>1, <4>2, <4>3 DEF Right
    <3> HIDE DEF new
    <3> QED
        BY <1>11, <2>0, <2>1, <2>3, <2>4, <2>6, <3>1 DEF new
  <2> QED
      BY <2>1, <2>5, <2>6, Attempted
<1>17. CASE WriteBody
  <2> DEFINE files == (disk \ same) \cup {[f EXCEPT !.body = md5] : f \in same}
  <2>0. Attempt(files, NextSlot, NextSlot) /\ proc.pc = "write" /\ Working
      BY <1>17 DEF WriteBody, Working
  <2>1. ASSUME NEW f \in same
        PROVE  [f EXCEPT !.body = md5] = File(f.slot, f.mark, f.md5, md5)
    <3>1. f = File(f.slot, f.mark, f.md5, f.body)
        BY DEF FilesKept
    <3> QED
        BY <3>1 DEF File
  <2>2. \A g : g.slot # proc.slot => (g \in files <=> g \in disk)
      BY <2>1 DEF File
  <2>3. CASE disk' = disk /\ proc' = [NextSlot EXCEPT !.spoiled = TRUE]
      BY <1>12, <1>13, <2>0, <2>3
  <2>4. CASE disk' = files /\ proc' = NextSlot
    <3>1. ASSUME NEW s, s = proc.slot, ~proc.spoiled PROVE Right(s)'
      <4>1. PICK f \in disk : {g \in disk : g.slot = s} = {f} /\ f.mark = Lists[s].mark /\ f.md5 = proc.got[s]
          BY <2>0, <3>1 DEF DownloadKept, Right
      <4>2. f.slot = s /\ f \in same
          BY <3>1, <4>1
      <4> DEFINE h == File(f.slot, f.mark, f.md5, md5)
      <4>3. h \in disk' /\ h.slot = s /\ h.mark = f.mark /\ h.md5 = f.md5
          BY <2>1, <2>4, <4>2 DEF File
      <4>4. ASSUME NEW g \in disk', g.slot = s PROVE g = h
        <5>1. CASE g \in disk \ same
            BY <4>1, <4>2, <4>4, <5>1
        <5>2. ASSUME NEW o \in same, g = [o EXCEPT !.body = md5] PROVE g = h
          <6>1. o = f
              BY <3>1, <4>1
          <6> QED
              BY <2>1, <5>2, <6>1
        <5> QED
            BY <2>4, <5>1, <5>2
      <4>5. {g \in disk' : g.slot = s} = {h}
          BY <4>3, <4>4
      <4>6. Lists' = Lists /\ proc'.got = proc.got
          BY <1>13, <1>l, <2>0, <2>4, Attempted DEF Moved
      <4> QED
          BY <4>1, <4>3, <4>5, <4>6 DEF Right
    <3> QED
        BY <1>11, <1>13, <2>0, <2>2, <2>4, <3>1
  <2> QED
      BY <2>0, <2>3, <2>4, Attempted
<1> QED
    BY <1>1, <1>2, <1>3, <1>4, <1>5, <1>6, <1>8, <1>9, <1>10, <1>14, <1>15, <1>16, <1>17 DEF ListsNext

\* What is there while the node is up is what remove_routes() goes over.
LEMMA RoutesStep == Shapes /\ RoutesKept /\ [ListsNext]_listVars => RoutesKept'
<1> SUFFICES ASSUME Shapes, RoutesKept, [ListsNext]_listVars PROVE RoutesKept'
    OBVIOUS
<1>0. IsProcess(proc) /\ kernel \in [lists : {kernel.lists}, overlay : BOOLEAN, local : BOOLEAN]
      /\ config.table \in BOOLEAN
    BY ListsAssumption DEF Shapes
<1>c. \A pc \in {"slot", "peers", "keep", "write", "old", "start", "up"} : pc \in Pcs
    BY DEF Pcs
<1>1. CASE Boot
    BY <1>1 DEF Boot, RoutesKept, Process
<1>2. ASSUME UNCHANGED <<config, kernel>>, proc.pc \notin {"off", "up"}, proc'.pc \notin {"off", "up"}
      PROVE  RoutesKept'
    BY <1>2 DEF RoutesKept
<1>3. ASSUME NEW files, NEW d, NEW e, NEW p, NEW n, NEW q, NEW m, Attempt(files, d, e), Moved(d, p, n), Moved(e, q, m),
             proc.pc \notin {"off", "up"}, p \notin {"off", "up"}, q \notin {"off", "up"}
      PROVE  RoutesKept'
  <2>1. UNCHANGED <<config, kernel>> /\ (proc' = d \/ proc' = [e EXCEPT !.spoiled = TRUE])
      BY <1>3, Attempted
  <2>2. d.pc = p /\ [e EXCEPT !.spoiled = TRUE].pc = q
    <3>1. Moved([e EXCEPT !.spoiled = TRUE], q, m)
        BY <1>0, <1>3, Processes
    <3> QED
        BY <1>3, <3>1 DEF Moved
  <2>3. proc'.pc \notin {"off", "up"}
      BY <1>3, <2>1, <2>2
  <2> QED
      BY <1>2, <1>3, <2>1, <2>3
<1>4. CASE Clean
  <2>1. PICK pc \in {"slot", "peers"} : Attempt(disk \ Stale, At(pc), At(pc))
      BY <1>4 DEF Clean
  <2>2. Moved(At(pc), pc, proc.slot) /\ proc.pc = "lists"
      BY <1>0, <1>4, <1>c, Processes DEF Clean
  <2> QED
      BY <1>3, <2>1, <2>2
<1>5. CASE CleanFails
  <2>1. proc' = [At("peers") EXCEPT !.spoiled = TRUE] /\ UNCHANGED <<config, kernel>> /\ proc.pc = "lists"
      BY <1>5 DEF CleanFails, Fail
  <2>2. proc'.pc = "peers"
      BY <1>0, <1>c, <2>1, Processes DEF Moved
  <2> QED
      BY <1>2, <2>1, <2>2
<1>6. CASE Fetch
  <2>1. proc'.pc \in {"peers", "slot", "old"}
    <3>1. \/ proc' \in {At("peers"), NextSlot}
          \/ \E g : proc' = [At("old") EXCEPT !.got = g]
        BY <1>6 DEF Fetch
    <3> QED
        BY <1>0, <1>c, <3>1, Processes DEF Moved, IsProcess
  <2> QED
      BY <1>2, <1>6, <2>1 DEF Fetch
<1>7. CASE RemoveOld
    BY <1>0, <1>3, <1>7, <1>c, Processes DEF RemoveOld
<1>8. CASE Keep \/ WriteBody
  <2>1. \E files, d : d \in {NextSlot, At("write")} /\ Attempt(files, d, NextSlot)
      BY <1>8 DEF Keep, WriteBody
  <2>2. proc.pc \in {"keep", "write"}
      BY <1>8 DEF Keep, WriteBody
  <2>3. PICK files, d : d \in {NextSlot, At("write")} /\ Attempt(files, d, NextSlot)
      BY <2>1
  <2>4. Moved(NextSlot, "slot", proc.slot + 1) /\ Moved(At("write"), "write", proc.slot)
      BY <1>0, <1>c, Processes
  <2> QED
      BY <1>3, <2>2, <2>3, <2>4
<1>9. CASE Prepare
  <2>1. \E x : proc' = [At("start") EXCEPT !.excluded = x]
      BY <1>9 DEF Prepare
  <2>2. proc'.pc = "start"
      BY <1>0, <1>c, <2>1, Processes DEF Moved, IsProcess
  <2> QED
      BY <1>2, <1>9, <2>2 DEF Prepare
<1>10. CASE StartUp
  <2>0. UNCHANGED <<config, disk>> /\ kernel.lists = {} /\ ~kernel.overlay
      BY <1>10 DEF StartUp, RoutesKept
  <2>1. CASE proc' = At("up") /\ UNCHANGED kernel
    <3>1. proc'.pc = "up"
        BY <1>0, <1>c, <2>1, Processes DEF Moved
    <3> QED
        BY <2>0, <2>1, <3>1 DEF RoutesKept
  <2>2. CASE Gone
      BY <2>2 DEF Gone, RoutesKept, Process, NoRoutes
  <2>3. CASE /\ \E o \in OverlayRoute : kernel' = [lists |-> SystemLists, overlay |-> o, local |-> kernel.local]
             /\ proc' = [At("up") EXCEPT !.looking = config.table]
    <3>1. PICK o \in OverlayRoute : kernel' = [lists |-> SystemLists, overlay |-> o, local |-> kernel.local]
        BY <2>3
    <3>2. proc'.pc = "up" /\ proc'.excluded = proc.excluded
        BY <1>0, <1>c, <2>3, Processes DEF Moved, IsProcess
    <3>3. SystemLists' = SystemLists
        BY <2>0, <3>2 DEF SystemLists, Refused, Entries
    <3>4. kernel'.lists = SystemLists' /\ (kernel'.overlay => config'.table)
        BY <1>0, <2>0, <3>1, <3>3 DEF OverlayRoute
    <3> QED
        BY <3>2, <3>4 DEF RoutesKept
  <2> QED
      BY <1>10, <2>1, <2>2, <2>3 DEF StartUp
<1>11. CASE LookForLan
  <2>1. UNCHANGED <<config, disk>> /\ proc.looking /\ proc' = [proc EXCEPT !.looking = FALSE]
      BY <1>11 DEF LookForLan
  <2>2. kernel'.lists = kernel.lists /\ kernel'.overlay = kernel.overlay
      BY <1>0, <1>11 DEF LookForLan
  <2>3. proc'.pc = proc.pc /\ proc'.excluded = proc.excluded /\ proc.pc # "off"
      BY <1>0, <2>1 DEF IsProcess, RoutesKept
  <2>4. SystemLists' = SystemLists
      BY <2>1, <2>3 DEF SystemLists, Refused, Entries
  <2> QED
      BY <2>1, <2>2, <2>3, <2>4 DEF RoutesKept
<1>12. CASE Stop
    BY <1>0, <1>12 DEF Stop, RoutesKept, Process
<1>13. CASE Crash
    BY <1>13 DEF Crash, Gone, RoutesKept, Process, NoRoutes
<1>14. CASE Signal \/ Publish \/ UNCHANGED listVars
  <2>1. UNCHANGED <<config, disk, proc, kernel>>
      BY <1>14 DEF Signal, Publish, listVars
  <2>2. SystemLists' = SystemLists
      BY <2>1 DEF SystemLists, Refused, Entries
  <2> QED
      BY <2>1, <2>2 DEF RoutesKept
<1> QED
    BY <1>1, <1>4, <1>5, <1>6, <1>7, <1>8, <1>9, <1>10, <1>11, <1>12, <1>13, <1>14 DEF ListsNext

\* What is kept is what was asked for.
LEMMA ListsKeptFollowed == ListsKept => ListsFollowed
<1> SUFFICES ASSUME ListsKept PROVE ListsFollowed
    OBVIOUS
<1> USE DEF ListsKept
<1>1. \A f, g \in disk : f.slot = g.slot /\ f.md5 = g.md5 => f = g
    BY DEF FilesKept
<1>2. ASSUME proc.pc = "up", ~stop, ~proc.spoiled, NEW e \in kernel.lists PROVE e.slot <= Len(Lists)
  <2>1. e \in SystemLists
      BY <1>2 DEF RoutesKept
  <2>2. config.enable /\ config.key = "other" /\ \E f \in disk : e.slot = f.slot
      BY <2>1 DEF SystemLists, Entries
  <2> QED
      BY <1>2, <2>2 DEF DownloadKept
<1>3. ASSUME proc.pc = "up", ~stop, ~proc.spoiled, NEW i \in DOMAIN proc.got
      PROVE  \E f \in disk : /\ {g \in disk : g.slot = i} = {f}
                             /\ f.mark = Lists[i].mark /\ f.md5 = proc.got[i]
                             /\ f.body = f.md5 \/ (f.body \in Torn /\ chance.hurt)
  <2>1. Right(i)
      BY <1>3 DEF DownloadKept, Finished, Working
  <2> QED
      BY <1>3, <2>1 DEF Right, FilesKept
<1>4. proc.pc = "off" /\ proc.orderly => kernel.lists = {} /\ ~kernel.overlay /\ (config.table => ~kernel.local)
    BY DEF RoutesKept
<1> QED
    BY <1>1, <1>2, <1>3, <1>4 DEF ListsFollowed

\* No step of the node, and no crash between two of them, undoes this.
LEMMA ListsStep == ListsKept /\ [ListsNext]_listVars => ListsKept'
    BY ShapesStep, FilesStep, DownloadStep, RoutesStep DEF ListsKept

\* A node that is up follows its lists and an orderly end takes all back, for
\* any configurations, servers, crashes and failures (download_route_lists(),
\* install_routes(), remove_routes()).
THEOREM ListsFollowedHolds == ListsSpec => []ListsFollowed
    BY ListsStart, ListsStep, ListsKeptFollowed, PTL DEF ListsSpec
=============================================================================
