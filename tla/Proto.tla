------------------------------- MODULE Proto -------------------------------
(***************************************************************************)
(* Questions to other nodes and their answers (proto.rs, and the two tasks *)
(* of core.rs that send and handle them).  A question is registered under  *)
(* its kind and the key of the node it goes to, where the answer finds it. *)
(***************************************************************************)
EXTENDS Integers, Sequences, Functions, Maps

CONSTANTS Call,      \* calls of the send_..._request() functions
          Kind,      \* GetSelf, GetPeers, GetTree, NodeInfo
          Remote,    \* the nodes that are asked
          Places,    \* messages in a channel, with the one its task has taken
          RequestTimeout, CallbackTimeout, CleanupInterval,
          Load       \* bounds: see MCTun

ASSUME ProtoAssumption == RequestTimeout \in Nat /\ CallbackTimeout \in Nat

VARIABLES may,         \* what the bounds still allow
          calls,       \* where each call is
          callbacks,   \* registered questions, by kind and node
          out,         \* proto_tx, the messages to be sent
          in,          \* proto_in_tx, the messages to be handled
          abroad,      \* messages on their way to this node
          cleanup      \* time until cleanup_expired() runs
protoVars == <<may, calls, callbacks, out, in, abroad, cleanup>>

May(what) == may[what] > 0 /\ may' = [may EXCEPT ![what] = @ - 1]
Message(kind, answer, node) == [kind |-> kind, answer |-> answer, node |-> node]
Open(c) == calls[c].pc \in {"send", "wait"} /\ calls[c].got = "nothing"

ProtoInit ==
    /\ may \in Load
    /\ calls = [c \in Call |-> [pc |-> "new"]]
    /\ callbacks = <<>>
    /\ out = <<>> /\ in = <<>>
    /\ abroad = {}
    /\ cleanup = CleanupInterval

(***************************************************************************)
(* send_get_self_request() and its like.                                   *)
(***************************************************************************)
\* Whoever waits for these callbacks is told that they are gone.
Cancel(gone, beaten) ==
    [c \in Call |-> IF Open(c) /\ \E q \in gone : callbacks[q].call = c
                    THEN [calls[c] EXCEPT !.got = "cancel", !.beaten = beaten] ELSE calls[c]]

\* The question takes the place of an earlier one.  held: the time that the
\* message waits for a place; left: the time that is left for the answer.
Register(c, kind, node) ==
    /\ calls[c].pc = "new" /\ May("calls")
    /\ calls' = [Cancel({<<kind, node>>} \cap DOMAIN callbacks, TRUE) EXCEPT
                    ![c] = [pc |-> "send", kind |-> kind, node |-> node, got |-> "nothing",
                            beaten |-> FALSE, held |-> 0, left |-> RequestTimeout]]
    /\ callbacks' = Put(callbacks, <<kind, node>>, [call |-> c, age |-> 0])
    /\ UNCHANGED <<out, in, abroad, cleanup>>
SendRequest(c) ==
    /\ calls[c].pc = "send" /\ Len(out) < Places
    /\ out' = Append(out, Message(calls[c].kind, FALSE, calls[c].node))
    /\ calls' = [calls EXCEPT ![c].pc = "wait"]
    /\ UNCHANGED <<may, callbacks, in, abroad, cleanup>>
Due(c) == calls[c].pc = "wait" /\ (calls[c].got # "nothing" \/ calls[c].left = 0)
Return(c) ==
    /\ Due(c)
    /\ calls' = [calls EXCEPT ![c].pc = "returned"]
    /\ UNCHANGED <<may, callbacks, out, in, abroad, cleanup>>

(***************************************************************************)
(* The task that sends, the other nodes, and the task that handles.        *)
(***************************************************************************)
\* write_to() takes what time it takes; the message may be lost after it.
Transmit ==
    /\ out # <<>>
    /\ out' = Tail(out)
    /\ \/ UNCHANGED abroad
       \/ ~Head(out).answer /\ abroad' = abroad \cup {Message(Head(out).kind, TRUE, Head(out).node)}
    /\ UNCHANGED <<may, calls, callbacks, in, cleanup>>
Asked(kind, node) ==
    /\ May("asked")
    /\ abroad' = abroad \cup {Message(kind, FALSE, node)}
    /\ UNCHANGED <<calls, callbacks, out, in, cleanup>>

\* dispatch_frame() does not wait for a place.
Dispatch(m) ==
    /\ m \in abroad
    /\ abroad' = abroad \ {m}
    /\ in' = IF Len(in) < Places THEN Append(in, m) ELSE in
    /\ UNCHANGED <<may, calls, callbacks, out, cleanup>>

\* handle_inbound_proto(): an answer ends the wait of the call whose callback
\* is there, a question is answered.
Answered(m) ==
    /\ m.answer
    /\ calls' = [c \in Call |->
                   IF Open(c) /\ <<m.kind, m.node>> \in DOMAIN callbacks /\ callbacks[<<m.kind, m.node>>].call = c
                   THEN [calls[c] EXCEPT !.got = "answer"] ELSE calls[c]]
    /\ callbacks' = Restrict(callbacks, DOMAIN callbacks \ {<<m.kind, m.node>>})
    /\ UNCHANGED out
Replied(m) ==
    /\ ~m.answer /\ Len(out) < Places
    /\ out' = Append(out, Message(m.kind, TRUE, m.node))
    /\ UNCHANGED <<calls, callbacks>>
Handle ==
    /\ in # <<>>
    /\ in' = Tail(in)
    /\ Answered(Head(in)) \/ Replied(Head(in))
    /\ UNCHANGED <<may, abroad, cleanup>>

(***************************************************************************)
(* cleanup_expired(), and time.                                            *)
(***************************************************************************)
\* Mutant: a callback is kept for as long as an answer is waited for.
ExpiredShort(q) == callbacks[q].age >= RequestTimeout
Expired(q) == callbacks[q].age >= CallbackTimeout
CleanupExpired ==
    /\ cleanup = 0
    /\ LET gone == {q \in DOMAIN callbacks : Expired(q)} IN
       /\ calls' = Cancel(gone, FALSE)
       /\ callbacks' = Restrict(callbacks, DOMAIN callbacks \ gone)
    /\ cleanup' = CleanupInterval
    /\ UNCHANGED <<may, out, in, abroad>>
Elapse ==
    /\ May("time")
    /\ cleanup > 0 /\ \A c \in Call : ~Due(c)
    /\ cleanup' = cleanup - 1
    /\ callbacks' = [q \in DOMAIN callbacks |->
                       [callbacks[q] EXCEPT !.age = IF @ < CallbackTimeout THEN @ + 1 ELSE @]]
    /\ calls' = [c \in Call |-> CASE calls[c].pc = "send" -> [calls[c] EXCEPT !.held = @ + 1]
                                  [] calls[c].pc = "wait" -> [calls[c] EXCEPT !.left = @ - 1]
                                  [] OTHER -> calls[c]]
    /\ UNCHANGED <<out, in, abroad>>

\* All but Dispatch, which is a step of the task that reads from the network.
ProtoNext ==
    \/ \E c \in Call : SendRequest(c) \/ Return(c) \/ \E kind \in Kind, node \in Remote : Register(c, kind, node)
    \/ Transmit \/ Handle
    \/ \E kind \in Kind, node \in Remote : Asked(kind, node)
    \/ CleanupExpired \/ Elapse

ProtoSpec == ProtoInit /\ [][ProtoNext \/ \E m \in abroad : Dispatch(m)]_protoVars

(***************************************************************************)
(* A question is given up as cancelled only because a later one of the     *)
(* same kind went to the same node, or because the channel had no place    *)
(* for it for longer than the cleanup leaves beyond the wait for the       *)
(* answer: the age of a callback counts from before the message is sent    *)
(* (send_get_self_request() and its like, cleanup_expired()).              *)
(***************************************************************************)
CancelEarned ==
    \A c \in Call : calls[c].pc # "new" /\ calls[c].got = "cancel" =>
        calls[c].beaten \/ calls[c].held >= CallbackTimeout - RequestTimeout
=============================================================================
