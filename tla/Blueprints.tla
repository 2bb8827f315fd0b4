----------------------------- MODULE Blueprints -----------------------------
(***************************************************************************)
(* EntHugeTlb::run_blueprints (ent_streaming_hugetlb.rs) inside the loop   *)
(* "callback, send_all_out, until nothing is sent" of TcpListener::check,  *)
(* with the callback of the README: stream.run_blueprints(blueprints).     *)
(*                                                                         *)
(* A blueprint is an app with layers in front of it.  Without a layer the  *)
(* app works on the stream itself.  With one, the layer (TLS) works        *)
(* between the stream, its left side, and an IntermedBuf, its right side,  *)
(* and the app between that IntermedBuf and nothing; the IntermedBuf is    *)
(* made anew by each call and dropped when the call returns.               *)
(*                                                                         *)
(* Layers and apps are not part of this repository (trait Orbit of the     *)
(* blueprint crate): a layer here passes bytes one for one, after a        *)
(* handshake, and an app reads requests and owes answers.  quirks says     *)
(* what they do beyond that: input is then lost at places that Drops       *)
(* names, output never is.                                                 *)
(***************************************************************************)
EXTENDS Integers, Sequences

CONSTANTS
    Layers,      \* the numbers of layers to look at
    InterCap,    \* bytes an IntermedBuf holds in each direction (8192)
    Handshake,   \* handshake messages of the peer
    MaxSent,     \* messages and bytes the peer sends in all
    MaxSeg,      \* most of them in one receive completion
    MaxAnswer,   \* most bytes the app owes for what it reads in one turn
    M,           \* bytes are numbered modulo M
    Quirks       \* the sets of quirks to look at

(* The app waits for more input, or takes it in parts; the layer passes input
   on while output waits to be sent, takes input in slices, or ends the handshake
   without an answer. *)
AllQuirks == {"waits", "parts", "both", "slices", "silent"}

ASSUME BlueprintsAssumption ==
    /\ Layers \subseteq Nat
    /\ InterCap \in Nat \ {0}
    /\ Handshake \in Nat /\ MaxSent \in Nat /\ MaxSeg \in Nat /\ MaxAnswer \in Nat
    /\ M \in Nat \ {0}
    /\ Quirks \subseteq SUBSET AllQuirks

VARIABLES
    layers,                      \* LAYERS
    quirks,
    left_in, left_out,           \* the stream: bytes to be read, to be sent
    is_ready, in_blocked,        \* the stream: what the layer has told it
    right_in, right_out,         \* IntermedBuf
    cur_level,
    pc,          \* "idle", "run" (in run_blueprints), "send", "closed", "panic"
    caller,      \* the handler that calls the callback: "accept", which calls it once,
                 \* "loop", which calls it again after a send, or "shutdown"
    pending,     \* sends are in flight
    sent,        \* what the peer has sent so far
    hs,          \* handshake messages the layer still waits for
    read,        \* how many bytes the app has read, modulo M
    owed, made,  \* bytes the app has still to write; number of the next one
    gone,        \* how many of those send_all_out has taken, modulo M
    dropped      \* history: input has been dropped (Drops)

stream == <<left_in, left_out, is_ready, in_blocked>>
intermed == <<right_in, right_out>>
orbits == <<hs, read, owed, made>>
given == <<layers, quirks>>
state == <<given, stream, intermed, cur_level, pc, caller, pending, sent, gone, orbits>>
vars == <<state, dropped>>

Hs == M            \* a handshake message, in either direction

IsByte(b) == b # Hs

Greeting == IF layers > 0 THEN Handshake ELSE 0

(* What the peer sends: the handshake, then bytes. *)
Number(k) == IF k < Greeting THEN 0 ELSE (k - Greeting) % M
Item(k) == IF k < Greeting THEN Hs ELSE Number(k)

(* The accept handler, about to call the callback: it does not loop. *)
Init ==
    /\ layers \in Layers /\ quirks \in Quirks
    /\ left_in = <<>> /\ left_out = <<>>
    /\ is_ready = FALSE /\ in_blocked = FALSE
    /\ right_in = <<>> /\ right_out = <<>>
    /\ cur_level = 0
    /\ pc = "run" /\ caller = "accept"
    /\ pending = FALSE
    /\ sent = 0
    /\ hs = Greeting
    /\ read = 0 /\ owed = 0 /\ made = 0 /\ gone = 0
    /\ dropped = FALSE

-----------------------------------------------------------------------------
(* TcpListener::check.                                                     *)

(* A call of the callback: IntermedBuf::default(). *)
Call ==
    /\ pc' = "run"
    /\ cur_level' = 0
    /\ right_in' = <<>> /\ right_out' = <<>>

HandleRecv(n) ==
    /\ pc = "idle" /\ sent + n <= MaxSent
    /\ left_in' = left_in \o [i \in 1 .. n |-> Item(sent + i - 1)]
    /\ sent' = sent + n
    /\ caller' = "loop"
    /\ Call
    /\ UNCHANGED <<given, left_out, is_ready, in_blocked, pending, gone, orbits>>

(* Mutant: the callback is not called. *)
HandleSentZcOnly ==
    /\ pc = "idle" /\ pending
    /\ pending' = FALSE
    /\ UNCHANGED <<given, stream, intermed, cur_level, pc, caller, sent, gone, orbits>>

HandleSentZc ==
    /\ pc = "idle" /\ pending
    /\ pending' = FALSE
    /\ caller' = "loop"
    /\ Call
    /\ UNCHANGED <<given, stream, sent, gone, orbits>>

(* send_all_out (SendRing has the bytes and the limits behind it): everything
   that is queued, then the callback again; or nothing. *)
SendAll ==
    /\ pc = "send" /\ caller # "shutdown" /\ left_out # <<>>
    /\ left_out' = <<>>
    /\ gone' = (gone + Len(SelectSeq(left_out, IsByte))) % M
    /\ pending' = TRUE
    /\ IF caller = "loop" THEN Call ELSE pc' = "idle" /\ UNCHANGED <<intermed, cur_level>>
    /\ UNCHANGED <<given, left_in, is_ready, in_blocked, caller, sent, orbits>>

SendNothing ==
    /\ pc = "send" /\ caller # "shutdown" /\ (left_out = <<>> \/ pending)
    /\ pc' = "idle"
    /\ UNCHANGED <<given, stream, intermed, cur_level, caller, pending, sent, gone, orbits>>

(* The last receive completion: the callback runs once more ... *)
HandleShutdown ==
    /\ pc = "idle"
    /\ caller' = "shutdown"
    /\ Call
    /\ UNCHANGED <<given, stream, pending, sent, gone, orbits>>

(* ... and whatever it has queued, nothing is sent: the stream is let go. *)
Close ==
    /\ pc = "send" /\ caller = "shutdown"
    /\ pc' = "closed"
    /\ UNCHANGED <<given, stream, intermed, cur_level, caller, pending, sent, gone, orbits>>

-----------------------------------------------------------------------------
(* The app (external).  On the stream it reads any first part of what it is
   shown; on an IntermedBuf all of it, unless it "waits" for more to come or
   takes "parts".  It writes what it owes as far as there is room. *)

Reads(shown) ==
    {Len(shown)} \cup (IF "waits" \in quirks THEN {0} ELSE {})
                 \cup (IF layers = 0 \/ "parts" \in quirks THEN 0 .. Len(shown) ELSE {})

Owes(ate) == IF ate > 0 THEN owed .. owed + MaxAnswer ELSE {owed}

Output(n) == [i \in 1 .. n |-> (made + i - 1) % M]

Turn(ate, total, n) ==
    /\ read' = (read + ate) % M
    /\ n = IF total < InterCap THEN total ELSE InterCap
    /\ owed' = total - n
    /\ made' = (made + n) % M

(* Mutant: the first n bytes are kept. *)
StreamKeepsFirst(buf, n) == SubSeq(buf, 1, n)

(* EntHugeTlb::left_set_lens keeps the last n bytes of the input. *)
StreamSetLenIn(buf, n) == SubSeq(buf, Len(buf) - n + 1, Len(buf))

(* LAYERS == 0: the app is advanced once, on the stream. *)
AdvanceOnStream ==
    /\ pc = "run" /\ layers = 0
    /\ \E ate \in Reads(left_in), n \in 0 .. InterCap :
         /\ \E total \in Owes(ate) : Turn(ate, total, n)
         /\ left_in' = StreamSetLenIn(left_in, Len(left_in) - ate)
         /\ left_out' = left_out \o Output(n)
    /\ pc' = "send"
    /\ UNCHANGED <<given, is_ready, in_blocked, intermed, cur_level, caller,
                   pending, sent, gone, hs>>

(* Mutants: the app is never done; done when it has no input. *)
AppNeverDone == FALSE

AppDoneNoInput == right_in' = <<>>

(* No input and no output at the app; or no output and no change. *)
AppDone ==
    \/ right_in' = <<>> /\ right_out' = <<>>
    \/ right_out' = <<>> /\ Len(right_in') = Len(right_in) /\ right_out = <<>>

(* IntermedBuf::left_set_lens keeps the first n bytes of the input. *)
SetLenIn(buf, n) == SubSeq(buf, 1, n)

(* The terminal level, 1 whatever LAYERS is: the app on the IntermedBuf. *)
AdvanceApp ==
    /\ pc = "run" /\ layers > 0 /\ cur_level = 1
    /\ \E ate \in Reads(right_in), n \in 0 .. InterCap :
         /\ \E total \in Owes(ate) : Turn(ate, total, n)
         /\ right_in' = SetLenIn(right_in, Len(right_in) - ate)
         /\ right_out' = right_out \o Output(n)
    /\ pc' = IF AppDone THEN "send" ELSE "run"
    /\ cur_level' = IF AppDone THEN 1 ELSE 0
    /\ UNCHANGED <<given, stream, caller, pending, sent, gone, hs>>

-----------------------------------------------------------------------------
(* The layer (external).                                                   *)

(* A handshake message is taken, and may be answered; the last one is when more
   input stands behind it, unless "silent". *)
Greet ==
    /\ hs > 0 /\ left_in # <<>>
    /\ left_in' = Tail(left_in)
    /\ left_out' \in {left_out, Append(left_out, Hs)}
    /\ hs = 1 /\ Len(left_in) > 1 /\ "silent" \notin quirks => left_out' # left_out
    /\ hs' = hs - 1
    /\ is_ready' = (hs = 1)
    /\ in_blocked' \in {FALSE, Tail(left_in) = <<>>}
    /\ UNCHANGED intermed

Await ==
    /\ hs > 0 /\ left_in = <<>>
    /\ in_blocked' \in BOOLEAN
    /\ UNCHANGED <<left_in, left_out, is_ready, hs, intermed>>

(* How many bytes a layer passes on at a time: none while output waits to be
   sent, unless "both"; otherwise all there are, unless "slices". *)
Passes ==
    IF "both" \notin quirks /\ (left_out # <<>> \/ right_out # <<>>) THEN {0}
    ELSE IF "slices" \in quirks /\ left_in # <<>> THEN 1 .. Len(left_in)
    ELSE {Len(left_in)}

AllSentRightOut == right_out' = <<>>

(* n bytes of input are passed on, and all output of the app. *)
Pass(n) ==
    /\ hs = 0
    /\ left_in' = SubSeq(left_in, n + 1, Len(left_in))
    /\ left_out' = left_out \o right_out
    /\ right_in' = right_in \o SubSeq(left_in, 1, n)
    /\ AllSentRightOut
    /\ is_ready' = TRUE
    /\ UNCHANGED <<in_blocked, hs>>

AtLayer == pc = "run" /\ layers > 0 /\ cur_level = 0

(* Mutant: the two directions are taken for one buffer. *)
RoomOfBoth == 2 * InterCap - Len(right_in)

Room == InterCap - Len(right_in)

(* Mutant: a layer that has called the input blocked is always done. *)
LayerDoneBlocked ==
    left_out' # <<>> \/ in_blocked' \/ (~is_ready' /\ Len(left_in') = Len(left_in))

(* Output ends the call; so does a layer that is not ready and takes no input. *)
LayerDone ==
    \/ left_out' # <<>>
    \/ ~is_ready' /\ (in_blocked' \/ Len(left_in') = Len(left_in))

(* Level 0.  A layer that is not done is advanced again, or gives way to the app
   when it is ready. *)
AdvanceLayer ==
    /\ AtLayer
    /\ Greet \/ Await \/ \E n \in Passes : n <= Room /\ Pass(n)
    /\ pc' = IF LayerDone THEN "send" ELSE "run"
    /\ cur_level' = IF ~LayerDone /\ is_ready' THEN 1 ELSE 0
    /\ UNCHANGED <<given, caller, pending, sent, gone, read, owed, made>>

(* add_right_in: more than the IntermedBuf has room for. *)
AddRightInPanics ==
    /\ AtLayer
    /\ hs = 0 /\ \E n \in Passes : n > Room
    /\ pc' = "panic"
    /\ UNCHANGED <<given, stream, intermed, cur_level, caller, pending, sent, gone, orbits>>

-----------------------------------------------------------------------------
Run == AdvanceOnStream \/ AdvanceLayer \/ AddRightInPanics \/ AdvanceApp

(* The call returns with input in the IntermedBuf; or left_set_lens cuts off the
   end of the input where the app has read its beginning. *)
Drops ==
    /\ pc = "run" /\ layers > 0 /\ right_in' # <<>>
    /\ \/ pc' = "send"
       \/ cur_level = 1 /\ Len(right_in') < Len(right_in)

Recorded == dropped' = (dropped \/ Drops)

Next ==
    \/ \E n \in 1 .. MaxSeg : HandleRecv(n) /\ Recorded
    \/ HandleSentZc /\ Recorded
    \/ (SendAll \/ SendNothing) /\ Recorded
    \/ (HandleShutdown \/ Close) /\ Recorded
    \/ Run /\ Recorded

Spec == Init /\ [][Next]_vars

(* A handler runs to its end; the kernel completes every send. *)
FairSpec ==
    /\ Spec
    /\ WF_state(Run)
    /\ WF_state(SendAll \/ SendNothing \/ Close)
    /\ SF_state(HandleSentZc)

-----------------------------------------------------------------------------
(* Type invariant. *)
TypeOK ==
    /\ left_in \in Seq(0 .. M) /\ left_out \in Seq(0 .. M)
    /\ Len(right_in) <= InterCap /\ Len(right_out) <= InterCap
    /\ cur_level \in {0, 1}
    /\ pc \in {"idle", "run", "send", "closed", "panic"}
    /\ owed \in Nat /\ hs \in 0 .. Handshake

(* What an IntermedBuf holds is there only during the call. *)
Held(buf) == IF pc \in {"run", "panic"} THEN buf ELSE <<>>

In == INSTANCE Pipe WITH
        next <- Number(sent),
        queue <- SelectSeq(Held(right_in) \o left_in, IsByte),
        taken <- read

Out == INSTANCE Pipe WITH
        next <- made,
        queue <- SelectSeq(left_out \o Held(right_out), IsByte),
        taken <- gone

(* "Run blueprints end-to-end Left to Right": the app reads the peer's bytes,
   each once and in order, whether it has a layer in front of it or not and
   however many calls that takes, as long as no call has dropped any. *)
InImplementsPipe == [][dropped' \/ [In!Next]_(In!pipe)]_vars

(* No call does while the app reads all it is shown and the layer passes input
   on only when no output waits to be sent. *)
NothingDropped == [][quirks = {} => ~Drops]_vars

(* "... and back": what the app writes is sent, each byte once and in order,
   whatever the quirks. *)
OutImplementsPipe == Out!Spec

(* Every call of run_blueprints returns (or panics). *)
CallReturns == (pc = "run") ~> (pc # "run")

Ended == pc \in {"closed", "panic"}

(* Input that has arrived is passed to the app without the peer sending
   anything more, by a layer that takes all there is when it takes any and answers
   the message that ends the handshake; or the peer closes. *)
InputRead ==
    (layers > 0 /\ {"slices", "silent"} \cap quirks = {} /\ is_ready /\ left_in # <<>>)
       ~> (left_in = <<>> \/ Ended)

(* An answer, even one longer than an IntermedBuf or held back by send_all_out,
   is written and sent to its end without the peer sending anything more, unless it
   closes. *)
AnswersFinish ==
    (owed > 0 \/ left_out # <<>>) ~> ((owed = 0 /\ left_out = <<>>) \/ Ended)
=============================================================================
