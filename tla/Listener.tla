------------------------------ MODULE Listener ------------------------------
(***************************************************************************)
(* TcpListener (src/src/tcp_listener.rs) with the Replenish strategy and   *)
(* fixed file slots, over the io_uring it drives.                          *)
(*                                                                         *)
(* A call of check moves up to N completions from the completion queue to  *)
(* a bundle and then handles the bundle one by one, while the kernel goes  *)
(* on posting.  Completions name a slot of the fixed file table, never a   *)
(* connection, and a slot is given to the next connection once it is       *)
(* nuked; the field conn of a completion is what the kernel knows and the  *)
(* listener does not, and only the kernel and the properties read it.      *)
(*                                                                         *)
(* Of a stream the model keeps its two counters (see SendRing for the      *)
(* bytes behind them) and the two huge pages it holds, and of the program  *)
(* around it (examples/blueprint-tls-http) that every slot has a blueprint *)
(* of its own, made anew when its stream shuts down.                       *)
(***************************************************************************)
EXTENDS Integers, Sequences, FiniteSets

CONSTANTS
    Conns,       \* the connections that peers may open, each once
    NoConn,      \* no connection
    FixedCount,  \* entries of the fixed file table; entry 0 is the listener
    ReplCC,      \* accepts kept in flight
    N,           \* most completions one check takes
    BufLimit,    \* send_all_out declines above this many buffers (5)
    SendLimit,   \* ... and at the latest above this many sends (by its limit on bytes)
    MaxChunks,   \* most buffers one pass of the callback queues
    HugePages,   \* huge pages the system has
    MaxRecvs,    \* most receive completions in the queue
    MaxCq,       \* most completions in the queue
    MaxFull,     \* how often a submission may find no room
    Faults       \* what may go wrong: see AllFaults

(* A peer that closes while busy, one that resets, a send that fails, check before
   set_hugetlb. *)
AllFaults == {"busyclose", "reset", "sendfail", "unset"}

ASSUME ListenerAssumption ==
    /\ NoConn \notin Conns
    /\ FixedCount \in Nat \ {0}      \* reg_map[0] exists
    /\ ReplCC \in Nat
    /\ N \in Nat \ {0}
    /\ BufLimit \in Nat /\ SendLimit \in Nat /\ MaxChunks \in Nat
    /\ HugePages \in Nat
    /\ MaxRecvs \in Nat /\ MaxCq \in Nat /\ MaxFull \in Nat
    /\ Faults \subseteq AllFaults

Slots == 1 .. FixedCount - 1

NoStream == [conn |-> NoConn, sends |-> 0, bufs |-> 0]

VARIABLES
    \* the kernel
    peer,       \* per connection: "none", "queued", "open", "closed", "gone"
    accepts,    \* accept requests in flight
    table,      \* fixed file table: the connection in each slot
    at,         \* the slot each connection was accepted into
    armed,      \* connections with a multi-shot receive in flight
    unacked,    \* zero-copy sends whose first completion is not posted yet
    unnotified, \* ... whose second one is not
    cq,         \* the completion queue
    \* the listener
    hugetlb,    \* cfg_hugetlb has been set
    pages,      \* huge pages not in use
    pool,       \* the stream in each slot
    bundle,     \* what the running check has still to handle
    full,       \* how often a submission has found no room
    orphans,    \* history: connections whose stream was dropped with its receive
    orbit,      \* the program: the connection each slot's blueprint has worked for
    pc          \* "poll" (no check, or one about to collect), "bundle", "panic"

kernel == <<peer, accepts, table, at, armed, unacked, unnotified, cq>>
listener == <<hugetlb, pages, pool, bundle, full, orphans, orbit, pc>>
vars == <<kernel, listener>>

Cqe(kind, c, more) == [kind |-> kind, slot |-> at[c], conn |-> c, more |-> more]

(* listen_with_strategy: the table holds the listener only, ReplCC accepts are
   in flight. *)
Init ==
    /\ peer = [c \in Conns |-> "none"]
    /\ accepts = ReplCC
    /\ table = [s \in Slots |-> NoConn]
    /\ at = [c \in Conns |-> 0]
    /\ armed = {}
    /\ unacked = [c \in Conns |-> 0] /\ unnotified = [c \in Conns |-> 0]
    /\ cq = <<>>
    /\ hugetlb = FALSE
    /\ pages = HugePages
    /\ pool = [s \in Slots |-> NoStream]
    /\ bundle = <<>>
    /\ full = 0 /\ orphans = {}
    /\ orbit = [s \in Slots |-> NoConn]
    /\ pc = "poll"

-----------------------------------------------------------------------------
(* Peers and the kernel (external).                                        *)

Connect(c) ==
    /\ peer[c] = "none"
    /\ peer' = [peer EXCEPT ![c] = "queued"]
    /\ UNCHANGED <<accepts, table, at, armed, unacked, unnotified, cq, listener>>

KernelAccept(c, s) ==
    /\ peer[c] = "queued" /\ accepts > 0
    /\ table[s] = NoConn
    /\ peer' = [peer EXCEPT ![c] = "open"]
    /\ accepts' = accepts - 1
    /\ table' = [table EXCEPT ![s] = c]
    /\ at' = [at EXCEPT ![c] = s]
    /\ cq' = Append(cq, [kind |-> "accept", slot |-> s, conn |-> c, more |-> FALSE])
    /\ UNCHANGED <<armed, unacked, unnotified, listener>>

(* No slot is free: the connection is dropped and the accept fails. *)
KernelAcceptFull(c) ==
    /\ peer[c] = "queued" /\ accepts > 0
    /\ \A s \in Slots : table[s] # NoConn
    /\ peer' = [peer EXCEPT ![c] = "gone"]
    /\ accepts' = accepts - 1
    /\ cq' = Append(cq, Cqe("refused", c, FALSE))
    /\ UNCHANGED <<table, at, armed, unacked, unnotified, listener>>

Pending(kinds, c) ==
    \/ \E i \in DOMAIN cq : cq[i].kind \in kinds /\ cq[i].conn = c
    \/ \E i \in DOMAIN bundle : bundle[i].kind \in kinds /\ bundle[i].conn = c

(* Nothing of the exchange with the peer is under way. *)
Idle(c) == unnotified[c] = 0 /\ ~Pending({"recv", "send"}, c)

(* The peer stops sending; unless "busyclose" it does so only when idle. *)
PeerClose(c) ==
    /\ peer[c] = "open"
    /\ "busyclose" \in Faults \/ Idle(c)
    /\ peer' = [peer EXCEPT ![c] = "closed"]
    /\ UNCHANGED <<accepts, table, at, armed, unacked, unnotified, cq, listener>>

KernelRecv(c) ==
    /\ c \in armed /\ peer[c] = "open"
    /\ Cardinality({i \in DOMAIN cq : cq[i].kind = "recv"}) < MaxRecvs
    /\ cq' = Append(cq, Cqe("recv", c, TRUE))
    /\ UNCHANGED <<peer, accepts, table, at, armed, unacked, unnotified, listener>>

KernelEof(c) ==
    /\ c \in armed /\ peer[c] = "closed"
    /\ armed' = armed \ {c}
    /\ cq' = Append(cq, Cqe("recv", c, FALSE))
    /\ UNCHANGED <<peer, accepts, table, at, unacked, unnotified, listener>>

(* The connection is reset: the receive ends with an error. *)
KernelReset(c) ==
    /\ "reset" \in Faults
    /\ c \in armed
    /\ armed' = armed \ {c}
    /\ cq' = Append(cq, Cqe("reset", c, FALSE))
    /\ UNCHANGED <<peer, accepts, table, at, unacked, unnotified, listener>>

KernelAck(c) ==
    /\ unacked[c] > 0
    /\ unacked' = [unacked EXCEPT ![c] = @ - 1]
    /\ cq' = Append(cq, Cqe("send", c, TRUE))
    /\ UNCHANGED <<peer, accepts, table, at, armed, unnotified, listener>>

(* A send fails, with the notification still to come or without one. *)
KernelSendFails(c) ==
    /\ "sendfail" \in Faults
    /\ unacked[c] > 0
    /\ unacked' = [unacked EXCEPT ![c] = @ - 1]
    /\ \E more \in BOOLEAN :
          /\ unnotified' = IF more THEN unnotified ELSE [unnotified EXCEPT ![c] = @ - 1]
          /\ cq' = Append(cq, Cqe("failed", c, more))
    /\ UNCHANGED <<peer, accepts, table, at, armed, listener>>

KernelNotif(c) ==
    /\ unnotified[c] > unacked[c]
    /\ unnotified' = [unnotified EXCEPT ![c] = @ - 1]
    /\ cq' = Append(cq, Cqe("send", c, FALSE))
    /\ UNCHANGED <<peer, accepts, table, at, armed, unacked, listener>>

-----------------------------------------------------------------------------
(* The listener.                                                           *)

SetHugeTlb ==
    /\ pc = "poll" /\ ~hugetlb
    /\ hugetlb' = TRUE
    /\ UNCHANGED <<kernel, pages, pool, bundle, full, orphans, orbit, pc>>

Taken == IF Len(cq) < N THEN Len(cq) ELSE N

(* The program sets up huge pages before its first check, unless "unset". *)
Configured == hugetlb \/ "unset" \in Faults

(* Phase 1 of check: handle_completions. *)
CheckCollect ==
    /\ pc = "poll" /\ cq # <<>>
    /\ Configured
    /\ \A i \in 1 .. Taken : cq[i].kind # "reset"
    /\ bundle' = SubSeq(cq, 1, Taken)
    /\ cq' = SubSeq(cq, Taken + 1, Len(cq))
    /\ pc' = "bundle"
    /\ UNCHANGED <<peer, accepts, table, at, armed, unacked, unnotified,
                   hugetlb, pages, pool, full, orphans, orbit>>

(* A receive with a negative result panics. *)
CheckCollectPanics ==
    /\ pc = "poll"
    /\ Configured
    /\ \E i \in 1 .. Taken : cq[i].kind = "reset"
    /\ pc' = "panic"
    /\ UNCHANGED <<kernel, hugetlb, pages, pool, bundle, full, orphans, orbit>>

(* Phase 2: the handler of each kind of completion, once per entry. *)
First(kind) == pc = "bundle" /\ Head(bundle).kind = kind

Pop ==
    /\ bundle' = Tail(bundle)
    /\ pc' = IF Tail(bundle) = <<>> THEN "poll" ELSE "bundle"

(* An error is returned: what is left of the bundle goes with it. *)
ReturnErr ==
    /\ bundle' = <<>>
    /\ pc' = "poll"

(* A submission finds no room (external), which is an error. *)
NoRoom ==
    /\ full < MaxFull
    /\ full' = full + 1
    /\ ReturnErr

Panic ==
    /\ pc' = "panic"
    /\ UNCHANGED <<kernel, hugetlb, pages, pool, bundle, full, orphans, orbit>>

(* How many sends the loop "callback, send_all_out, until nothing is sent" adds
   to a stream that counts sends and bufs: each pass but the last starts at the
   limits or below.  A peer that closed when idle wants no more output. *)
LoopSends(c, sends, bufs) ==
    IF bufs > BufLimit \/ sends > SendLimit \/ ("busyclose" \notin Faults /\ peer[c] = "closed")
    THEN {0}
    ELSE 0 .. BufLimit - bufs + MaxChunks

(* The callback of the example, run_blueprints with the blueprint of the slot, for
   connection c; a new blueprint remembers the first one. *)
RunBlueprints(s, c) == orbit' = [orbit EXCEPT ![s] = IF @ = NoConn THEN c ELSE @]

(* Mutant: the callback does not look at shutdown. *)
ResetNothing(s) == orbit' = orbit

(* ... and with shutdown: a new blueprint for the slot. *)
ResetBlueprints(s) == orbit' = [orbit EXCEPT ![s] = NoConn]

AddSends(c, k) ==
    /\ unacked' = [unacked EXCEPT ![c] = @ + k]
    /\ unnotified' = [unnotified EXCEPT ![c] = @ + k]

(* The loop, in slot s, after the handler has left the counters at these
   values.  It ends with nothing to send, or with a chunk that finds no room in
   the submission queue: the sends before it are out, check returns. *)
RunLoop(s, sends, bufs) ==
    LET c == pool[s].conn IN
    \E k \in LoopSends(c, sends, bufs) :
       /\ pool' = [pool EXCEPT ![s].sends = sends + k, ![s].bufs = bufs + k]
       /\ AddSends(c, k)
       /\ RunBlueprints(s, c)
       /\ \/ Pop /\ UNCHANGED full
          \/ k + 1 \in LoopSends(c, sends, bufs) /\ NoRoom

(* sent_zc takes the bytes off on the first completion: those of the one send it
   is of or, when it comes late and the slot has a new stream by now, a number that
   has nothing to do with the sends of that stream. *)
Charges(s, e) ==
    IF ~e.more THEN {0}
    ELSE IF e.conn = pool[s].conn THEN {1} ELSE 0 .. pool[s].sends + 1

(* ... and the buffer on the second.  Mutant: the buffer counts as free on either
   completion. *)
BufsAfterEither(s, more) == pool[s].bufs - 1

BufsAfter(s, more) == IF more THEN pool[s].bufs ELSE pool[s].bufs - 1

HandleSentZc ==
    /\ First("send")
    /\ LET s == Head(bundle).slot
           more == Head(bundle).more
       IN  /\ pool[s] # NoStream
           /\ BufsAfter(s, more) >= 0
           /\ \E n \in Charges(s, Head(bundle)) :
                 /\ n <= pool[s].sends
                 /\ RunLoop(s, pool[s].sends - n, BufsAfter(s, more))
    /\ UNCHANGED <<peer, accepts, table, at, armed, cq, hugetlb, pages, orphans>>

(* todo!("BUG: {slot} not exist?") *)
HandleSentZcNoSlot ==
    /\ First("send")
    /\ pool[Head(bundle).slot] = NoStream
    /\ Panic

(* A subtraction in sent_zc underflows. *)
HandleSentZcUnderflow ==
    /\ First("send")
    /\ LET s == Head(bundle).slot
       IN  /\ pool[s] # NoStream
           /\ \/ BufsAfter(s, Head(bundle).more) < 0
              \/ \E n \in Charges(s, Head(bundle)) : n > pool[s].sends
    /\ Panic

(* A failed send is printed and not bundled: no sent_zc, no callback, the counters
   stay up.  Skipping it here comes to the same. *)
HandleSendFailed ==
    /\ First("failed")
    /\ Pop
    /\ UNCHANGED <<kernel, hugetlb, pages, pool, full, orphans, orbit>>

(* Mutants: the stream stays in the pool; one page is forgotten; the file stays
   in the table. *)
RemoveNothing(s) == pool' = pool
DestroyOnePage == pages' = pages + 1
NukeNothing(s) == table' = table

Remove(s) == pool' = [pool EXCEPT ![s] = NoStream]

(* Both huge pages are dropped, whether or not a send still reads one. *)
Destroy == pages' = pages + 2

NukeFixed(s) == table' = [table EXCEPT ![s] = NoConn]

Release(s) == Remove(s) /\ Destroy /\ NukeFixed(s)

(* Mutant: the stream is let go on the first receive instead of the last. *)
HandleRecvReleases ==
    /\ First("recv") /\ Head(bundle).more
    /\ pool[Head(bundle).slot] # NoStream
    /\ Release(Head(bundle).slot)
    /\ Pop
    /\ UNCHANGED <<peer, accepts, at, armed, unacked, unnotified, cq, hugetlb, full, orphans, orbit>>

HandleRecv ==
    /\ First("recv") /\ Head(bundle).more
    /\ LET s == Head(bundle).slot
       IN  /\ pool[s] # NoStream
           /\ RunLoop(s, pool[s].sends, pool[s].bufs)
    /\ UNCHANGED <<peer, accepts, table, at, armed, cq, hugetlb, pages, orphans>>

(* The last receive completion: the callback is told, nothing is sent. *)
HandleShutdown ==
    /\ First("recv") /\ ~Head(bundle).more
    /\ pool[Head(bundle).slot] # NoStream
    /\ ResetBlueprints(Head(bundle).slot)
    /\ Release(Head(bundle).slot)
    /\ Pop
    /\ UNCHANGED <<peer, accepts, at, armed, unacked, unnotified, cq, hugetlb, full, orphans>>

(* todo!("BUG: {slot} not exist?") *)
HandleRecvNoSlot ==
    /\ First("recv")
    /\ pool[Head(bundle).slot] = NoStream
    /\ Panic

(* Mutants: no new accept is issued; two are. *)
ReplenishNone == accepts' = accepts
ReplenishTwice == accepts' = accepts + 2

Replenish == accepts' = accepts + 1

(* Mutant: the second page is not asked for. *)
OnePageEnough == hugetlb /\ pages >= 1

HavePages == hugetlb /\ pages >= 2

(* Mutant: the receive is not issued. *)
ArmNothing(c) == armed' = armed

Arm(c) == armed' = armed \cup {c}

(* Accepted: replenish, two pages, callback, recv_multi, send_all_out once,
   insert.  The stream is the one behind the slot, whoever that is. *)
HandleAccepted ==
    /\ First("accept")
    /\ HavePages
    /\ Replenish
    /\ pages' = pages - 2
    /\ LET s == Head(bundle).slot
           c == table[s]
       IN \E k \in 0 .. MaxChunks :
            /\ k > 0 => "busyclose" \in Faults \/ peer[c] # "closed"
            /\ pool' = [pool EXCEPT ![s] = [conn |-> c, sends |-> k, bufs |-> k]]
            /\ AddSends(c, k)
            /\ RunBlueprints(s, c)
            /\ Arm(c)
    /\ Pop
    /\ UNCHANGED <<peer, table, at, cq, hugetlb, full, orphans>>

(* There is no room for the new accept. *)
HandleAcceptedNoAccept ==
    /\ First("accept")
    /\ NoRoom
    /\ UNCHANGED <<kernel, hugetlb, pages, pool, orphans, orbit>>

(* Without huge pages there is no buffer to receive into (BpNeedBuffers); too
   few of them is an error too, and so is no room for the receive.  The accept
   has been replenished, pages are given back and the file stays in its slot. *)
HandleAcceptedFails ==
    /\ First("accept")
    /\ Replenish
    /\ \/ ~HavePages /\ ReturnErr /\ UNCHANGED <<full, orbit>>
       \/ /\ HavePages /\ NoRoom
          /\ RunBlueprints(Head(bundle).slot, table[Head(bundle).slot])
    /\ UNCHANGED <<peer, table, at, armed, unacked, unnotified, cq, hugetlb, pages, pool, orphans>>

(* There is no room for a send: the stream and its pages are dropped, the receive
   and the sends before it stay. *)
HandleAcceptedNoSend ==
    /\ First("accept")
    /\ HavePages
    /\ Replenish
    /\ LET s == Head(bundle).slot
           c == table[s]
       IN  /\ RunBlueprints(s, c)
           /\ \E k \in 0 .. MaxChunks - 1 : AddSends(c, k)
           /\ Arm(c)
           /\ orphans' = orphans \cup {c}
    /\ NoRoom
    /\ UNCHANGED <<peer, table, at, cq, hugetlb, pages, pool>>

(* A failed accept is skipped and not replenished. *)
HandleAcceptError ==
    /\ First("refused")
    /\ Pop
    /\ UNCHANGED <<kernel, hugetlb, pages, pool, full, orphans, orbit>>

-----------------------------------------------------------------------------
Kernel(c) ==
    \/ \E s \in Slots : KernelAccept(c, s)
    \/ KernelAcceptFull(c)
    \/ KernelEof(c) \/ KernelReset(c)
    \/ KernelAck(c) \/ KernelSendFails(c) \/ KernelNotif(c)

Check ==
    \/ CheckCollect \/ CheckCollectPanics
    \/ HandleSentZc \/ HandleSentZcNoSlot \/ HandleSentZcUnderflow
    \/ HandleSendFailed
    \/ HandleRecv \/ HandleShutdown \/ HandleRecvNoSlot
    \/ HandleAccepted \/ HandleAcceptedNoAccept \/ HandleAcceptedFails
    \/ HandleAcceptedNoSend \/ HandleAcceptError

(* A panic ends the process, and the ring with it. *)
Alive == pc # "panic"

CqRoom == Len(cq) < MaxCq

Next ==
    \/ \E c \in Conns :
          \/ Alive /\ (Connect(c) \/ PeerClose(c))
          \/ Alive /\ CqRoom /\ (KernelRecv(c) \/ Kernel(c))
    \/ SetHugeTlb
    \/ Check

Spec == Init /\ [][Next]_vars

(* The program calls check in a loop; the kernel serves what it was asked. *)
FairSpec ==
    /\ Spec
    /\ WF_vars(SetHugeTlb)
    /\ WF_vars(Check)
    /\ \A c \in Conns : WF_vars(Alive /\ CqRoom /\ Kernel(c))

-----------------------------------------------------------------------------
Cqes == [kind: {"accept", "refused", "recv", "reset", "send", "failed"},
         slot: 0 .. FixedCount - 1, conn: Conns, more: BOOLEAN]

(* Type invariant. *)
TypeOK ==
    /\ peer \in [Conns -> {"none", "queued", "open", "closed", "gone"}]
    /\ accepts \in Nat
    /\ table \in [Slots -> Conns \cup {NoConn}]
    /\ at \in [Conns -> 0 .. FixedCount - 1]
    /\ armed \subseteq Conns
    /\ unacked \in [Conns -> Nat] /\ unnotified \in [Conns -> Nat]
    /\ cq \in Seq(Cqes) /\ bundle \in Seq(Cqes)
    /\ hugetlb \in BOOLEAN /\ pages \in Nat
    /\ pool \in [Slots -> [conn: Conns \cup {NoConn}, sends: Nat, bufs: Nat]]
    /\ full \in 0 .. MaxFull /\ orphans \subseteq Conns
    /\ orbit \in [Slots -> Conns \cup {NoConn}]
    /\ pc \in {"poll", "bundle", "panic"}

InPool(c) == \E s \in Slots : pool[s].conn = c

(* A stream in the pool drives the connection behind its slot: an accept never
   lands on a slot whose stream is still there, and a slot is not given away
   under a stream. *)
SlotOwnership == \A s \in Slots : pool[s] # NoStream => table[s] = pool[s].conn

(* The blueprint that runs a connection has run no other one, however the slot's
   last connection ended: its TLS session and half-read requests are gone. *)
BlueprintOwn == \A s \in Slots : pool[s] # NoStream => orbit[s] = pool[s].conn

AcceptCqes(q) == Cardinality({i \in DOMAIN q : q[i].kind \in {"accept", "refused"}})

(* Every huge page is free or held by a stream of the pool, two each. *)
PagesConserved ==
    pages + 2 * Cardinality({s \in Slots : pool[s] # NoStream}) = HugePages

(* The accepts in flight or completed and not handled are as many as the
   strategy asks for, at every moment. *)
AcceptsReplenished ==
    accepts + AcceptCqes(cq) + AcceptCqes(bundle) = ReplCC

(* Never more than that, whatever fails. *)
AcceptsBounded ==
    accepts + AcceptCqes(cq) + AcceptCqes(bundle) <= ReplCC

CountFor(q, c, more) ==
    Cardinality({i \in DOMAIN q :
                   q[i].kind = "send" /\ q[i].conn = c /\ q[i].more = more})

(* The counters of a stream cover the completions of its own sends that are
   still to be handled: neither subtraction of sent_zc can underflow. *)
CountersCoverSends ==
    \A s \in Slots : pool[s] # NoStream =>
       LET c == pool[s].conn IN
       /\ pool[s].sends >= unacked[c] + CountFor(cq, c, TRUE) + CountFor(bundle, c, TRUE)
       /\ pool[s].bufs >= unnotified[c] + CountFor(cq, c, FALSE) + CountFor(bundle, c, FALSE)

(* No completion of a send is handled for a slot that has no stream, the case marked
   "BUG" in check. *)
NoStaleCompletion ==
    pc = "bundle" /\ Head(bundle).kind = "send" => pool[Head(bundle).slot] # NoStream

(* The receive completions never are, except those of a connection whose accept
   failed behind recv_multi: otherwise a multi-shot receive is issued before its
   stream enters the pool, and the stream leaves with its last completion. *)
RecvNeverStale ==
    pc = "bundle" /\ Head(bundle).kind = "recv" =>
       pool[Head(bundle).slot] # NoStream \/ Head(bundle).conn \in orphans

(* A stream with sends under way, and with it the out page the kernel still reads,
   is let go only when the peer has closed and the last receive of the connection is
   handled, or when its accept failed behind recv_multi: no error, no bundle that is
   dropped and no completion of another connection takes it away. *)
OnlyEofDropsStream ==
    \A c \in Conns : unnotified[c] > 0 \/ Pending({"send"}, c) =>
       \/ InPool(c) \/ c \in orphans
       \/ peer[c] = "closed" /\ c \notin armed /\ ~Pending({"recv"}, c)

(* A connection in the table is in the pool or about to be: no slot is lost. *)
NoSlotLeak ==
    \A s \in Slots :
       table[s] # NoConn => InPool(table[s]) \/ Pending({"accept"}, table[s])

(* A connection that the peer has closed gives its slot back. *)
ClosedReleased == \A c \in Conns : (peer[c] = "closed") ~> (\A s \in Slots : table[s] # c)
=============================================================================
