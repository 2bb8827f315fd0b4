----------------------------- MODULE MCRecvRing -----------------------------
(* RecvRing with the properties that compare the stream's positions with    *)
(* the kernel's, byte by byte.                                              *)
EXTENDS RecvRing, FiniteSets

(* Bytes the kernel has written and the stream does not know of yet: one element
   for each of them. *)
Unseen == Cardinality(UNION {{i} \X (1 .. cq[i]) : i \in DOMAIN cq})

(* The bytes of the page that hold data the callback has not consumed. *)
Unread == {p % Cap : p \in pos_in_start .. pos_in_end + Unseen - 1}

(* The bytes of the page the kernel may write. *)
Writable ==
    UNION {{ring[i] * BufSize + k : k \in (IF i = 1 THEN fill ELSE 0) .. BufSize - 1} :
             i \in DOMAIN ring}

(* The byte the stream takes for the next one to arrive is the byte the kernel
   will write next, however often both have gone round the page: what the
   callback is shown is what the peer sent, in order. *)
ViewAgrees ==
    ring # <<>> => Head(ring) * BufSize + fill = (pos_in_end + Unseen) % Cap

(* The kernel is never given bytes that the callback has not consumed. *)
UnreadKept == Unread \cap Writable = {}

(* Both of these for every segment size and every amount left unread, until a
   buffer id outside the page is given back. *)
KeptInPage == RingInPage => UnreadKept /\ ViewAgrees

(* Between handlers, a buffer that is not the kernel's still holds unread data
   or is the one the cursor stands in: no buffer is lost to both sides. *)
NoBufferLost ==
    pc = "idle" =>
       \A b \in 0 .. NBufs - 1 :
          \/ \E i \in DOMAIN ring : ring[i] = b
          \/ \E p \in Unread \cup {pos_in_start % Cap} : p \div BufSize = b
=============================================================================
