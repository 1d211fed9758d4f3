------------------------------ MODULE Sockets ------------------------------
(***************************************************************************)
(* Moving a list of buffers through a stream socket                        *)
(* (src/xplat/src/SocketUtils-unix.C and SocketUtils-win.C, and            *)
(* lightweight/SocketUtils-unix.c), where the kernel takes and gives any   *)
(* number of bytes at a time, and connecting with retries                  *)
(* (SocketUtils.C).                                                        *)
(*                                                                         *)
(* The bytes of the message are numbered from 1 across its buffers.  A     *)
(* piece [at, n] is the n bytes from byte at on: a buffer, or what is left *)
(* of one.  Both ends know the lengths, as Message::recv does once it has  *)
(* the size vector.                                                        *)
(***************************************************************************)
EXTENDS Naturals, Sequences, SequencesExt, FiniteSetsExt

CONSTANTS Lens,        \* lengths of the buffers
          IovMax,      \* bound: buffers handed to one writev or recvmsg
          NumRetry,    \* num_retry of Connect
          MaxTries     \* bound: tries that are followed when num_retry is 0

\* No batch of buffers is empty: Message::send puts the buffer of a packet behind its header,
\* and IOV_MAX is even, so that every batch begins with the count of packets or with a header.
ASSUME LensAssumption ==
  /\ Lens \in Seq(Nat) /\ IovMax \in Nat \ {0} /\ NumRetry \in Nat
  /\ \A j \in 0..Len(Lens) : j * IovMax < Len(Lens) =>
       \E i \in 1..Len(Lens) : j * IovMax < i /\ i <= (j + 1) * IovMax /\ Lens[i] > 0

VARIABLES
  impl,    \* the implementation at each end
  snd,     \* Send: next buffer, pieces left of the batch, result
  rcv,     \* Recv: likewise
  sent,    \* every byte the kernel took, in order
  consumed,   \* how many of those the receiver was given
  mem,     \* what is in the receiver's buffers, by byte
  open,    \* whether the connection stands
  dial,    \* Connect
  lst      \* CreateListening and AcceptConnection
socketVars == <<impl, snd, rcv, sent, consumed, mem, open, dial, lst>>
endVars == <<dial, lst>>

Impls == {"unix", "win", "lightweight", "lightweight_win"}
Windows == {"win", "lightweight_win"}
Sums(lens) ==
  LET upto[i \in 0..Len(lens)] == IF i = 0 THEN 0 ELSE upto[i - 1] + lens[i] IN upto
TotalLen == Sums(Lens)[Len(Lens)]
StartOf(i) == 1 + Sums(Lens)[i - 1]
Buffers(lo, hi) == [k \in 1..(hi - lo + 1) |-> [at |-> StartOf(lo + k - 1), n |-> Lens[lo + k - 1]]]

\* How many bytes the first pieces have, all of them, and which bytes they are.
Upto(pieces) == Sums([i \in 1..Len(pieces) |-> pieces[i].n])
Size(pieces) == Upto(pieces)[Len(pieces)]
BytesOf(pieces) ==
  [j \in 1..Size(pieces) |->
     LET i == CHOOSE p \in 1..Len(pieces) : Upto(pieces)[p - 1] < j /\ j <= Upto(pieces)[p]
     IN  pieces[i].at + (j - Upto(pieces)[i - 1]) - 1]
\* The number of pieces that are full when k bytes were moved.
Full(pieces, k) ==
  CHOOSE m \in 0..Len(pieces) : /\ \A i \in 1..m : Upto(pieces)[i] <= k
                                /\ m = Len(pieces) \/ Upto(pieces)[m + 1] > k

\* Mutant: the rest of a buffer starts at its beginning.
unsent_fromStart(pieces, k) == SubSeq(pieces, Full(pieces, k) + 1, Len(pieces))

\* What is left of the pieces when the kernel moved k bytes: the buffers that went in
\* full are passed over, the next one goes on where it stopped.
unsent(pieces, k) ==
  LET m == Full(pieces, k)
      part == k - Upto(pieces)[m]
  IN  [i \in 1..(Len(pieces) - m) |->
         IF i = 1 THEN [at |-> pieces[m + 1].at + part, n |-> pieces[m + 1].n - part] ELSE pieces[m + i]]

NotStarted == [pc |-> "batch", ndx |-> 0, left |-> <<>>, ret |-> 0, part |-> 0]
NoSocket == [impl |-> "none", fd |-> "none", tries |-> 0, res |-> "none"]

SocketsInit ==
  /\ impl = [out |-> "none", in |-> "none", interrupted |-> FALSE]
  /\ snd = NotStarted /\ rcv = NotStarted
  /\ sent = <<>> /\ consumed = 0
  /\ mem = [b \in 1..TotalLen |-> 0]
  /\ open = TRUE
  /\ dial = NoSocket /\ lst = NoSocket

BeginTransfer ==
  /\ impl.out = "none" /\ dial = NoSocket /\ lst = NoSocket
  /\ \E o, i \in Impls : impl' = [impl EXCEPT !.out = o, !.in = i]
  /\ UNCHANGED <<snd, rcv, sent, consumed, mem, open, endVars>>

\* The kernel takes k bytes of the pieces.
Take(pieces, k) == sent' = sent \o SubSeq(BytesOf(pieces), 1, k)

\* The kernel moves some bytes, or all of them, or there were none to move.
Amount(n) == IF n = 0 THEN {0} ELSE 1..n

-----------------------------------------------------------------------------
\* Send, unix: a batch of at most IovMax buffers goes to writev; when it takes less, the
\* rest of the batch goes piece by piece to send.
Batch(from) == Buffers(from + 1, Min({from + IovMax, Len(Lens)}))

Send_writev ==
  /\ impl.out = "unix" /\ snd.pc = "batch" /\ snd.ndx < Len(Lens) /\ open
  /\ \E k \in Amount(Size(Batch(snd.ndx))) :
       /\ Take(Batch(snd.ndx), k)
       /\ snd' = [snd EXCEPT !.pc = IF k = Size(Batch(snd.ndx)) THEN "batch" ELSE "pieces",
                             !.ndx = @ + Len(Batch(snd.ndx)),
                             !.left = unsent(Batch(snd.ndx), k),
                             !.ret = @ + k]
  /\ UNCHANGED <<impl, rcv, consumed, mem, open, endVars>>

\* A writev that was interrupted: the next round begins after the buffers of this one.
Send_interrupted ==
  /\ impl.out = "unix" /\ snd.pc = "batch" /\ snd.ndx < Len(Lens) /\ open
  /\ impl' = [impl EXCEPT !.interrupted = TRUE]
  /\ snd' = [snd EXCEPT !.ndx = @ + Len(Batch(snd.ndx))]
  /\ UNCHANGED <<rcv, sent, consumed, mem, open, endVars>>

\* Mutant: counts the whole piece as written.
sendPiece_counts ==
  /\ snd.pc = "pieces" /\ snd.left # <<>> /\ open
  /\ \E k \in Amount(Head(snd.left).n) :
       /\ Take(<<Head(snd.left)>>, k)
       /\ snd' = [snd EXCEPT !.left = Tail(@), !.ret = @ + Head(snd.left).n]
  /\ UNCHANGED <<impl, rcv, consumed, mem, open, endVars>>

\* send: goes on until the piece is through; EINTR and EAGAIN only try again.
sendPiece ==
  /\ snd.pc = "pieces" /\ snd.left # <<>> /\ open
  /\ \E k \in Amount(Head(snd.left).n) :
       /\ Take(<<Head(snd.left)>>, k)
       /\ snd' = [snd EXCEPT !.left = unsent(<<Head(snd.left)>>, k) \o Tail(@), !.ret = @ + k]
  /\ UNCHANGED <<impl, rcv, consumed, mem, open, endVars>>

send_unix == impl.out = "unix" /\ sendPiece

\* The batch is through, and after the last one Send is.
Send_nextBatch ==
  /\ impl.out = "unix"
  /\ \/ /\ snd.pc = "pieces" /\ snd.left = <<>>
        /\ snd' = [snd EXCEPT !.pc = "batch"]
     \/ /\ snd.pc = "batch" /\ snd.ndx = Len(Lens)
        /\ snd' = [snd EXCEPT !.pc = "done"]
  /\ UNCHANGED <<impl, rcv, sent, consumed, mem, open, endVars>>

\* Send, lightweight: one send for each buffer
Send_lightweight ==
  /\ impl.out = "lightweight"
  /\ \/ /\ snd.pc = "batch"
        /\ snd' = [snd EXCEPT !.pc = "pieces", !.ndx = Len(Lens), !.left = Buffers(1, Len(Lens))]
     \/ /\ snd.pc = "pieces" /\ snd.left = <<>>
        /\ snd' = [snd EXCEPT !.pc = "done"]
  /\ UNCHANGED <<impl, rcv, sent, consumed, mem, open, endVars>>

send_lightweight == impl.out = "lightweight" /\ sendPiece

\* Send, Windows: every WSASend is handed all that is left.
WSASend ==
  /\ snd.pc = "batch" /\ open
  /\ LET left == IF snd.ndx = 0 THEN Buffers(1, Len(Lens)) ELSE snd.left
     IN  \E k \in Amount(Size(left)) :
           /\ Take(left, k)
           /\ snd' = [snd EXCEPT !.pc = IF k = Size(left) THEN "done" ELSE "batch",
                                 !.ndx = Len(Lens), !.left = unsent(left, k), !.ret = @ + k]
  /\ UNCHANGED <<impl, rcv, consumed, mem, open, endVars>>

Send_win == impl.out = "win" /\ WSASend
Send_lightweight_win == impl.out = "lightweight_win" /\ WSASend

\* The connection is gone.  writev and the WSASend of the C library answer -1, the other
\* WSASend the zero bytes of its last call, send what it wrote before.
Send_fails ==
  /\ ~open /\ snd.pc \in {"batch", "pieces"} /\ impl.out # "none"
  /\ snd' = [snd EXCEPT !.pc = "done",
                        !.ret = IF snd.pc = "batch" /\ (impl.out = "unix" => snd.ndx < Len(Lens))
                                THEN 0 ELSE @]
  /\ UNCHANGED <<impl, rcv, sent, consumed, mem, open, endVars>>

-----------------------------------------------------------------------------
\* Recv is handed k of the bytes that wait and stores them from the first piece on.
Waiting == Len(sent) - consumed
Store(pieces, k) ==
  /\ LET places == BytesOf(pieces)
     IN  mem' = [b \in 1..TotalLen |->
                   IF \E i \in 1..k : places[i] = b
                   THEN sent[consumed + (CHOOSE i \in 1..k : places[i] = b)] ELSE mem[b]]
  /\ consumed' = consumed + k

\* Recv, unix: recvmsg for a batch, then recv piece by piece.
Recv_recvmsg ==
  /\ impl.in = "unix" /\ rcv.pc = "batch" /\ rcv.ndx < Len(Lens)
  /\ Waiting > 0 \/ Size(Batch(rcv.ndx)) = 0
  /\ \E k \in Amount(Min({Size(Batch(rcv.ndx)), Waiting})) :
       /\ Store(Batch(rcv.ndx), k)
       /\ rcv' = [rcv EXCEPT !.pc = IF k = Size(Batch(rcv.ndx)) THEN "batch" ELSE "pieces",
                             !.ndx = @ + Len(Batch(rcv.ndx)),
                             !.left = unsent(Batch(rcv.ndx), k),
                             !.ret = @ + k]
  /\ UNCHANGED <<impl, snd, sent, open, endVars>>

\* recv: goes on until the piece is full.
recvPiece ==
  /\ rcv.pc = "pieces" /\ rcv.left # <<>>
  /\ Waiting > 0 \/ Head(rcv.left).n = 0
  /\ \E k \in Amount(Min({Head(rcv.left).n, Waiting})) :
       /\ Store(<<Head(rcv.left)>>, k)
       /\ rcv' = [rcv EXCEPT !.left = unsent(<<Head(rcv.left)>>, k) \o Tail(@), !.ret = @ + k,
                             !.part = IF k = Head(rcv.left).n THEN 0 ELSE @ + k]
  /\ UNCHANGED <<impl, snd, sent, open, endVars>>

recv_unix == impl.in = "unix" /\ recvPiece

Recv_nextBatch ==
  /\ impl.in = "unix"
  /\ \/ /\ rcv.pc = "pieces" /\ rcv.left = <<>>
        /\ rcv' = [rcv EXCEPT !.pc = "batch"]
     \/ /\ rcv.pc = "batch" /\ rcv.ndx = Len(Lens)
        /\ rcv' = [rcv EXCEPT !.pc = "done"]
  /\ UNCHANGED <<impl, snd, sent, consumed, mem, open, endVars>>

Recv_lightweight ==
  /\ impl.in = "lightweight"
  /\ \/ /\ rcv.pc = "batch"
        /\ rcv' = [rcv EXCEPT !.pc = "pieces", !.ndx = Len(Lens), !.left = Buffers(1, Len(Lens))]
     \/ /\ rcv.pc = "pieces" /\ rcv.left = <<>>
        /\ rcv' = [rcv EXCEPT !.pc = "done"]
  /\ UNCHANGED <<impl, snd, sent, consumed, mem, open, endVars>>

recv_lightweight == impl.in = "lightweight" /\ recvPiece

WSARecv ==
  /\ rcv.pc = "batch" /\ Waiting > 0
  /\ LET left == IF rcv.ndx = 0 THEN Buffers(1, Len(Lens)) ELSE rcv.left
     IN  \E k \in Amount(Min({Size(left), Waiting})) :
           /\ Store(left, k)
           /\ rcv' = [rcv EXCEPT !.pc = IF k = Size(left) THEN "done" ELSE "batch",
                                 !.ndx = Len(Lens), !.left = unsent(left, k), !.ret = @ + k]
  /\ UNCHANGED <<impl, snd, sent, open, endVars>>

Recv_win == impl.in = "win" /\ WSARecv
Recv_lightweight_win == impl.in = "lightweight_win" /\ WSARecv

\* Nothing waits and the peer is gone: WSARecv makes the result -1 (0 here), recv drops
\* what it had of its piece; recv of nothing does not fail.
Recv_fails ==
  /\ ~open /\ Waiting = 0 /\ impl.in # "none" /\ rcv.pc \in {"batch", "pieces"}
  /\ rcv.pc = "batch" => rcv.ndx < Len(Lens) \/ rcv.left # <<>>
  /\ rcv.pc = "pieces" => rcv.left # <<>> /\ Head(rcv.left).n > 0
  /\ rcv' = [rcv EXCEPT !.pc = "failed", !.ret = IF impl.in \in Windows THEN 0 ELSE @ - rcv.part]
  /\ UNCHANGED <<impl, snd, sent, consumed, mem, open, endVars>>

\* The sender's process ends.
Disconnect ==
  /\ impl.out # "none" /\ open
  /\ open' = FALSE
  /\ UNCHANGED <<impl, snd, rcv, sent, consumed, mem, endVars>>

-----------------------------------------------------------------------------
transferVars == <<impl, snd, rcv, sent, consumed, mem, open>>

\* Connect makes a socket and looks the host up; when that fails the socket is left open.
Connect_start ==
  /\ dial.impl = "none" /\ impl.out = "none"
  /\ \E i \in {"unix", "lightweight"} :
       \/ dial' = [dial EXCEPT !.impl = i, !.fd = "open", !.res = "trying"]
       \/ dial' = [dial EXCEPT !.impl = i, !.fd = "open", !.res = "unresolved"]
       \/ dial' = [dial EXCEPT !.impl = i, !.res = "failed"]
  /\ UNCHANGED <<transferVars, lst>>

Exhausted(tries) == NumRetry > 0 /\ tries >= NumRetry

\* Mutant: compares before it counts.
Connect_oneMore ==
  /\ dial.impl = "lightweight" /\ dial.res = "trying" /\ dial.tries < MaxTries
  /\ dial' = IF Exhausted(dial.tries) THEN [dial EXCEPT !.tries = @ + 1, !.res = "failed"]
             ELSE [dial EXCEPT !.tries = @ + 1]
  /\ UNCHANGED <<transferVars, lst>>

\* Mutant: gives up without closing.
Connect_leaves ==
  /\ dial.impl = "unix" /\ dial.res = "trying"
  /\ \/ dial' = [dial EXCEPT !.res = "connected"]
     \/ /\ ~Exhausted(dial.tries) /\ dial.tries < MaxTries
        /\ dial' = [dial EXCEPT !.tries = @ + 1]
     \/ /\ Exhausted(dial.tries)
        /\ dial' = [dial EXCEPT !.res = "failed"]
  /\ UNCHANGED <<transferVars, lst>>

\* Tries that were refused or timed out are repeated, with num_retry = 0 for ever; an
\* interrupted one is repeated without being counted; any other error ends it.
Connect ==
  /\ dial.impl = "unix" /\ dial.res = "trying"
  /\ \/ dial' = [dial EXCEPT !.res = "connected"]
     \/ /\ ~Exhausted(dial.tries) /\ dial.tries < MaxTries
        /\ dial' = [dial EXCEPT !.tries = @ + 1]
     \/ dial' = [dial EXCEPT !.fd = "closed", !.res = "failed"]
  /\ UNCHANGED <<transferVars, lst>>

\* The C library counts before it compares, and closes nothing.
Connect_lightweight ==
  /\ dial.impl = "lightweight" /\ dial.res = "trying"
  /\ \/ dial' = [dial EXCEPT !.res = "connected"]
     \/ /\ dial.tries < MaxTries
        /\ dial' = [dial EXCEPT !.tries = @ + 1,
                                !.res = IF Exhausted(dial.tries + 1) THEN "failed" ELSE @]
     \/ dial' = [dial EXCEPT !.res = "failed"]
  /\ UNCHANGED <<transferVars, lst>>

\* Bind and listen, on unix once, on Windows at one dynamic port after the other (tries
\* counts those in use); every failure closes the socket.
Binding(port_found) ==
  /\ lst.res = "binding"
  /\ \/ lst' = [lst EXCEPT !.fd = "closed", !.res = "failed"]
     \/ /\ lst.impl \notin Windows
        /\ lst' = IF port_found THEN [lst EXCEPT !.res = "listening"]
                  ELSE [lst EXCEPT !.fd = "closed", !.res = "failed"]
     \/ /\ lst.impl \in Windows
        /\ \/ lst' = [lst EXCEPT !.res = "listening"]
           \/ lst.tries < MaxTries /\ lst' = [lst EXCEPT !.tries = @ + 1]
  /\ UNCHANGED <<transferVars, dial>>

\* GetPort tells whether it found the port; the C library's answers 0, false, either way.
GetPort == TRUE
XPlat_SocketUtils_GetPort == FALSE

ListenSocket ==
  /\ lst.impl = "none" /\ impl.out = "none"
  /\ \E i \in Impls : \/ lst' = [lst EXCEPT !.impl = i, !.fd = "open", !.res = "binding"]
                      \/ lst' = [lst EXCEPT !.impl = i, !.res = "failed"]
  /\ UNCHANGED <<transferVars, dial>>
CreateListening == lst.impl \in {"unix", "win"} /\ Binding(GetPort)
XPlat_SocketUtils_CreateListening ==
  lst.impl \in {"lightweight", "lightweight_win"} /\ Binding(XPlat_SocketUtils_GetPort)

\* Without a pending connection they answer false when the time is over or, on a
\* non-blocking socket, at once; an interrupted accept is repeated.
Accept ==
  /\ lst.res \in {"listening", "timedOut"}
  /\ \/ dial.res = "connected" /\ lst' = [lst EXCEPT !.res = "accepted"]
     \/ dial.res # "connected" /\ lst' = [lst EXCEPT !.res = "timedOut"]
  /\ UNCHANGED <<transferVars, dial>>
AcceptConnection == lst.impl \in {"unix", "win"} /\ Accept
XPlat_SocketUtils_AcceptConnection == lst.impl \in {"lightweight", "lightweight_win"} /\ Accept

SocketsNext ==
  \/ BeginTransfer
  \/ Send_writev \/ Send_interrupted \/ send_unix \/ Send_nextBatch
  \/ Send_lightweight \/ send_lightweight \/ Send_win \/ Send_lightweight_win \/ Send_fails
  \/ Recv_recvmsg \/ recv_unix \/ Recv_nextBatch
  \/ Recv_lightweight \/ recv_lightweight \/ Recv_win \/ Recv_lightweight_win \/ Recv_fails
  \/ Disconnect
  \/ Connect_start \/ Connect \/ Connect_lightweight
  \/ ListenSocket \/ CreateListening \/ XPlat_SocketUtils_CreateListening
  \/ AcceptConnection \/ XPlat_SocketUtils_AcceptConnection
SocketsSpec == SocketsInit /\ [][SocketsNext]_socketVars

-----------------------------------------------------------------------------
\* However the kernel splits the writes, the bytes it takes are the first bytes of the
\* message in their order, as long as no writev was interrupted: a partial vectored write
\* is resumed at the right byte of the right buffer (SocketUtils-unix.C, Send).
WireIsPrefix == ~impl.interrupted => sent = [i \in 1..Len(sent) |-> i]

\* However the kernel splits the reads, what was received lies where it was sent from
\* when Recv says that it is all there, and a Recv that failed never says so
\* (SocketUtils-unix.C, Recv).
BytesInPlace ==
  ~impl.interrupted =>
     /\ \A b \in 1..TotalLen : mem[b] \in {0, b}
     /\ rcv.pc \in {"done", "failed"} =>
          (rcv.ret = TotalLen <=> rcv.pc = "done" /\ \A b \in 1..TotalLen : mem[b] = b)

\* Send reports the full length exactly when the kernel has all of the message, which is
\* how Message::send tells a failed link (Message.C).
SendReportsTruth == snd.pc = "done" => (snd.ret = TotalLen <=> Len(sent) = TotalLen)

\* The attempts to connect are bounded by num_retry in both libraries (SocketUtils.C).
TriesBounded == NumRetry > 0 => dial.tries <= NumRetry

\* A Connect that failed has closed the socket it made (except, in both libraries, when
\* the host was not found, and always in the C library), and so has a CreateListening;
\* whoever was accepted or connected has an open one (SocketUtils.C).
DescriptorsClosed ==
  /\ dial.impl = "unix" /\ dial.res = "failed" => dial.fd # "open"
  /\ lst.res = "failed" => lst.fd # "open"
  /\ lst.res = "accepted" => lst.fd = "open" /\ dial.res = "connected" /\ dial.fd = "open"

\* However the kernel splits, delays or refuses, messages go through whole or are known not to
\* have, and connecting ends with what it opened accounted for (SocketUtils).
SocketsCorrect ==
  WireIsPrefix /\ BytesInPlace /\ SendReportsTruth /\ TriesBounded /\ DescriptorsClosed
=============================================================================
