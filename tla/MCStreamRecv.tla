---------------------------- MODULE MCStreamRecv ----------------------------
(* Instances of StreamRecv for TLC: the processes and their threads. *)
EXTENDS StreamRecv
TwoStreams == {1, 2}
OneApp == {"app"}
OneReader == {"reader"}
OnePeer == {"peer1"}
ReadsFirst == [r \in StreamReceivers |-> 1]

Process(fe, threads, ids) ==
  [fe |-> fe, threads |-> threads, streams |-> ids, serving |-> FALSE]
\* A front-end that loses a child, a back-end with two streams, a back-end in Network::recv and
\* one in Stream::recv that are shut down, and a front-end that serves.
MCProcesses == {Process(TRUE, {"app", "peer1", "edt"}, TwoStreams),
                Process(FALSE, {"app", "peer1"}, TwoStreams),
                Process(FALSE, {"app", "peer1", "shut"}, {1}),
                Process(FALSE, {"reader", "peer1", "shut"}, {1}),
                [Process(TRUE, {"app", "peer1"}, TwoStreams) EXCEPT !.serving = TRUE]}
=============================================================================
