---------------------------- MODULE MCLightweight ----------------------------
(***************************************************************************)
(* The lightweight back-end library: its containers, its topology and its  *)
(* threads.  The three share no state, so each one leaves its initial      *)
(* state only while the others are in theirs.                              *)
(***************************************************************************)
EXTENDS LightContainers, LightTopology, LightNetwork

\* Ranks 1 and 3 below the front-end, 2 below 1; the back-end 4 below 2, or attaching later
TreeWith(self) == [r \in Ranks |-> CASE r \in {1, 3} -> 0 [] r = 2 -> 1 [] r = 4 -> self [] OTHER -> NoRank]
MCInitialPars == {TreeWith(2), TreeWith(NoRank)}

MCScript == << << PROT_DISABLE_RECOVERY, <<1, 1>>, PROT_NEW_STREAM >>, << PROT_ENABLE_RECOVERY, <<1, 2>>, <<2, 3>> >> >>
CallOf(op, blk, s) == [op |-> op, blk |-> blk, s |-> s]
MCCalls == [t \in Threads |-> IF t = 1 THEN {CallOf("recv", TRUE, 0), CallOf("recv", FALSE, 0), CallOf("wait", TRUE, 0)}
                              ELSE {CallOf("stream", TRUE, 1), CallOf("send", TRUE, 0)}]

MapIdle == map = new_map_t /\ ~doubled
TopologyIdle == stage = "out" /\ events = 0 /\ up = TreeWith(2)
NetIdle == script = Script /\ gone = {} /\ iter = 0 /\ \A t \in Threads : thr[t] = Idle
LightweightNext ==
  \/ TopologyIdle /\ NetIdle /\ MapNext /\ UNCHANGED <<lightVars, netVars>>
  \/ MapIdle /\ NetIdle /\ LightNext /\ UNCHANGED <<mapVars, netVars>>
  \/ MapIdle /\ TopologyIdle /\ NetNext /\ UNCHANGED <<mapVars, lightVars>>
Init == MapInit /\ LightInit /\ NetInit
Spec == Init /\ [][LightweightNext]_<<mapVars, lightVars, netVars>>
=============================================================================
