------------------------ MODULE ControlProtocol_proofs ------------------------
(***************************************************************************)
(* Proofs about ControlProtocol, for any finite tree and any set of nodes  *)
(* without children that may fail.                                         *)
(***************************************************************************)
EXTENDS ControlProtocol, FiniteSetTheorems, TLAPS

\* The children whose acknowledgement has been dealt with, and the ones removed.
Handled(n) == {c \in Children(n) : handler[c] = "over"}
Removed(n) == Children(n) \ children[n]

\* No acknowledgement and no failure is counted twice.
BoundInv ==
  \A n \in Parents :
    /\ acked[n] <= Cardinality(Handled(n))
    /\ children[n] \subseteq Children(n)
    /\ failed[n] + (IF edt[n] = "notify" THEN 1 ELSE 0) <= Cardinality(Removed(n))

\* Until a process fails nothing is aborted, given up, left behind or dropped.
CalmInv ==
  dead = {} =>
    /\ deleting = {}
    /\ \A n \in Parents :
         /\ children[n] = Children(n) /\ failed[n] = 0 /\ edt[n] = "idle"
         /\ pc[n] \notin {"giveup", "failed"} /\ ~aborted[n] /\ entry[n] # "stale"
    /\ \A c \in Below : ack[c] # "failure" /\ handler[c] \notin {"dropped", "stuck"}

\* Until a process fails an acknowledgement stands for a node that has succeeded, is
\* dealt with while its wait is registered, and a wait ends only after all of them.
SuccessInv ==
  dead = {} =>
    /\ \A n \in Parents :
         /\ pc[n] # "idle" => n \in stream
         /\ pc[n] \in {"register", "check", "wait"} => expected[n] = Cardinality(Children(n))
         /\ pc[n] \in {"erase", "succeeded"} => Handled(n) = Children(n)
    /\ \A c \in Below :
         /\ handler[c] # "idle" => ack[c] = "success"
         /\ ack[c] = "success" => Succeeded(c)
         /\ handler[c] = "found" => entry[Parent[c]] = "active"

ProtocolInv == TypeOK /\ BoundInv /\ CalmInv /\ SuccessInv

------------------------------------------------------------------------------
\* The shape of the tree.
LEMMA TreeFacts ==
  /\ Below \subseteq Node /\ Parents \subseteq Node /\ Root \in Parents
  /\ IsFiniteSet(Below)
  /\ \A c \in Below : Parent[c] \in Parents /\ c \in Children(Parent[c])
  /\ \A n \in Node : Children(n) \subseteq Below
  /\ \A c \in Below : c \in Parents \/ c \in Leaves
  /\ Leaves \cap Parents = {}
  <1>1. IsFiniteSet(Below)
    BY TreeAssumption, FS_Subset DEF Below
  <1>2. \A c \in Below : Parent[c] \in Node /\ c \in Children(Parent[c])
    BY TreeAssumption DEF Children
  <1>3. \A c \in Below : Parent[c] \in Parents
    BY <1>2 DEF Parents, Leaves
  <1> QED
    BY <1>1, <1>2, <1>3, TreeAssumption DEF Below, Parents, Leaves, Children

\* Subsets of the children are finite and no more than there are nodes below the root.
LEMMA ChildrenFinite ==
  ASSUME NEW n \in Parents, NEW S \in SUBSET Children(n)
  PROVE  /\ IsFiniteSet(S) /\ IsFiniteSet(Children(n)) /\ Cardinality(S) \in Nat
         /\ Cardinality(Below) \in Nat /\ Cardinality(Children(n)) \in Nat
         /\ Cardinality(S) <= Cardinality(Children(n))
         /\ Cardinality(S) = Cardinality(Children(n)) => S = Children(n)
         /\ Cardinality(Children(n)) <= Cardinality(Below)
  <1>1. Children(n) \subseteq Below /\ IsFiniteSet(Below)
    BY TreeFacts DEF Parents
  <1>2. IsFiniteSet(Children(n)) /\ Cardinality(Children(n)) <= Cardinality(Below)
    BY <1>1, FS_Subset
  <1>3. IsFiniteSet(S) /\ Cardinality(S) <= Cardinality(Children(n))
        /\ (Cardinality(S) = Cardinality(Children(n)) => S = Children(n))
    BY <1>2, FS_Subset
  <1> QED
    BY <1>1, <1>2, <1>3, FS_CardinalityType

\* One more child in a set of children.
LEMMA OneMore ==
  ASSUME NEW n \in Parents, NEW S \in SUBSET Children(n), NEW c \in Children(n), c \notin S
  PROVE  Cardinality(S \cup {c}) = Cardinality(S) + 1
  BY ChildrenFinite, FS_AddElement

------------------------------------------------------------------------------
\* The steps keep the types; the counters need BoundInv.
LEMMA StepType == ASSUME ProtocolInv, Next PROVE TypeOK'
  <1> USE TreeFacts DEF requests, waiter, record, detector, ProtocolInv
  <1>1. ASSUME NEW n \in Parents, proc_newStream(n) PROVE TypeOK'
    BY <1>1 DEF proc_newStream, TypeOK
  <1>2. ASSUME NEW n \in Parents, get_NumChildren(n) PROVE TypeOK'
    <2>1. children[n] \in SUBSET Children(n)
      BY DEF BoundInv
    <2>2. Cardinality(children[n]) \in 0..Cardinality(Below)
      BY <2>1, ChildrenFinite
    <2> QED BY <1>2, <2>2 DEF get_NumChildren, TypeOK
  <1>3. ASSUME NEW n \in Parents, Register(n) PROVE TypeOK'
    <2>1. 0 \in 0..Cardinality(Below)
      BY FS_CardinalityType
    <2> QED BY <1>3, <2>1 DEF Register, TypeOK
  <1>4. ASSUME NEW n \in Parents, Check(n) PROVE TypeOK'
    BY <1>4 DEF Check, TypeOK
  <1>5. ASSUME NEW n \in Parents, Succeed(n) PROVE TypeOK'
    BY <1>5 DEF Succeed, ack_ControlProtocol, TypeOK
  <1>6. ASSUME NEW n \in Parents, GiveUp(n) PROVE TypeOK'
    BY <1>6 DEF GiveUp, Deleted, ack_ControlProtocol, TypeOK
  <1>7. ASSUME NEW n \in Parents, RemoveChild(n) PROVE TypeOK'
    BY <1>7 DEF RemoveChild, TypeOK
  <1>8. ASSUME NEW n \in Parents, notify_OfChildFailure(n) PROVE TypeOK'
    <2>1. Removed(n) \in SUBSET Children(n)
      BY DEF Removed
    <2>2. failed[n] + 1 \in 0..Cardinality(Below)
      BY <1>8, <2>1, ChildrenFinite DEF BoundInv, notify_OfChildFailure, TypeOK
    <2> QED BY <1>8, <2>2 DEF notify_OfChildFailure, TypeOK
  <1>9. ASSUME NEW n \in Parents, abort_ActiveControlProtocols(n) PROVE TypeOK'
    <2>1. /\ pc' \in {pc, Woken(n)}
          /\ aborted' \in {aborted, [aborted EXCEPT ![n] = TRUE]}
          /\ edt' \in {[edt EXCEPT ![n] = "idle"], [edt EXCEPT ![n] = "stuck"]}
      BY <1>9 DEF abort_ActiveControlProtocols
    <2>2. UNCHANGED <<mortal, dead, requests, expected, entry, acked, children, failed, ack,
                      handler>>
      BY <1>9 DEF abort_ActiveControlProtocols
    <2>3. pc' \in [Parents -> {"idle", "count", "register", "check", "wait", "erase",
                                "giveup", "succeeded", "failed"}]
      BY <2>1 DEF Woken, TypeOK
    <2>4. aborted' \in [Parents -> BOOLEAN]
      BY <2>1 DEF TypeOK
    <2>5. edt' \in [Parents -> {"idle", "notify", "abort", "stuck"}]
      BY <2>1 DEF TypeOK
    <2> QED BY <2>2, <2>3, <2>4, <2>5 DEF TypeOK
  <1>10. ASSUME NEW c \in Below, AckLookup(c) PROVE TypeOK'
    BY <1>10 DEF AckLookup, TypeOK
  <1>11. ASSUME NEW c \in Below, AckUse(c) PROVE TypeOK'
    <2> DEFINE n == Parent[c]
    <2>1. acked[n] + 1 \in 0..Cardinality(Below)
      <3>1. n \in Parents /\ c \in Children(n) /\ c \notin Handled(n)
        BY <1>11 DEF AckUse, Handled
      <3>2. Handled(n) \in SUBSET Children(n) /\ Handled(n) \cup {c} \in SUBSET Children(n)
        BY <3>1 DEF Handled
      <3>3. Cardinality(Handled(n) \cup {c}) = Cardinality(Handled(n)) + 1
        BY <3>1, <3>2, OneMore
      <3>4. Cardinality(Handled(n) \cup {c}) <= Cardinality(Below)
        BY <3>1, <3>2, ChildrenFinite
      <3>5. acked[n] <= Cardinality(Handled(n)) /\ Cardinality(Handled(n)) \in Nat
            /\ acked[n] \in Nat /\ Cardinality(Below) \in Nat
        BY <3>1, <3>2, ChildrenFinite DEF BoundInv, TypeOK
      <3> QED BY ONLY <3>3, <3>4, <3>5
    <2>2. n \in Parents
      OBVIOUS
    <2>3. pc' \in {pc, Woken(n)}
      BY <1>11 DEF AckUse, UseAfterReturn
    <2>4. /\ acked' \in {acked, [acked EXCEPT ![n] = @ + 1]}
          /\ aborted' \in {aborted, [aborted EXCEPT ![n] = TRUE]}
          /\ handler' \in {[handler EXCEPT ![c] = "over"], [handler EXCEPT ![c] = "stuck"]}
      BY <1>11 DEF AckUse, UseAfterReturn
    <2>5. UNCHANGED <<mortal, dead, requests, expected, entry, detector, ack>>
      BY <1>11 DEF AckUse
    <2>6. pc' \in [Parents -> {"idle", "count", "register", "check", "wait", "erase",
                                "giveup", "succeeded", "failed"}]
      BY <2>2, <2>3 DEF Woken, TypeOK
    <2>7. acked' \in [Parents -> 0..Cardinality(Below)]
      BY <2>1, <2>2, <2>4 DEF TypeOK
    <2>8. aborted' \in [Parents -> BOOLEAN]
      BY <2>2, <2>4 DEF TypeOK
    <2>9. handler' \in [Below -> {"idle", "found", "over", "dropped", "stuck"}]
      BY <2>4 DEF TypeOK
    <2> QED BY <2>5, <2>6, <2>7, <2>8, <2>9 DEF TypeOK
  <1>12. ASSUME NEW c \in Below, BackEnd_newStream(c) PROVE TypeOK'
    BY <1>12 DEF BackEnd_newStream, TypeOK
  <1>13. ASSUME NEW c \in Below, proc_deleteStream(c) PROVE TypeOK'
    BY <1>13 DEF proc_deleteStream, TypeOK
  <1>14. ASSUME NEW c \in Below, Fail(c) PROVE TypeOK'
    BY <1>14 DEF Fail, TypeOK
  <1> QED
    BY <1>1, <1>2, <1>3, <1>4, <1>5, <1>6, <1>7, <1>8, <1>9, <1>10, <1>11, <1>12, <1>13,
       <1>14 DEF Next, ParentStep, DetectorStep, AckStep, RequestStep

------------------------------------------------------------------------------
\* The steps count nothing twice.
LEMMA StepBound == ASSUME ProtocolInv, Next PROVE BoundInv'
  <1> USE TreeFacts DEF requests, waiter, record, detector, ProtocolInv
  <1>1. CASE UNCHANGED <<children, failed, edt, acked, handler>>
    BY <1>1 DEF BoundInv, Handled, Removed
  <1>2. ASSUME NEW n \in Parents, Register(n) PROVE BoundInv'
    <2>1. \A m \in Parents : Handled(m) \in SUBSET Children(m)
      BY DEF Handled
    <2>2. \A m \in Parents : Cardinality(Handled(m)) \in Nat
      BY <2>1, ChildrenFinite
    <2>3. acked' = [acked EXCEPT ![n] = 0] /\ UNCHANGED <<children, failed, edt, handler>>
      BY <1>2 DEF Register
    <2>4. \A m \in Parents : Handled(m)' = Handled(m) /\ Removed(m)' = Removed(m)
      BY <2>3 DEF Handled, Removed
    <2>5. \A m \in Parents : acked'[m] <= Cardinality(Handled(m))
      BY <2>2, <2>3 DEF BoundInv, TypeOK
    <2> QED BY <2>3, <2>4, <2>5 DEF BoundInv
  <1>3. ASSUME NEW n \in Parents, RemoveChild(n) PROVE BoundInv'
    <2>1. PICK c \in children[n] \cap dead : children' = [children EXCEPT ![n] = @ \ {c}]
      BY <1>3 DEF RemoveChild
    <2>2. edt[n] = "idle" /\ edt' = [edt EXCEPT ![n] = "notify"]
          /\ UNCHANGED <<failed, acked, handler>>
      BY <1>3 DEF RemoveChild
    <2>3. c \in Children(n) /\ c \notin Removed(n) /\ Removed(n) \in SUBSET Children(n)
      BY <2>1 DEF BoundInv, Removed
    <2>4. Removed(n)' = Removed(n) \cup {c}
      BY <2>1, <2>3 DEF Removed, TypeOK
    <2>5. Cardinality(Removed(n)') = Cardinality(Removed(n)) + 1 /\ Cardinality(Removed(n)) \in Nat
      BY <2>3, <2>4, OneMore, ChildrenFinite
    <2>6. failed'[n] + 1 <= Cardinality(Removed(n)')
      BY <2>2, <2>5 DEF BoundInv, TypeOK
    <2>7. \A m \in Parents : Handled(m)' = Handled(m)
      BY <2>2 DEF Handled
    <2>8. \A m \in Parents \ {n} : children'[m] = children[m] /\ edt'[m] = edt[m]
                                   /\ Removed(m)' = Removed(m)
      BY <2>1, <2>2 DEF Removed, TypeOK
    <2>9. edt'[n] = "notify" /\ children'[n] \subseteq Children(n)
      BY <2>1, <2>2 DEF BoundInv, TypeOK
    <2>10. ASSUME NEW m \in Parents
           PROVE  /\ acked'[m] <= Cardinality(Handled(m)')
                  /\ children'[m] \subseteq Children(m)
                  /\ failed'[m] + (IF edt'[m] = "notify" THEN 1 ELSE 0) <= Cardinality(Removed(m)')
      <3>1. CASE m = n
        BY <2>2, <2>6, <2>7, <2>9, <3>1 DEF BoundInv
      <3>2. CASE m # n
        BY <2>2, <2>7, <2>8, <3>2 DEF BoundInv
      <3> QED BY <3>1, <3>2
    <2> QED BY <2>10 DEF BoundInv, Children
  <1>4. ASSUME NEW n \in Parents, notify_OfChildFailure(n) PROVE BoundInv'
    <2>1. /\ edt[n] = "notify" /\ edt' = [edt EXCEPT ![n] = "abort"]
          /\ failed' = [failed EXCEPT ![n] = @ + 1]
          /\ UNCHANGED <<children, acked, handler>>
      BY <1>4 DEF notify_OfChildFailure
    <2>2. \A m \in Parents : Handled(m)' = Handled(m) /\ Removed(m)' = Removed(m)
      BY <2>1 DEF Handled, Removed
    <2>3. \A m \in Parents : failed'[m] + (IF edt'[m] = "notify" THEN 1 ELSE 0)
                                = failed[m] + (IF edt[m] = "notify" THEN 1 ELSE 0)
      BY <2>1 DEF TypeOK
    <2> QED BY <2>1, <2>2, <2>3 DEF BoundInv
  <1>5. ASSUME NEW n \in Parents, abort_ActiveControlProtocols(n) PROVE BoundInv'
    <2>1. /\ edt[n] = "abort" /\ edt' \in {[edt EXCEPT ![n] = l] : l \in {"idle", "stuck"}}
          /\ UNCHANGED <<children, failed, acked, handler>>
      BY <1>5 DEF abort_ActiveControlProtocols
    <2>2. \A m \in Parents : Handled(m)' = Handled(m) /\ Removed(m)' = Removed(m)
      BY <2>1 DEF Handled, Removed
    <2>3. \A m \in Parents : edt'[m] = "notify" <=> edt[m] = "notify"
      BY <2>1 DEF TypeOK
    <2> QED BY <2>1, <2>2, <2>3 DEF BoundInv
  <1>6. ASSUME NEW c \in Below, AckLookup(c) PROVE BoundInv'
    <2>1. /\ handler[c] = "idle" /\ UNCHANGED <<children, failed, edt, acked>>
          /\ \E l \in {"found", "dropped"} : handler' = [handler EXCEPT ![c] = l]
      BY <1>6 DEF AckLookup
    <2>2. \A m \in Parents : Handled(m)' = Handled(m) /\ Removed(m)' = Removed(m)
      <3>1. \A d \in Below : handler'[d] = "over" <=> handler[d] = "over"
        BY <2>1 DEF TypeOK
      <3> QED BY <2>1, <3>1 DEF Handled, Removed, Children
    <2> QED BY <2>1, <2>2 DEF BoundInv
  <1>7. ASSUME NEW c \in Below, AckUse(c) PROVE BoundInv'
    <2> DEFINE n == Parent[c]
    <2>1. n \in Parents /\ c \in Children(n) /\ handler[c] = "found"
      BY <1>7 DEF AckUse
    <2>2. UNCHANGED <<children, failed, edt>>
      BY <1>7 DEF AckUse
    <2>3. \A m \in Parents : Handled(m) \in SUBSET Children(m)
      BY DEF Handled
    <2>4. \A m \in Parents : Cardinality(Handled(m)) \in Nat /\ acked[m] \in Nat
      BY <2>3, ChildrenFinite DEF TypeOK
    <2>5. CASE handler' = [handler EXCEPT ![c] = "over"]
      <3>1. Handled(n)' = Handled(n) \cup {c} /\ c \notin Handled(n)
        BY <2>1, <2>5 DEF Handled, TypeOK, Children
      <3>2. Cardinality(Handled(n)') = Cardinality(Handled(n)) + 1
        BY <2>1, <2>3, <3>1, OneMore
      <3>3. \A m \in Parents \ {n} : Handled(m)' = Handled(m)
        BY <2>5 DEF Handled, TypeOK, Children
      <3>4. acked' = acked \/ acked' = [acked EXCEPT ![n] = @ + 1]
        BY <1>7 DEF AckUse, UseAfterReturn
      <3>5. \A m \in Parents : acked'[m] <= Cardinality(Handled(m)')
        BY <2>1, <2>4, <3>2, <3>3, <3>4 DEF BoundInv, TypeOK
      <3> QED BY <2>2, <3>5 DEF BoundInv, Removed
    <2>6. CASE handler' = [handler EXCEPT ![c] = "stuck"]
      <3>1. acked' = acked
        <4>1. handler' # [handler EXCEPT ![c] = "over"]
          BY <2>6 DEF TypeOK
        <4> QED BY <1>7, <4>1 DEF AckUse, UseAfterReturn
      <3>2. \A d \in Below : handler'[d] = "over" <=> handler[d] = "over"
        BY <2>1, <2>6 DEF TypeOK
      <3>3. \A m \in Parents : Handled(m)' = Handled(m)
        BY <3>2 DEF Handled, Children
      <3> QED BY <2>2, <3>1, <3>3 DEF BoundInv, Removed
    <2> QED BY <1>7, <2>5, <2>6 DEF AckUse, UseAfterReturn
  <1>8. ASSUME NEW n \in Parents, ParentStep(n), ~Register(n)
        PROVE  UNCHANGED <<children, failed, edt, acked, handler>>
    BY <1>8 DEF ParentStep, proc_newStream, get_NumChildren, Check, Succeed, GiveUp
  <1>9. ASSUME NEW c \in Below, RequestStep(c) \/ Fail(c)
        PROVE  UNCHANGED <<children, failed, edt, acked, handler>>
    BY <1>9 DEF RequestStep, BackEnd_newStream, proc_deleteStream, Fail
  <1> QED
    BY <1>1, <1>2, <1>3, <1>4, <1>5, <1>6, <1>7, <1>8, <1>9
    DEF Next, DetectorStep, AckStep

------------------------------------------------------------------------------
\* Without failures the waits never see a reason to abort.
LEMMA StepCalm == ASSUME ProtocolInv, Next, dead' = {} PROVE CalmInv'
  <1> USE TreeFacts DEF requests, waiter, record, detector, ProtocolInv
  <1>1. dead = {}
    BY DEF Next, ParentStep, DetectorStep, AckStep, RequestStep, proc_newStream,
           get_NumChildren, Register, Check, Succeed, GiveUp, RemoveChild,
           notify_OfChildFailure, abort_ActiveControlProtocols, AckLookup, AckUse,
           BackEnd_newStream, proc_deleteStream, Fail
  <1> DEFINE Calm == /\ deleting = {}
                     /\ \A n \in Parents :
                          /\ children[n] = Children(n) /\ failed[n] = 0 /\ edt[n] = "idle"
                          /\ pc[n] \notin {"giveup", "failed"} /\ ~aborted[n]
                          /\ entry[n] # "stale"
                     /\ \A c \in Below : ack[c] # "failure"
                                        /\ handler[c] \notin {"dropped", "stuck"}
  <1>2. Calm
    BY <1>1 DEF CalmInv
  <1> SUFFICES Calm'
    BY DEF CalmInv
  <1>3. ASSUME NEW n \in Parents, proc_newStream(n) PROVE Calm'
    BY <1>2, <1>3 DEF proc_newStream, TypeOK
  <1>4. ASSUME NEW n \in Parents, get_NumChildren(n) PROVE Calm'
    BY <1>2, <1>4 DEF get_NumChildren, TypeOK
  <1>5. ASSUME NEW n \in Parents, Register(n) PROVE Calm'
    BY <1>2, <1>5 DEF Register, TypeOK
  <1>6. ASSUME NEW n \in Parents, Check(n) PROVE Calm'
    <2>1. ~Abort(n)
      BY <1>2 DEF Abort, TypeOK
    <2> QED BY <1>2, <1>6, <2>1 DEF Check, TypeOK
  <1>7. ASSUME NEW n \in Parents, Succeed(n) PROVE Calm'
    BY <1>2, <1>7 DEF Succeed, ack_ControlProtocol, TypeOK
  <1>8. ASSUME NEW n \in Parents, GiveUp(n) PROVE FALSE
    BY <1>2, <1>8 DEF GiveUp
  <1>9. ASSUME NEW n \in Parents, DetectorStep(n) PROVE FALSE
    BY <1>1, <1>2, <1>9 DEF DetectorStep, RemoveChild, notify_OfChildFailure,
                            abort_ActiveControlProtocols
  <1>10. ASSUME NEW c \in Below, AckLookup(c) PROVE Calm'
    BY <1>2, <1>10 DEF AckLookup, TypeOK
  <1>11. ASSUME NEW c \in Below, AckUse(c) PROVE Calm'
    <2>1. entry[Parent[c]] = "active" /\ ack[c] # "failure"
      BY <1>1, <1>2, <1>11 DEF AckUse, SuccessInv
    <2>2. /\ pc' = Woken(Parent[c]) /\ handler' = [handler EXCEPT ![c] = "over"]
          /\ UNCHANGED <<deleting, children, failed, edt, aborted, entry, ack>>
      <3>1. ack[c] = "success"
        BY <1>1, <1>11 DEF AckUse, SuccessInv
      <3> QED BY <1>11, <2>1, <3>1 DEF AckUse
    <2>3. \A n \in Parents : pc'[n] \notin {"giveup", "failed"}
      BY <1>2, <2>2 DEF Woken, TypeOK
    <2>4. \A d \in Below : handler'[d] \notin {"dropped", "stuck"}
      BY <1>2, <2>2 DEF TypeOK
    <2> QED BY <1>2, <2>2, <2>3, <2>4
  <1>12. ASSUME NEW c \in Below, BackEnd_newStream(c) PROVE Calm'
    BY <1>2, <1>12 DEF BackEnd_newStream, TypeOK
  <1>13. ASSUME NEW c \in Below, proc_deleteStream(c) PROVE FALSE
    BY <1>2, <1>13 DEF proc_deleteStream
  <1>14. ASSUME NEW c \in Below, Fail(c) PROVE FALSE
    BY <1>14 DEF Fail
  <1> QED
    BY <1>3, <1>4, <1>5, <1>6, <1>7, <1>8, <1>9, <1>10, <1>11, <1>12, <1>13, <1>14
    DEF Next, ParentStep, AckStep, RequestStep

------------------------------------------------------------------------------
\* Without failures the acknowledgements that are counted are those of all children.
LEMMA StepSuccess == ASSUME ProtocolInv, Next, dead' = {} PROVE SuccessInv'
  <1> USE TreeFacts DEF requests, waiter, record, detector, ProtocolInv
  <1>1. dead = {}
    BY DEF Next, ParentStep, DetectorStep, AckStep, RequestStep, proc_newStream,
           get_NumChildren, Register, Check, Succeed, GiveUp, RemoveChild,
           notify_OfChildFailure, abort_ActiveControlProtocols, AckLookup, AckUse,
           BackEnd_newStream, proc_deleteStream, Fail
  <1> DEFINE Waits == \A n \in Parents :
                        /\ pc[n] # "idle" => n \in stream
                        /\ pc[n] \in {"register", "check", "wait"}
                             => expected[n] = Cardinality(Children(n))
                        /\ pc[n] \in {"erase", "succeeded"} => Handled(n) = Children(n)
             Acks == \A c \in Below :
                       /\ handler[c] # "idle" => ack[c] = "success"
                       /\ ack[c] = "success" => Succeeded(c)
                       /\ handler[c] = "found" => entry[Parent[c]] = "active"
  <1>2. Waits /\ Acks
    BY <1>1 DEF SuccessInv
  <1>3. /\ deleting = {}
        /\ \A n \in Parents :
             /\ children[n] = Children(n) /\ failed[n] = 0 /\ edt[n] = "idle"
             /\ pc[n] \notin {"giveup", "failed"} /\ ~aborted[n] /\ entry[n] # "stale"
        /\ \A c \in Below : ack[c] # "failure" /\ handler[c] \notin {"dropped", "stuck"}
    BY <1>1 DEF CalmInv
  <1> SUFFICES Waits' /\ Acks'
    BY DEF SuccessInv
  <1>4. ASSUME NEW n \in Parents, proc_newStream(n) PROVE Waits' /\ Acks'
    <2>1. Waits'
      BY <1>2, <1>4 DEF proc_newStream, Handled, TypeOK
    <2>2. Acks'
      BY <1>2, <1>4 DEF proc_newStream, Succeeded, TypeOK
    <2> QED BY <2>1, <2>2
  <1>5. ASSUME NEW n \in Parents, get_NumChildren(n) PROVE Waits' /\ Acks'
    <2>1. children[n] = Children(n) /\ Handled(n) \subseteq Children(n)
      BY <1>3 DEF Handled
    <2>2. UNCHANGED <<stream, handler, ack, entry>>
      BY <1>5 DEF get_NumChildren
    <2>3. Waits'
      BY <1>2, <1>5, <2>1 DEF get_NumChildren, Handled, TypeOK
    <2>4. Acks'
      BY <1>2, <1>5 DEF get_NumChildren, Succeeded, TypeOK
    <2> QED BY <2>3, <2>4
  <1>6. ASSUME NEW n \in Parents, Register(n) PROVE Waits' /\ Acks'
    <2>1. Waits'
      BY <1>2, <1>6 DEF Register, Handled, TypeOK
    <2>2. Acks'
      BY <1>2, <1>6 DEF Register, Succeeded, TypeOK
    <2> QED BY <2>1, <2>2
  <1>7. ASSUME NEW n \in Parents, Check(n) PROVE Waits' /\ Acks'
    <2>1. Enough(n) => Handled(n) = Children(n)
      <3>1. Handled(n) \in SUBSET Children(n)
        BY DEF Handled
      <3>2. expected[n] = Cardinality(Children(n))
        BY <1>2, <1>7 DEF Check
      <3>3. acked[n] <= Cardinality(Handled(n)) /\ acked[n] \in Nat
        BY DEF BoundInv, TypeOK
      <3> QED BY <3>1, <3>2, <3>3, ChildrenFinite DEF Enough
    <2>2. Waits'
      BY <1>2, <1>7, <2>1 DEF Check, Handled, TypeOK
    <2>3. Acks'
      BY <1>2, <1>7 DEF Check, Succeeded, TypeOK
    <2> QED BY <2>2, <2>3
  <1>8. ASSUME NEW n \in Parents, Succeed(n) PROVE Waits' /\ Acks'
    <2>1. \A c \in Children(n) : handler[c] = "over"
      BY <1>2, <1>8 DEF Succeed, Handled
    <2>2. Waits'
      BY <1>2, <1>8 DEF Succeed, Handled, TypeOK
    <2>3. /\ UNCHANGED <<handler, stream>>
          /\ pc' = [pc EXCEPT ![n] = "succeeded"] /\ entry' = [entry EXCEPT ![n] = "none"]
          /\ ack' = ack \/ (n \in Below /\ ack' = [ack EXCEPT ![n] = "success"])
      BY <1>8 DEF Succeed, ack_ControlProtocol, Below
    <2>4. ASSUME NEW c \in Below
          PROVE  /\ handler'[c] # "idle" => ack'[c] = "success"
                 /\ ack'[c] = "success" => Succeeded(c)'
      BY <1>2, <2>3 DEF Succeeded, TypeOK
    <2>5. ASSUME NEW c \in Below, handler'[c] = "found"
          PROVE  entry'[Parent[c]] = "active"
      BY <1>2, <2>1, <2>3, <2>5 DEF TypeOK
    <2> QED BY <2>2, <2>4, <2>5
  <1>9. ASSUME NEW n \in Parents, GiveUp(n) \/ DetectorStep(n) PROVE FALSE
    BY <1>1, <1>3, <1>9 DEF GiveUp, DetectorStep, RemoveChild, notify_OfChildFailure,
                            abort_ActiveControlProtocols
  <1>10. ASSUME NEW c \in Below, AckLookup(c) PROVE Waits' /\ Acks'
    <2>1. /\ ack[c] = "success" /\ entry[Parent[c]] = "active" /\ handler[c] = "idle"
          /\ handler' = [handler EXCEPT ![c] = "found"]
          /\ UNCHANGED <<pc, stream, expected, ack, entry>>
      <3>1. ack[c] # "none" /\ ack[c] # "failure" /\ handler[c] = "idle"
        BY <1>3, <1>10 DEF AckLookup
      <3>2. ack[c] = "success"
        BY <3>1 DEF TypeOK
      <3>3. entry[Parent[c]] # "none" /\ entry[Parent[c]] # "stale"
        BY <1>3, <1>10, <3>1 DEF AckLookup
      <3>4. entry[Parent[c]] = "active"
        BY <3>3 DEF TypeOK
      <3> QED BY <1>10, <3>1, <3>2, <3>3, <3>4 DEF AckLookup
    <2>2. \A n \in Parents : Handled(n)' = Handled(n)
      BY <2>1 DEF Handled, Children, TypeOK
    <2>3. Waits'
      BY <1>2, <2>1, <2>2
    <2>4. Acks'
      BY <1>2, <2>1 DEF Succeeded, TypeOK
    <2> QED BY <2>3, <2>4
  <1>11. ASSUME NEW c \in Below, AckUse(c) PROVE Waits' /\ Acks'
    <2>1. /\ handler[c] = "found" /\ ack[c] = "success" /\ entry[Parent[c]] = "active"
      BY <1>2, <1>11 DEF AckUse
    <2>2. /\ pc' = Woken(Parent[c]) /\ handler' = [handler EXCEPT ![c] = "over"]
          /\ UNCHANGED <<stream, expected, ack, entry>>
      BY <1>11, <2>1 DEF AckUse
    <2>3. \A n \in Parents : \/ pc'[n] = pc[n]
                             \/ pc[n] = "wait" /\ pc'[n] = "check"
      BY <2>2 DEF Woken, TypeOK
    <2>4. \A n \in Parents : Handled(n) = Children(n) => Handled(n)' = Children(n)
      BY <2>2 DEF Handled, Children, TypeOK
    <2>5. Waits'
      BY <1>2, <2>2, <2>3, <2>4
    <2>6. \A d \in Below : Succeeded(d) => Succeeded(d)'
      BY <2>2, <2>3 DEF Succeeded
    <2>7. Acks'
      BY <1>2, <2>1, <2>2, <2>6 DEF TypeOK
    <2> QED BY <2>5, <2>7
  <1>12. ASSUME NEW c \in Below, BackEnd_newStream(c) PROVE Waits' /\ Acks'
    <2>1. Waits'
      BY <1>2, <1>12 DEF BackEnd_newStream, Handled
    <2>2. Acks'
      BY <1>2, <1>12 DEF BackEnd_newStream, Succeeded, TypeOK
    <2> QED BY <2>1, <2>2
  <1>13. ASSUME NEW c \in Below, proc_deleteStream(c) PROVE FALSE
    BY <1>3, <1>13 DEF proc_deleteStream
  <1>14. ASSUME NEW c \in Below, Fail(c) PROVE FALSE
    BY <1>14 DEF Fail
  <1> QED
    BY <1>4, <1>5, <1>6, <1>7, <1>8, <1>9, <1>10, <1>11, <1>12, <1>13, <1>14
    DEF Next, ParentStep, AckStep, RequestStep

------------------------------------------------------------------------------
\* The initial state satisfies the inductive invariant.
LEMMA InitProtocol == ASSUME Init PROVE ProtocolInv
  <1> USE TreeFacts
  <1>1. Cardinality(Below) \in Nat
    BY FS_CardinalityType
  <1>2. TypeOK
    BY <1>1 DEF Init, TypeOK
  <1>3. BoundInv
    <2>1. ASSUME NEW n \in Parents PROVE Cardinality(Handled(n)) \in Nat /\ Cardinality(Removed(n)) \in Nat
      <3>1. Handled(n) \in SUBSET Children(n) /\ Removed(n) \in SUBSET Children(n)
        BY DEF Handled, Removed
      <3> QED BY <3>1, ChildrenFinite
    <2> QED BY <2>1 DEF Init, BoundInv
  <1>4. CalmInv
    BY DEF Init, CalmInv
  <1>5. SuccessInv
    BY DEF Init, SuccessInv
  <1> QED
    BY <1>2, <1>3, <1>4, <1>5 DEF ProtocolInv

\* The inductive invariant holds throughout.
LEMMA ProtocolInvariant == Spec => []ProtocolInv
  <1>1. Init => ProtocolInv
    BY InitProtocol
  <1>2. ProtocolInv /\ [Next]_vars => ProtocolInv'
    <2>1. ASSUME ProtocolInv, Next PROVE ProtocolInv'
      <3>1. TypeOK' /\ BoundInv'
        BY <2>1, StepType, StepBound
      <3>2. CalmInv'
        BY <2>1, StepCalm DEF CalmInv
      <3>3. SuccessInv'
        BY <2>1, StepSuccess DEF SuccessInv
      <3> QED BY <3>1, <3>2, <3>3 DEF ProtocolInv
    <2>2. ASSUME ProtocolInv, UNCHANGED vars PROVE ProtocolInv'
      <3> USE <2>2 DEF vars, requests, waiter, record, detector, ProtocolInv
      <3>1. TypeOK'
        BY DEF TypeOK
      <3>2. BoundInv'
        BY DEF BoundInv, Handled, Removed
      <3>3. CalmInv'
        BY DEF CalmInv
      <3>4. SuccessInv'
        BY DEF SuccessInv, Handled, Succeeded
      <3> QED BY <3>1, <3>2, <3>3, <3>4
    <2> QED BY <2>1, <2>2
  <1> QED
    BY <1>1, <1>2, PTL DEF Spec

\* Every variable of the protocol keeps its type; the counters never exceed the number of
\* processes, since no acknowledgement and no failure is counted twice.
THEOREM TypeCorrect == Spec => []TypeOK
  BY ProtocolInvariant, PTL DEF ProtocolInv

\* For any tree: until a process fails, a process acknowledges the stream only when the
\* processes below it have done so, although proc_ControlProtocolAck only counts.
THEOREM SuccessFromBelowTheorem == Spec => []SuccessFromBelow
  <1>1. ProtocolInv => SuccessFromBelow
    <2> SUFFICES ASSUME ProtocolInv, dead = {}, NEW n \in Parents, Succeeded(n),
                        NEW c \in Children(n)
                 PROVE  Succeeded(c) /\ {n, c} \subseteq stream
      BY DEF SuccessFromBelow
    <2>1. c \in Below /\ pc[n] = "succeeded" /\ n \in stream
      BY TreeFacts DEF Succeeded, ProtocolInv, SuccessInv
    <2>2. handler[c] = "over"
      BY <2>1 DEF ProtocolInv, SuccessInv, Handled
    <2>3. Succeeded(c)
      BY <2>1, <2>2 DEF ProtocolInv, SuccessInv
    <2>4. c \in stream
      BY <2>3 DEF Succeeded, ProtocolInv, SuccessInv
    <2> QED BY <2>1, <2>3, <2>4
  <1> QED
    BY <1>1, ProtocolInvariant, PTL

\* For any tree: until a process fails, no acknowledgement comes after the wait it is for.
THEOREM NoLateAckTheorem == Spec => []NoLateAck
  <1>1. ProtocolInv => NoLateAck
    BY TreeFacts DEF ProtocolInv, SuccessInv, CalmInv, NoLateAck, Handled
  <1> QED
    BY <1>1, ProtocolInvariant, PTL


------------------------------------------------------------------------------
\* A child that explains why n gives up.
BadChild(n) == \E c \in Children(n) : c \in dead \/ (c \in Parents /\ pc[c] = "failed")
\* Only failed children are removed, and nothing is aborted or refused without a reason.
AbortInv ==
  /\ \A n \in Parents : /\ Removed(n) \subseteq dead
                        /\ edt[n] = "abort" => failed[n] > 0
                        /\ aborted[n] \/ pc[n] \in {"giveup", "failed"} => BadChild(n)
  /\ \A c \in Below : /\ ack[c] = "failure" => c \in Parents /\ pc[c] = "failed"
                      /\ handler[c] = "found" => ack[c] # "none"

\* A counted failure is the one of a child.
LEMMA FailureExplained ==
  ASSUME ProtocolInv, AbortInv, NEW n \in Parents, failed[n] > 0
  PROVE  BadChild(n)
  <1>1. Removed(n) \in SUBSET Children(n)
    BY DEF Removed
  <1>2. Cardinality(Removed(n)) \in Nat /\ failed[n] \in Nat
    BY <1>1, ChildrenFinite DEF ProtocolInv, TypeOK
  <1>3. failed[n] <= Cardinality(Removed(n))
    BY <1>2 DEF ProtocolInv, BoundInv
  <1>4. Removed(n) # {}
    BY <1>2, <1>3, FS_EmptySet
  <1> QED BY <1>1, <1>4 DEF AbortInv, BadChild

\* The reason stays: nobody comes back, and who has failed the protocol has.
LEMMA BadChildStays ==
  ASSUME TypeOK, dead \subseteq dead', \A c \in Parents : pc[c] = "failed" => pc'[c] = "failed",
         NEW n \in Parents, BadChild(n)
  PROVE  BadChild(n)'
  BY DEF BadChild, Children, Below, Parents, Leaves

\* A step that has a reason for what it aborts.
LEMMA AbortStep ==
  ASSUME ProtocolInv, AbortInv, dead \subseteq dead',
         \A n \in Parents : pc[n] = "failed" => pc'[n] = "failed",
         \A n \in Parents : children'[n] = children[n] \/ \E c \in dead : children'[n] = children[n] \ {c},
         \A n \in Parents : edt'[n] = "abort" => failed'[n] > 0,
         \A n \in Parents : aborted'[n] \/ pc'[n] \in {"giveup", "failed"} =>
                              aborted[n] \/ pc[n] \in {"giveup", "failed"} \/ BadChild(n),
         \A c \in Below : ack'[c] = "failure" => ack[c] = "failure" \/ (c \in Parents /\ pc'[c] = "failed"),
         \A c \in Below : handler'[c] = "found" => ack'[c] # "none"
  PROVE  AbortInv'
  <1>1. ASSUME NEW n \in Parents, aborted'[n] \/ pc'[n] \in {"giveup", "failed"} PROVE BadChild(n)'
    <2>1. BadChild(n)
      BY <1>1 DEF AbortInv
    <2> QED BY <2>1, BadChildStays DEF ProtocolInv
  <1>2. ASSUME NEW n \in Parents PROVE Removed(n)' \subseteq dead'
    <2>1. Removed(n) \subseteq dead
      BY DEF AbortInv
    <2>2. Removed(n)' = Children(n) \ children'[n]
      BY DEF Removed
    <2> QED BY <2>1, <2>2 DEF Removed
  <1>3. ASSUME NEW c \in Below PROVE ack'[c] = "failure" => c \in Parents /\ pc'[c] = "failed"
    BY DEF AbortInv
  <1> QED BY <1>1, <1>2, <1>3 DEF AbortInv

LEMMA StepAbort == ASSUME ProtocolInv, AbortInv, Next PROVE AbortInv'
  <1> USE TreeFacts DEF requests, waiter, record, detector
  <1>0. /\ pc \in [Parents -> {"idle", "count", "register", "check", "wait", "erase",
                                "giveup", "succeeded", "failed"}]
        /\ aborted \in [Parents -> BOOLEAN] /\ ack \in [Below -> {"none", "success", "failure"}]
        /\ edt \in [Parents -> {"idle", "notify", "abort", "stuck"}] /\ DOMAIN failed = Parents
        /\ DOMAIN children = Parents /\ \A n \in Parents : edt[n] = "abort" => failed[n] > 0
        /\ DOMAIN handler = Below /\ \A c \in Below : handler[c] = "found" => ack[c] # "none"
    BY DEF ProtocolInv, TypeOK, AbortInv
  <1>1. ASSUME NEW n \in Parents, proc_newStream(n) PROVE AbortInv'
    BY <1>0, <1>1, AbortStep DEF proc_newStream
  <1>2. ASSUME NEW n \in Parents, get_NumChildren(n) PROVE AbortInv'
    BY <1>0, <1>2, AbortStep DEF get_NumChildren
  <1>3. ASSUME NEW n \in Parents, Register(n) PROVE AbortInv'
    BY <1>0, <1>3, AbortStep DEF Register
  <1>4. ASSUME NEW n \in Parents, Check(n) PROVE AbortInv'
    <2>1. pc'[n] = "giveup" => aborted[n] \/ BadChild(n)
      BY <1>0, <1>4, FailureExplained DEF Check, Abort
    <2>2. /\ pc[n] = "check" /\ pc' = [pc EXCEPT ![n] = pc'[n]] /\ pc'[n] # "failed"
          /\ UNCHANGED <<dead, children, failed, edt, aborted, ack, handler>>
      BY <1>0, <1>4 DEF Check
    <2> QED BY <1>0, <2>1, <2>2, AbortStep
  <1>5. ASSUME NEW n \in Parents, Succeed(n) PROVE AbortInv'
    BY <1>0, <1>5, AbortStep DEF Succeed, ack_ControlProtocol
  <1>6. ASSUME NEW n \in Parents, GiveUp(n) PROVE AbortInv'
    BY <1>0, <1>6, AbortStep DEF GiveUp, ack_ControlProtocol
  <1>7. ASSUME NEW n \in Parents, RemoveChild(n) PROVE AbortInv'
    BY <1>0, <1>7, AbortStep DEF RemoveChild
  <1>8. ASSUME NEW n \in Parents, notify_OfChildFailure(n) PROVE AbortInv'
    <2>1. failed[n] \in Nat
      BY DEF ProtocolInv, TypeOK
    <2> QED BY <1>0, <1>8, <2>1, AbortStep DEF notify_OfChildFailure
  <1>9. ASSUME NEW n \in Parents, abort_ActiveControlProtocols(n) PROVE AbortInv'
    <2>1. BadChild(n)
      BY <1>0, <1>9, FailureExplained DEF abort_ActiveControlProtocols
    <2>2. /\ pc' \in {pc, Woken(n)} /\ aborted' \in {aborted, [aborted EXCEPT ![n] = TRUE]}
          /\ edt' \in {[edt EXCEPT ![n] = "idle"], [edt EXCEPT ![n] = "stuck"]}
          /\ UNCHANGED <<dead, children, failed, ack, handler>>
      BY <1>9 DEF abort_ActiveControlProtocols
    <2>3. \A m \in Parents : pc'[m] \in {"giveup", "failed"} <=> pc[m] \in {"giveup", "failed"}
      BY <1>0, <2>2 DEF Woken
    <2>4. \A m \in Parents : pc[m] = "failed" => pc'[m] = "failed"
      BY <1>0, <2>2 DEF Woken
    <2>5. \A m \in Parents : aborted'[m] => aborted[m] \/ BadChild(m)
      BY <1>0, <2>1, <2>2
    <2>6. \A m \in Parents : edt'[m] = "abort" => edt[m] = "abort"
      BY <1>0, <2>2
    <2> QED BY <1>0, <2>2, <2>3, <2>4, <2>5, <2>6, AbortStep
  <1>10. ASSUME NEW c \in Below, AckLookup(c) PROVE AbortInv'
    BY <1>0, <1>10, AbortStep DEF AckLookup
  <1>11. ASSUME NEW c \in Below, AckUse(c) PROVE AbortInv'
    <2> DEFINE n == Parent[c]
    <2>1. n \in Parents /\ c \in Children(n)
      OBVIOUS
    <2>2. ack[c] = "failure" => BadChild(n)
      BY <2>1 DEF AbortInv, BadChild
    <2>3. /\ pc' \in {pc, Woken(n)} /\ UNCHANGED <<dead, children, failed, edt, ack>>
          /\ aborted' = aborted \/ (ack[c] # "success" /\ aborted' = [aborted EXCEPT ![n] = TRUE])
      BY <1>11 DEF AckUse, UseAfterReturn
    <2>4. ack[c] \in {"success", "failure"}
      BY <1>0, <1>11 DEF AckUse
    <2>5. \A m \in Parents : pc'[m] \in {"giveup", "failed"} <=> pc[m] \in {"giveup", "failed"}
      BY <1>0, <2>3 DEF Woken
    <2>6. \A m \in Parents : pc[m] = "failed" => pc'[m] = "failed"
      BY <1>0, <2>3 DEF Woken
    <2>7. \A m \in Parents : aborted'[m] => aborted[m] \/ BadChild(m)
      BY <1>0, <2>1, <2>2, <2>3, <2>4
    <2>8. \A d \in Below : handler'[d] = "found" => handler[d] = "found"
      BY <1>0, <1>11 DEF AckUse, UseAfterReturn
    <2> QED BY <1>0, <2>3, <2>5, <2>6, <2>7, <2>8, AbortStep
  <1>12. ASSUME NEW c \in Below, BackEnd_newStream(c) PROVE AbortInv'
    BY <1>0, <1>12, AbortStep DEF BackEnd_newStream
  <1>13. ASSUME NEW c \in Below, proc_deleteStream(c) PROVE AbortInv'
    BY <1>0, <1>13, AbortStep DEF proc_deleteStream
  <1>14. ASSUME NEW c \in Below, Fail(c) PROVE AbortInv'
    BY <1>0, <1>14, AbortStep DEF Fail
  <1> QED
    BY <1>1, <1>2, <1>3, <1>4, <1>5, <1>6, <1>7, <1>8, <1>9, <1>10, <1>11, <1>12, <1>13, <1>14
    DEF Next, ParentStep, DetectorStep, AckStep, RequestStep

\* For any tree: whatever fails when, a process gives up its stream only because a child of it
\* has failed or has given up (waitfor_ControlProtocolAcks, abort_ActiveControlProtocols,
\* proc_ControlProtocolAck): no wait is aborted for a failure elsewhere.
THEOREM OnlyFailuresAbortTheorem == Spec => []OnlyFailuresAbort
  <1>1. Init => AbortInv
    BY TreeFacts DEF Init, AbortInv, Removed
  <1>2. ASSUME ProtocolInv, AbortInv, [Next]_vars PROVE AbortInv'
    <2>1. CASE Next
      BY <1>2, <2>1, StepAbort
    <2>2. CASE UNCHANGED vars
      BY <1>2, <2>2 DEF vars, requests, waiter, record, detector, AbortInv, BadChild, Removed
    <2> QED BY <1>2, <2>1, <2>2
  <1>3. AbortInv => OnlyFailuresAbort
    BY DEF AbortInv, OnlyFailuresAbort, BadChild
  <1> QED
    BY <1>1, <1>2, <1>3, ProtocolInvariant, PTL DEF Spec
=============================================================================
