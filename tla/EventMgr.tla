------------------------------ MODULE EventMgr ------------------------------
(***************************************************************************)
(* The event manager (class EventMgr, src/src/Event.C): the events nobody  *)
(* has taken yet, and the callbacks registered for each type of event.     *)
(* add_Event queues the event and calls its callbacks with data_sync held; *)
(* the lock is recursive, so the other threads wait but a callback may use *)
(* the event manager again, and change the list that is being walked.      *)
(***************************************************************************)
EXTENDS Naturals, Sequences, FiniteSets, SequencesExt

CONSTANTS EventTypes,   \* event class -> set of its types
          CbFuncs,      \* callback functions
          MaxRegs,      \* bound: calls of register_Callback
          MaxEvents,    \* bound: events
          MaxNesting    \* bound: add_Event called by a callback of add_Event

ASSUME EventAssumption == MaxRegs \in Nat /\ MaxEvents \in Nat /\ MaxNesting \in Nat \ {0}

EVENT_CLASS_ALL == "all classes"
EVENT_TYPE_ALL == "all types"
Types == UNION {{<<c, t>> : t \in EventTypes[c]} : c \in DOMAIN EventTypes}
NoFunc == "NULL"
EndOfList == [reg |-> 0, func |-> NoFunc, once |-> FALSE]

VARIABLES evts,     \* _evts: the events nobody has taken, oldest first
          cbs,      \* _cbs: type -> list of [reg, func, once]; reg is the registration's number
          walks,    \* calls of execute_Callbacks, innermost last: [ty, todo, li, in, due, got]
          regs,     \* registrations so far
          evs,      \* events so far
          walked,   \* for the events that are over, the callbacks due and called (history)
          shots,    \* registration of a one-time callback -> times it was called (history)
          meddled   \* a callback took entries from a list that is being walked (history)
eventVars == <<evts, cbs, walks, regs, evs, walked, shots, meddled>>

EventInit ==
  /\ evts = <<>> /\ cbs = [t \in Types |-> <<>>] /\ walks = <<>> /\ regs = 0 /\ evs = 0
  /\ walked = {} /\ shots = [r \in 1..MaxRegs |-> 0] /\ meddled = FALSE

\* Who may use the event manager: anybody when it is free, else the callback that runs.
Top == Last(walks)
MayUse == walks # <<>> => Top.in
BeingWalked(ty) == \E k \in DOMAIN walks : walks[k].ty = ty

-----------------------------------------------------------------------------
\* register_Callback: a one-time function must name its type.
Registrable_any(ty, once) == TRUE
Registrable(ty, once) == ~(once /\ ty = EVENT_TYPE_ALL)
register_Callback ==
  /\ MayUse /\ regs < MaxRegs
  /\ \E c \in DOMAIN EventTypes, f \in CbFuncs, once \in BOOLEAN :
     \E ty \in EventTypes[c] \cup {EVENT_TYPE_ALL} :
       LET new == [reg |-> regs + 1, func |-> f, once |-> once] IN
       /\ Registrable(ty, once)
       /\ cbs' = [t \in Types |-> IF t[1] = c /\ ty \in {t[2], EVENT_TYPE_ALL} THEN Append(cbs[t], new) ELSE cbs[t]]
  /\ regs' = regs + 1
  /\ UNCHANGED <<evts, walks, evs, walked, shots, meddled>>

\* remove_CallbackFunc: the first entry of the function.
RemoveFunc(list, f) ==
  LET at == {i \in DOMAIN list : list[i].func = f}
  IN  IF at = {} THEN list ELSE RemoveAt(list, CHOOSE i \in at : \A j \in at : i <= j)
\* remove_Callback, remove_Callbacks and reset_Callbacks, which is remove_Callbacks of every class.
Without(c, ty, f) ==
  [t \in Types |-> IF c \in {t[1], EVENT_CLASS_ALL} /\ ty \in {t[2], EVENT_TYPE_ALL}
                   THEN IF f = NoFunc THEN <<>> ELSE RemoveFunc(cbs[t], f)
                   ELSE cbs[t]]
remove_Callback ==
  /\ MayUse
  /\ \E c \in DOMAIN EventTypes \cup {EVENT_CLASS_ALL}, f \in CbFuncs \cup {NoFunc} :
     \E ty \in {EVENT_TYPE_ALL} \cup (IF c = EVENT_CLASS_ALL THEN {} ELSE EventTypes[c]) :
       LET new == Without(c, ty, f)
       IN  /\ c = EVENT_CLASS_ALL => f = NoFunc
           /\ new # cbs /\ cbs' = new
           /\ meddled' = (meddled \/ \E t \in Types : BeingWalked(t) /\ new[t] # cbs[t])
  /\ UNCHANGED <<evts, walks, regs, evs, walked, shots>>

\* get_NextEvent, clear_Events
get_NextEvent ==
  /\ MayUse /\ evts # <<>> /\ evts' = Tail(evts)
  /\ UNCHANGED <<cbs, walks, regs, evs, walked, shots, meddled>>
clear_Events ==
  /\ MayUse /\ evts # <<>> /\ evts' = <<>>
  /\ UNCHANGED <<cbs, walks, regs, evs, walked, shots, meddled>>

-----------------------------------------------------------------------------
\* add_Event, and execute_Callbacks up to its loop: the number of calls is fixed here.
Walk(ty) == [ty |-> ty, todo |-> Len(cbs[ty]), li |-> Head(cbs[ty] \o <<EndOfList>>), in |-> FALSE,
             due |-> [k \in DOMAIN cbs[ty] |-> cbs[ty][k].reg], got |-> <<>>]
add_Event ==
  /\ MayUse /\ evs < MaxEvents /\ Len(walks) < MaxNesting
  /\ \E ty \in Types :
       /\ walks' = Append(walks, Walk(ty))
       /\ meddled' = (meddled \/ (BeingWalked(ty) /\ \E k \in DOMAIN cbs[ty] : cbs[ty][k].once))
  /\ evs' = evs + 1 /\ evts' = Append(evts, evs + 1)
  /\ UNCHANGED <<cbs, regs, walked, shots>>

SetTop(w) == walks' = [walks EXCEPT ![Len(walks)] = w]
GoesOn_live(w) == w.li # EndOfList
GoesOn(w) == w.todo > 0
\* (li->func)( ievt, li->data )
CallFunc ==
  /\ walks # <<>> /\ ~Top.in /\ GoesOn(Top)
  /\ SetTop([Top EXCEPT !.in = TRUE, !.got = Append(@, Top.li.reg)])
  /\ shots' = IF Top.li.once THEN [shots EXCEPT ![Top.li.reg] = @ + 1] ELSE shots
  /\ UNCHANGED <<evts, cbs, regs, evs, walked, meddled>>
FuncReturns_next ==
  /\ walks # <<>> /\ Top.in
  /\ LET list == cbs[Top.ty] IN
     \E i \in DOMAIN list :
       /\ list[i] = Top.li
       /\ SetTop([Top EXCEPT !.in = FALSE, !.todo = IF @ = 0 THEN 0 ELSE @ - 1,
                             !.li = IF i = Len(list) THEN EndOfList ELSE list[i + 1]])
       /\ cbs' = IF Top.li.once /\ i < Len(list) THEN [cbs EXCEPT ![Top.ty] = RemoveAt(list, i + 1)] ELSE cbs
  /\ UNCHANGED <<evts, regs, evs, walked, shots, meddled>>
\* The function returns: li moves on, and a one-time callback is erased behind it.
FuncReturns ==
  /\ walks # <<>> /\ Top.in
  /\ LET list == cbs[Top.ty] IN
     \E i \in DOMAIN list :
       /\ list[i] = Top.li
       /\ SetTop([Top EXCEPT !.in = FALSE, !.todo = IF @ = 0 THEN 0 ELSE @ - 1,
                             !.li = IF i = Len(list) THEN EndOfList ELSE list[i + 1]])
       /\ cbs' = IF Top.li.once THEN [cbs EXCEPT ![Top.ty] = RemoveAt(list, i)] ELSE cbs
  /\ UNCHANGED <<evts, regs, evs, walked, shots, meddled>>
\* The end of add_Event.
WalkEnds ==
  /\ walks # <<>> /\ ~Top.in /\ ~GoesOn(Top)
  /\ walks' = Front(walks) /\ walked' = walked \cup {<<Top.due, Top.got>>}
  /\ UNCHANGED <<evts, cbs, regs, evs, shots, meddled>>

\* Once entries have been taken from under the loop its iterator may be invalid, and what the
\* program does is undefined: the model stops there.
EventNext ==
  /\ ~meddled
  /\ \/ register_Callback \/ remove_Callback \/ get_NextEvent \/ clear_Events
     \/ add_Event \/ CallFunc \/ FuncReturns \/ WalkEnds
EventSpec == EventInit /\ [][EventNext]_eventVars

-----------------------------------------------------------------------------
\* Every callback registered for an event when it is added is called once with it, in the order
\* of registration, and nothing else is: callbacks registered by a callback wait for the next
\* event, a one-time entry is erased without losing the place in the list, and nested events do
\* no harm.  (A callback that takes entries out of the list being walked, itself or by adding an
\* event of the same type, invalidates the iterator of execute_Callbacks.)
CallsAreThoseDue == \A w \in walked : w[1] = w[2]

\* As long as no callback does that, the iterator of every loop that goes on stands at an entry
\* of its list: the count taken before the loop never runs past its end.
IteratorInList ==
  ~meddled => \A k \in DOMAIN walks :
    GoesOn(walks[k]) => \E i \in DOMAIN cbs[walks[k].ty] : cbs[walks[k].ty][i] = walks[k].li

\* A one-time callback is called once, for one event of one type.
OneTimeOnce == \A r \in DOMAIN shots : shots[r] <= 1

\* Whatever callbacks do short of taking entries from under a walk, exactly the callbacks that
\* are due are called (execute_Callbacks).
CallbacksCorrect == CallsAreThoseDue /\ IteratorInList /\ OneTimeOnce
=============================================================================
