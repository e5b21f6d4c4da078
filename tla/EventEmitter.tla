---------------------------- MODULE EventEmitter ----------------------------
(***************************************************************************)
(* The publish/subscribe bus of rbs_tui_dom/event_emitter.py.              *)
(*                                                                         *)
(* One EventEmitter instance: a list of observers per event type, a list  *)
(* of global observers, the _emitting flag and the _pending_operations    *)
(* queue.  emit() is modelled step by step because observers run inside  *)
(* it: every observer call may itself add or remove observers, emit again *)
(* on the same emitter (nested emission) or raise.  Python's              *)
(* "for observer in observers" walks the live list by index, so the       *)
(* iteration is a frame holding the list being walked and an index.       *)
(*                                                                         *)
(* The observer callbacks are arbitrary code of the library's users; they *)
(* are the environment and choose freely among the calls they can make.   *)
(***************************************************************************)
EXTENDS Integers, Sequences, SequencesExt

CONSTANTS
  Observer,    \* observer callables (model values)
  EventType,   \* event types (model values)
  MaxDepth,    \* bound on nested emissions (1 = no reentrant emit)
  MaxCalls,    \* bound on add/remove/emit calls in one behaviour
  MaxObs,      \* bound on the length of one observer list
  Raising,     \* whether observers may raise
  StrictCallers \* whether callers only remove observers they registered

ASSUME /\ MaxDepth \in Nat \ {0} /\ MaxCalls \in Nat /\ MaxObs \in Nat
       /\ Raising \in BOOLEAN /\ StrictCallers \in BOOLEAN

VARIABLES
  observers,   \* self._observers: event type -> list of observers
  created,     \* event types that have a list in self._observers
  globals,     \* self._global_observers
  emitting,    \* self._emitting
  pending,     \* self._pending_operations
  stack,       \* emit() calls in progress, innermost last
  calls        \* number of API calls made so far (bounded)

vars == <<observers, created, globals, emitting, pending, stack, calls>>

\* _EventEmitterOperation with its arguments; global operations carry no
\* event type and fill the field with a fixed one.
AnyType == CHOOSE t \in EventType : TRUE
Ops == {"ADD_GLOBAL", "ADD", "REMOVE_GLOBAL", "REMOVE"}
Op == [op : Ops, type : EventType, obs : Observer]

\* One emit() in progress: the list walked in the current loop ("typed" or
\* "global"), the loop index, whether the typed loop walks the list stored
\* in self._observers (live) or the temporary empty set() of .get(), whether
\* the observer at idx is running (inCb), and two history fields for the
\* properties: the observers called so far and those registered at start.
Frame == [type : EventType, phase : {"typed", "global"}, idx : Nat \ {0},
          live : BOOLEAN, inCb : BOOLEAN,
          fired : Seq(Observer), snap : Seq(Observer)]

Top == stack[Len(stack)]

\* The list the top frame's for-loop is walking.
Walked(f) ==
  IF f.phase = "global" THEN globals
  ELSE IF f.live THEN observers[f.type] ELSE <<>>

\* A caller may use the API at top level or from inside a running observer.
CanCall == IF stack = <<>> THEN TRUE ELSE Top.inCb

\* An exception leaves the current frame: it propagates out of emit() to the
\* observer below (or the top-level caller), which may raise in turn.
Abort == stack' = Front(stack)

\* The effect of one operation applied with _emitting = False; "ok" is FALSE
\* when list.remove / set().remove raises (the observer is not registered).
Apply(st, o) ==
  CASE o.op = "ADD_GLOBAL" ->
         [st EXCEPT !.globals = Append(@, o.obs)]
    [] o.op = "REMOVE_GLOBAL" ->
         IF Contains(st.globals, o.obs)
         THEN [st EXCEPT !.globals = RemoveFirst(@, o.obs)]
         ELSE [st EXCEPT !.ok = FALSE]
    [] o.op = "ADD" ->
         [st EXCEPT !.observers[o.type] = Append(@, o.obs),
                    !.created = @ \cup {o.type}]
    [] o.op = "REMOVE" ->
         IF o.type \in st.created /\ Contains(st.observers[o.type], o.obs)
         THEN [st EXCEPT !.observers[o.type] = RemoveFirst(@, o.obs)]
         ELSE [st EXCEPT !.ok = FALSE]

\* The flush loop at the end of emit(): apply the queued operations in order
\* and stop at the first one that raises.
RECURSIVE Flush(_, _)
Flush(st, ops) ==
  IF ops = <<>> \/ ~st.ok THEN st ELSE Flush(Apply(st, Head(ops)), Tail(ops))

State == [observers |-> observers, created |-> created, globals |-> globals,
          ok |-> TRUE]

\* The subscriptions as a caller sees them: every call made so far applied
\* in order, a remove of an absent observer having no effect.  This is not
\* code; it states what the callers of the API expect.
RECURSIVE ApplyEach(_, _)
ApplyEach(st, ops) ==
  IF ops = <<>> THEN st
  ELSE ApplyEach([Apply(st, Head(ops)) EXCEPT !.ok = TRUE], Tail(ops))

View == ApplyEach(State, pending)

\* Mutant: the operation is applied at once even while emitting.
RequestUndeferred(o) ==
  /\ CanCall
  /\ calls < MaxCalls
  /\ calls' = calls + 1
  /\ LET st == Apply(State, o) IN
     /\ observers' = st.observers
     /\ created' = st.created
     /\ globals' = st.globals
     /\ IF st.ok THEN UNCHANGED stack ELSE Abort
  /\ UNCHANGED <<pending, emitting>>

\* add_global_observer / remove_global_observer / add_observer /
\* remove_observer: queue the operation while emitting, else apply it; a
\* failing remove raises to the caller and changes nothing.
Request(o) ==
  /\ CanCall
  /\ calls < MaxCalls
  /\ calls' = calls + 1
  /\ IF emitting
     THEN /\ pending' = Append(pending, o)
          /\ UNCHANGED <<observers, created, globals, stack>>
     ELSE LET st == Apply(State, o) IN
          /\ observers' = st.observers
          /\ created' = st.created
          /\ globals' = st.globals
          /\ IF st.ok THEN UNCHANGED stack ELSE Abort
          /\ UNCHANGED pending
  /\ UNCHANGED emitting

AddObserver(t, o) ==
  /\ Len(observers[t]) < MaxObs
  /\ Request([op |-> "ADD", type |-> t, obs |-> o])

RemoveObserver(t, o) ==
  /\ StrictCallers => Contains(View.observers[t], o)
  /\ Request([op |-> "REMOVE", type |-> t, obs |-> o])

AddGlobalObserver(o) ==
  /\ Len(globals) < MaxObs
  /\ Request([op |-> "ADD_GLOBAL", type |-> AnyType, obs |-> o])

RemoveGlobalObserver(o) ==
  /\ StrictCallers => Contains(View.globals, o)
  /\ Request([op |-> "REMOVE_GLOBAL", type |-> AnyType, obs |-> o])

\* emit(): set _emitting and start walking the type's observers.
Emit(t) ==
  /\ CanCall
  /\ calls < MaxCalls
  /\ Len(stack) < MaxDepth
  /\ calls' = calls + 1
  /\ emitting' = TRUE
  /\ LET live == t \in created
         typed == IF live THEN observers[t] ELSE <<>>
     IN stack' = Append(stack, [type |-> t, phase |-> "typed", idx |-> 1,
                                live |-> live, inCb |-> FALSE,
                                fired |-> <<>>, snap |-> typed \o globals])
  /\ UNCHANGED <<observers, created, globals, pending>>

\* The for-loop calls the observer at the current index.
CallObserver ==
  /\ stack /= <<>>
  /\ ~Top.inCb
  /\ Top.idx <= Len(Walked(Top))
  /\ stack' = [stack EXCEPT ![Len(stack)].inCb = TRUE,
                            ![Len(stack)].fired =
                               Append(@, Walked(Top)[Top.idx])]
  /\ UNCHANGED <<observers, created, globals, emitting, pending, calls>>

\* The observer returns normally; the loop moves to the next index.
ObserverReturns ==
  /\ stack /= <<>>
  /\ Top.inCb
  /\ stack' = [stack EXCEPT ![Len(stack)].inCb = FALSE,
                            ![Len(stack)].idx = @ + 1]
  /\ UNCHANGED <<observers, created, globals, emitting, pending, calls>>

\* The observer raises: the rest of emit(), the reset of _emitting and the
\* flush are skipped.
ObserverRaises ==
  /\ Raising
  /\ stack /= <<>>
  /\ Top.inCb
  /\ Abort
  /\ UNCHANGED <<observers, created, globals, emitting, pending, calls>>

\* Mutant: the global loop restarts at index 0 (an off-by-one).
StartGlobalLoopAtZero ==
  /\ stack /= <<>>
  /\ ~Top.inCb
  /\ Top.phase = "typed"
  /\ Top.idx > Len(Walked(Top))
  /\ stack' = [stack EXCEPT ![Len(stack)].phase = "global",
                            ![Len(stack)].idx = 0]
  /\ UNCHANGED <<observers, created, globals, emitting, pending, calls>>

\* The typed loop is exhausted; the global loop starts.
StartGlobalLoop ==
  /\ stack /= <<>>
  /\ ~Top.inCb
  /\ Top.phase = "typed"
  /\ Top.idx > Len(Walked(Top))
  /\ stack' = [stack EXCEPT ![Len(stack)].phase = "global",
                            ![Len(stack)].idx = 1]
  /\ UNCHANGED <<observers, created, globals, emitting, pending, calls>>

\* Mutant: the queue is not cleared after a successful flush.
EndEmitNoClear ==
  /\ stack /= <<>>
  /\ ~Top.inCb
  /\ Top.phase = "global"
  /\ Top.idx > Len(globals)
  /\ LET st == Flush(State, pending) IN
     /\ observers' = st.observers
     /\ created' = st.created
     /\ globals' = st.globals
     /\ UNCHANGED pending
  /\ emitting' = FALSE
  /\ Abort
  /\ UNCHANGED calls

\* The global loop is exhausted: clear _emitting, flush the queue; clear()
\* is reached only when no queued operation raised.
EndEmit ==
  /\ stack /= <<>>
  /\ ~Top.inCb
  /\ Top.phase = "global"
  /\ Top.idx > Len(globals)
  /\ LET st == Flush(State, pending) IN
     /\ observers' = st.observers
     /\ created' = st.created
     /\ globals' = st.globals
     /\ pending' = IF st.ok THEN <<>> ELSE pending
  /\ emitting' = FALSE
  /\ Abort
  /\ UNCHANGED calls

Init ==
  /\ observers = [t \in EventType |-> <<>>]
  /\ created = {}
  /\ globals = <<>>
  /\ emitting = FALSE
  /\ pending = <<>>
  /\ stack = <<>>
  /\ calls = 0

Next ==
  \/ \E t \in EventType, o \in Observer : AddObserver(t, o)
  \/ \E t \in EventType, o \in Observer : RemoveObserver(t, o)
  \/ \E o \in Observer : AddGlobalObserver(o)
  \/ \E o \in Observer : RemoveGlobalObserver(o)
  \/ \E t \in EventType : Emit(t)
  \/ CallObserver
  \/ ObserverReturns
  \/ ObserverRaises
  \/ StartGlobalLoop
  \/ EndEmit

Spec == Init /\ [][Next]_vars

\* emit() runs its loops and its flush to the end without waiting on anyone
\* once the observer it is calling has returned; the callers (Request, Emit)
\* and the observers' own code (ObserverRaises) get no fairness.  Returning
\* from a callback is the one assumption made of the observers.
EmitterStep ==
  \/ CallObserver
  \/ ObserverReturns
  \/ StartGlobalLoop
  \/ EndEmit

FairSpec == Spec /\ WF_vars(EmitterStep)

-----------------------------------------------------------------------------

TypeOK ==
  /\ observers \in [EventType -> Seq(Observer)]
  /\ created \subseteq EventType
  /\ globals \in Seq(Observer)
  /\ emitting \in BOOLEAN
  /\ pending \in Seq(Op)
  /\ stack \in Seq(Frame)
  /\ calls \in 0..MaxCalls

\* Spec 4.1 and the deferral in add_observer/remove_observer/emit: an
\* emission calls exactly the observers registered when it began, type
\* observers then global ones, in registration order; one removed during
\* the emission still fires and one added during it does not.  Each frame
\* has called a prefix of its snapshot, and all of it once its loops end.
DeliversRegistered ==
  \A i \in 1..Len(stack) :
    LET f == stack[i] IN
    /\ IsPrefix(f.fired, f.snap)
    /\ (f.phase = "global" /\ f.idx > Len(globals) /\ ~f.inCb)
         => f.fired = f.snap

-----------------------------------------------------------------------------

(***************************************************************************)
(* Refinement.  The subscriptions of the abstract emitter are the caller's *)
(* View; each emission in progress owes the observers registered when it  *)
(* began (snap) and has made the calls recorded in fired.                  *)
(***************************************************************************)
Atomic == INSTANCE AtomicEmitter WITH
  subs <- View.observers,
  anySubs <- View.globals,
  emissions <- [i \in 1..Len(stack) |->
                  [due |-> stack[i].snap, done |-> stack[i].fired]]

\* Spec 4.1 as a whole: the deferral queue and the _emitting flag are
\* invisible to callers.  Calls take effect in order, exactly once, and
\* each emission calls exactly the observers registered when it began.
ImplementsAtomic == Atomic!Spec

\* add_observer and friends called during an emission are queued in
\* _pending_operations; the queue must not stay non-empty for good: the end
\* of emit() applies and clears it, without a further emit() being needed.
QueuedApplied == pending /= <<>> ~> pending = <<>>

=============================================================================
