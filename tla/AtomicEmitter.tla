--------------------------- MODULE AtomicEmitter ---------------------------
(***************************************************************************)
(* What EventEmitter promises its callers (spec 4.1), with no queue and no *)
(* flag.                                                                   *)
(*                                                                         *)
(* Every subscription call takes effect at once and in call order.  A     *)
(* remove of an observer that is not registered has no effect.  An        *)
(* emission fixes at its start the observers it owes a call: the typed    *)
(* ones, then the global ones.  It then calls them one by one, in that    *)
(* order, and ends once all have been called.  An observer that raises    *)
(* ends the emission early.                                                *)
(***************************************************************************)
EXTENDS Integers, Sequences, SequencesExt

CONSTANTS Observer, EventType

VARIABLES
  subs,       \* event type -> observers registered for it, in order
  anySubs,    \* global observers, in order
  emissions   \* emissions in progress: the calls owed and those made

Emission == [due : Seq(Observer), done : Seq(Observer)]

\* The registration lists after one call.
AddTo(s, o) == Append(s, o)
RemoveFrom(s, o) == IF Contains(s, o) THEN RemoveFirst(s, o) ELSE s

Subscribe(t, o) ==
  /\ subs' = [subs EXCEPT ![t] = AddTo(@, o)]
  /\ UNCHANGED <<anySubs, emissions>>

Unsubscribe(t, o) ==
  /\ subs' = [subs EXCEPT ![t] = RemoveFrom(@, o)]
  /\ UNCHANGED <<anySubs, emissions>>

SubscribeAny(o) ==
  /\ anySubs' = AddTo(anySubs, o)
  /\ UNCHANGED <<subs, emissions>>

UnsubscribeAny(o) ==
  /\ anySubs' = RemoveFrom(anySubs, o)
  /\ UNCHANGED <<subs, emissions>>

\* An emission starts owing a call to everyone registered now.
Begin(t) ==
  /\ emissions' = Append(emissions, [due |-> subs[t] \o anySubs, done |-> <<>>])
  /\ UNCHANGED <<subs, anySubs>>

\* The innermost emission calls the next observer it owes.
Deliver ==
  /\ emissions /= <<>>
  /\ LET e == Last(emissions) IN
     /\ Len(e.done) < Len(e.due)
     /\ emissions' = [emissions EXCEPT ![Len(emissions)].done =
                                         Append(@, e.due[Len(e.done) + 1])]
  /\ UNCHANGED <<subs, anySubs>>

\* The innermost emission ends once every owed call was made.
Finish ==
  /\ emissions /= <<>>
  /\ Last(emissions).done = Last(emissions).due
  /\ emissions' = Front(emissions)
  /\ UNCHANGED <<subs, anySubs>>

\* The innermost emission ends early because an observer raised.
Raise ==
  /\ emissions /= <<>>
  /\ emissions' = Front(emissions)
  /\ UNCHANGED <<subs, anySubs>>

Init ==
  /\ subs = [t \in EventType |-> <<>>]
  /\ anySubs = <<>>
  /\ emissions = <<>>

Next ==
  \/ \E t \in EventType, o \in Observer : Subscribe(t, o) \/ Unsubscribe(t, o)
  \/ \E o \in Observer : SubscribeAny(o) \/ UnsubscribeAny(o)
  \/ \E t \in EventType : Begin(t)
  \/ Deliver
  \/ Finish
  \/ Raise

Spec == Init /\ [][Next]_<<subs, anySubs, emissions>>

=============================================================================
