----------------------------- MODULE Collection -----------------------------
(***************************************************************************)
(* ObservableCollection of rbs_tui_dom/entity.py.                          *)
(*                                                                         *)
(* The collection keeps its entities in a list (_children) and, for        *)
(* lookups by id, a dict from id to list index (_children_map) that        *)
(* add_child and remove_child_at repair by hand after every insertion and *)
(* deletion.  An entity is known by its id.  Indices follow Python: an     *)
(* index argument may be negative, list.insert clamps it to the list, and *)
(* list indexing with a negative index counts from the end.  The events   *)
(* emitted (ITEM_ADDED, ITEM_REMOVED, RESET, COLLECTION_LOAD) and the      *)
(* observers the collection puts on its entities change no state of the   *)
(* collection and are left out.                                            *)
(*                                                                         *)
(* The entities of LoadIds also carry ObservableEntity's load state        *)
(* (_is_loading, _model), driven by an application that calls              *)
(* set_loading() when it starts fetching an entity and set_model(answer)  *)
(* when the fetch returns.                                                 *)
(***************************************************************************)
EXTENDS Integers, Sequences, SequencesExt, Functions

CONSTANTS
  Ids,         \* entity ids (model values)
  MaxLen,      \* bound on the length of the collection
  IndexSlack,  \* how far past 0 and len(children) callers pass an index
  LoadIds,     \* the entities whose load state is modelled
  Models,      \* model objects an entity may hold (model values)
  None,        \* Python's None
  Answers      \* what a fetch may return: a subset of Models \cup {None}

VARIABLES
  children,    \* self._children, as the entities' ids
  index,       \* self._children_map: id -> index
  loaded,      \* self._is_loaded
  loading,     \* self._is_loading
  eLoading,    \* entity._is_loading, for the entities of LoadIds
  model,       \* entity._model
  fetching     \* the application has a fetch of the entity in flight

vars == <<children, index, loaded, loading, eLoading, model, fetching>>
entity == <<eLoading, model, fetching>>

\* Python's list.insert(i, x): the 0-based position x ends up at.
InsertPos(i, n) == IF i < 0 THEN IF i + n < 0 THEN 0 ELSE i + n
                   ELSE IF i > n THEN n ELSE i

\* Python's s[i] for -Len(s) <= i < Len(s).
PyAt(s, i) == IF i < 0 THEN s[Len(s) + i + 1] ELSE s[i + 1]

\* for i in range(lo, hi): self._children_map[self._children[i].id] = i
\* The loop raises IndexError (and stops) at an i below -len(children).
RECURSIVE Reindex(_, _, _, _)
Reindex(m, s, lo, hi) ==
  IF lo >= hi \/ lo < -Len(s) THEN m
  ELSE Reindex([m EXCEPT ![PyAt(s, lo)] = lo], s, lo + 1, hi)

\* The indices a caller may pass for a list of length n: the positions of
\* the list, widened by IndexSlack on both sides.
Indices(n) == (-IndexSlack)..(n + IndexSlack)

\* Mutant: the repair loop after a deletion starts one past the hole.
RemoveChildAtFromNext(i) ==
  LET n == Len(children)
      child == PyAt(children, i)
      rest == RemoveAt(children, IF i < 0 THEN n + i + 1 ELSE i + 1)
  IN /\ -n <= i /\ i < n
     /\ children' = rest
     /\ index' = Reindex(Restrict(index, DOMAIN index \ {child}),
                         rest, i + 1, Len(rest))

\* remove_child_at(index): fetch the child (IndexError when out of range,
\* before any change), delete it from the list and the map, repair the
\* map from the hole on.
RemoveChildAt(i) ==
  LET n == Len(children)
      child == PyAt(children, i)
      rest == RemoveAt(children, IF i < 0 THEN n + i + 1 ELSE i + 1)
  IN /\ -n <= i /\ i < n
     /\ children' = rest
     /\ index' = Reindex(Restrict(index, DOMAIN index \ {child}),
                         rest, i, Len(rest))

\* Mutant: the duplicate-id check is missing.
AddChildUnchecked(e, at) ==
  LET n == Len(children)
      new == InsertAt(children, InsertPos(at, n) + 1, e)
  IN /\ n < MaxLen
     /\ children' = new
     /\ index' = Reindex((e :> at) @@ index, new, at + 1, Len(new))
     /\ UNCHANGED <<loaded, loading, entity>>

\* add_child(child, index), index None having been replaced by len: an
\* AlreadyExistError when the id is present; otherwise store the index
\* given, insert, and repair the map after it.
AddChild(e, at) ==
  LET n == Len(children)
      new == InsertAt(children, InsertPos(at, n) + 1, e)
  IN /\ n < MaxLen
     /\ e \notin DOMAIN index
     /\ children' = new
     /\ index' = Reindex((e :> at) @@ index, new, at + 1, Len(new))
     /\ UNCHANGED <<loaded, loading, entity>>

RemoveAtIndex(i) ==
  /\ RemoveChildAt(i)
  /\ UNCHANGED <<loaded, loading, entity>>

\* remove_child(model): the index is looked up by id; an absent id gives
\* None and _children[None] raises before any change.
RemoveModel(e) ==
  /\ e \in DOMAIN index
  /\ RemoveChildAt(index[e])
  /\ UNCHANGED <<loaded, loading, entity>>

\* remove_child_by_id(id): get_child_by_id returns None for an absent id
\* (nothing happens), else _children[_children_map[id]], which is then
\* removed through remove_child.
RemoveById(e) ==
  /\ e \in DOMAIN index
  /\ -Len(children) <= index[e] /\ index[e] < Len(children)
  /\ LET f == PyAt(children, index[e]) IN
     /\ f \in DOMAIN index
     /\ RemoveChildAt(index[f])
  /\ UNCHANGED <<loaded, loading, entity>>

\* The longest prefix of s without a repeated id.
RECURSIVE DistinctPrefix(_)
DistinctPrefix(s) ==
  IF IsInjective(s) THEN s ELSE DistinctPrefix(Front(s))

\* set_children(children): remove_child_at(0) until empty, mark loaded, then
\* add_child(child, None) for each; a repeated id raises AlreadyExistError
\* part way, leaving the children added before it.
SetChildren(s) ==
  LET kept == DistinctPrefix(s) IN
  /\ children' = kept
  /\ index' = [e \in ToSet(kept) |-> CHOOSE k \in 0..Len(kept) - 1 : kept[k + 1] = e]
  /\ loaded' = TRUE
  /\ loading' = FALSE
  /\ UNCHANGED entity

\* set_loading(): a no-op while already loading.
SetLoading ==
  /\ ~loading
  /\ loading' = TRUE
  /\ UNCHANGED <<children, index, loaded, entity>>

\* ObservableEntity.set_loading(): a no-op while loading; else mark loading,
\* drop the model and emit ENTITY_LOAD.
EntitySetLoading(e) ==
  IF eLoading[e] THEN UNCHANGED <<eLoading, model>>
  ELSE /\ eLoading' = [eLoading EXCEPT ![e] = TRUE]
       /\ model' = [model EXCEPT ![e] = None]

\* ObservableEntity.set_model(data): a no-op when data equals the current
\* model; else clear the loading flag, store it and emit ENTITY_LOAD.
EntitySetModel(e, m) ==
  IF model[e] = m THEN UNCHANGED <<eLoading, model>>
  ELSE /\ eLoading' = [eLoading EXCEPT ![e] = FALSE]
       /\ model' = [model EXCEPT ![e] = m]

\* The application starts a fetch of an entity and calls set_loading().
FetchStart(e) ==
  /\ ~fetching[e]
  /\ fetching' = [fetching EXCEPT ![e] = TRUE]
  /\ EntitySetLoading(e)
  /\ UNCHANGED <<children, index, loaded, loading>>

\* The fetch returns and its answer is passed to set_model().
FetchDone(e, m) ==
  /\ fetching[e]
  /\ fetching' = [fetching EXCEPT ![e] = FALSE]
  /\ EntitySetModel(e, m)
  /\ UNCHANGED <<children, index, loaded, loading>>

\* The application stores a model (or None) without a fetch.
PushModel(e, m) ==
  /\ EntitySetModel(e, m)
  /\ UNCHANGED <<children, index, loaded, loading, fetching>>

Init ==
  /\ children = <<>>
  /\ index = <<>>
  /\ loaded = FALSE
  /\ loading = FALSE
  /\ eLoading = [e \in LoadIds |-> FALSE]
  /\ model \in [LoadIds -> Models \cup {None}]
  /\ fetching = [e \in LoadIds |-> FALSE]

Next ==
  \/ \E e \in Ids : AddChild(e, Len(children))
  \/ \E e \in Ids, i \in Indices(Len(children)) : AddChild(e, i)
  \/ \E i \in Indices(Len(children)) : RemoveAtIndex(i)
  \/ \E e \in Ids : RemoveModel(e) \/ RemoveById(e)
  \/ \E s \in BoundedSeq(Ids, MaxLen) : SetChildren(s)
  \/ SetLoading
  \/ \E e \in LoadIds : FetchStart(e)
  \/ \E e \in LoadIds, m \in Answers : FetchDone(e, m)
  \/ \E e \in LoadIds, m \in Models \cup {None} : PushModel(e, m)

Spec == Init /\ [][Next]_vars

\* A fetch the application started returns: its answer eventually reaches
\* set_model.  Nothing else is assumed of the application.
FairSpec ==
  Spec /\ \A e \in LoadIds : WF_vars(\E m \in Answers : FetchDone(e, m))

-----------------------------------------------------------------------------

\* The collection holds each entity at most once (add_child refuses an id
\* already in the map) and the map has exactly the ids of the children.
TypeOK ==
  /\ children \in Seq(Ids) /\ IsInjective(children)
  /\ DOMAIN index = ToSet(children)
  /\ index \in [DOMAIN index -> Int]
  /\ loaded \in BOOLEAN /\ loading \in BOOLEAN
  /\ eLoading \in [LoadIds -> BOOLEAN] /\ fetching \in [LoadIds -> BOOLEAN]
  /\ model \in [LoadIds -> Models \cup {None}]

\* get_child_index_by_id returns each child's position in the list, so
\* get_child_by_id(id) returns the entity with that id.  The map is
\* repaired by hand in add_child and remove_child_at.  It is claimed for
\* the indices the library passes itself (None and 0 in set_children, a
\* position read from the map in remove_child) and for indices 0 to
\* len(children) from applications; an index past the end or a negative
\* one breaks it (IndexSlack > 0).
LookupAgrees ==
  \A k \in 1..Len(children) : index[children[k]] = k - 1

\* is_loading, once set by set_loading(), is cleared when the fetch that
\* set it answers: set_model(answer) ends the load.  set_loading() has set
\* _model to None, so set_model's equality test decides whether it does.
\* Under FairSpec TLC finds it violated as soon as a fetch may answer None
\* (entity.py:120).
LoadEnds == \A e \in LoadIds : eLoading[e] ~> ~eLoading[e]

=============================================================================
