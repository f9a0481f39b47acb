------------------------------ MODULE AtomicMap ------------------------------
(***************************************************************************)
(* What every hash-map variant of the repository promises to its callers   *)
(* for the mutating operations putIfAbsent and remove: each call takes     *)
(* effect atomically at one instant between its invocation and its        *)
(* response.  A thread first invokes an operation (pending), the operation *)
(* then takes effect on the map and records the value it returns.          *)
(*                                                                         *)
(*   putIfAbsent(k, d): if k is mapped, returns its data and changes       *)
(*                      nothing; otherwise maps k to d and returns the     *)
(*                      empty datum.                                       *)
(*   remove(k):         if k is mapped, unmaps it and returns its data;    *)
(*                      otherwise returns the empty datum.                 *)
(*                                                                         *)
(* containsKey is not part of this specification: its correctness is the   *)
(* window property stated in the detailed modules.                         *)
(***************************************************************************)
EXTENDS FiniteSets, Functions, TLC

CONSTANTS
  Threads,    \* the calling threads
  Keys,       \* keys; a key's data is also drawn from Keys
  NoKey,      \* _EMPTY_KEY / _EMPTY_DATA
  NoOp,       \* marks a thread with no pending operation
  InitMap     \* the contents before the threads start

VARIABLES
  map,        \* the abstract contents: a function from the mapped keys
  pending,    \* pending[t]: the operation t has invoked and not applied
  result      \* result[t]: what t's last applied operation returned

avars == <<map, pending, result>>

Ops == [kind : {"put", "remove"}, key : Keys, data : Keys]

ATypeOK ==
  /\ DOMAIN map \subseteq Keys
  /\ \A k \in DOMAIN map : map[k] \in Keys
  /\ pending \in [Threads -> Ops \cup {NoOp}]
  /\ result \in [Threads -> Keys \cup {NoKey}]

AInit ==
  /\ map = InitMap
  /\ pending = [t \in Threads |-> NoOp]
  /\ result = [t \in Threads |-> NoKey]

Invoke(t) ==
  /\ pending[t] = NoOp
  /\ \E o \in Ops : pending' = [pending EXCEPT ![t] = o]
  /\ UNCHANGED <<map, result>>

\* Operation o of thread t takes effect on the map and sets t's result.
Do(t, o) ==
  IF o.key \in DOMAIN map
    THEN /\ result' = [result EXCEPT ![t] = map[o.key]]
         /\ map' = IF o.kind = "put" THEN map
                   ELSE Restrict(map, DOMAIN map \ {o.key})
    ELSE /\ result' = [result EXCEPT ![t] = NoKey]
         /\ map' = IF o.kind = "put" THEN (o.key :> o.data) @@ map ELSE map

\* The pending operation of t takes effect.
Apply(t) ==
  /\ pending[t] # NoOp
  /\ Do(t, pending[t])
  /\ pending' = [pending EXCEPT ![t] = NoOp]

\* An operation invoked and taking effect in one step.
Call(t) ==
  /\ pending[t] = NoOp
  /\ \E o \in Ops : Do(t, o)
  /\ UNCHANGED pending

ANext == \E t \in Threads : Invoke(t) \/ Apply(t) \/ Call(t)

ASpec == AInit /\ [][ANext]_avars

=============================================================================
