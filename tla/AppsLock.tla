------------------------------- MODULE AppsLock -------------------------------
(***************************************************************************)
(* What the Apps queue promises about the host, without operations' life   *)
(* cycles, leases, heartbeats, crashes or time: every app has one lock, an *)
(* operation acquires it, workers act for the operation that holds it, one *)
(* at a time, and it is released only while nobody acts.                   *)
(***************************************************************************)
CONSTANTS Apps, Ops, Workers, None

VARIABLES
  holder,     \* the operation holding each app's lock, or None
  inside      \* <<w, o>>: worker w acts on the host for operation o

lockVars == <<holder, inside>>

LockInit ==
  /\ holder = [a \in Apps |-> None]
  /\ inside = {}

Acquire(a, o) ==
  /\ holder[a] = None
  /\ holder' = [holder EXCEPT ![a] = o]
  /\ UNCHANGED inside

Enter(w, a) ==
  /\ holder[a] \in Ops
  /\ \A h \in inside : h[2] # holder[a]
  /\ inside' = inside \cup {<<w, holder[a]>>}
  /\ UNCHANGED holder

Leave(w) ==
  /\ inside' = {h \in inside : h[1] # w}
  /\ UNCHANGED holder

Release(a) ==
  /\ \A h \in inside : h[2] # holder[a]
  /\ holder' = [holder EXCEPT ![a] = None]
  /\ UNCHANGED inside

LockNext ==
  \/ \E a \in Apps, o \in Ops : Acquire(a, o)
  \/ \E w \in Workers, a \in Apps : Enter(w, a)
  \/ \E w \in Workers : Leave(w)
  \/ \E a \in Apps : Release(a)

LockSpec == LockInit /\ [][LockNext]_lockVars
=============================================================================
