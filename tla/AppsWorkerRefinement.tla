------------------------- MODULE AppsWorkerRefinement -------------------------
(***************************************************************************)
(* The workers implement the per-app lock of AppsLock.  The lock of an app *)
(* is held by the operation whose record is active, whatever its status:   *)
(* an operation failed by recovery still holds it.                         *)
(***************************************************************************)
EXTENDS AppsWorker

Holds(o, a) == op[o].active /\ op[o].app = a

Holder ==
  [a \in Apps |-> IF \E o \in Ops : Holds(o, a) THEN CHOOSE o \in Ops : Holds(o, a)
                                                ELSE None]

Lock == INSTANCE AppsLock WITH holder <- Holder, inside <- host

\* Every step of the workers is a step of the lock or leaves it alone: no
\* recovery, crash, late write or manual unlock releases a lock in use, and
\* no worker acts without it.
ImplementsLock == Lock!LockSpec
=============================================================================
