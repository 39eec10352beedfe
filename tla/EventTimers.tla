---------------------------- MODULE EventTimers -----------------------------
(***************************************************************************)
(* What the cycle scheduler promises to the devices, without the lazy      *)
(* bookkeeping: a set of armed timers, each with the time it has left.     *)
(* Time passes for all armed timers alike; a timer goes off only when its  *)
(* time is over and no other armed timer was due before it; arming,        *)
(* stopping or resuming one timer leaves every other timer alone.          *)
(***************************************************************************)
EXTENDS Integers

CONSTANTS Timer, NoCheckpoint

VARIABLES
  armed,        \* the timers that are running
  left,         \* the time each timer has left; it may be overdue (< 0)
  checkpoint    \* the saved state, or NoCheckpoint

vars == <<armed, left, checkpoint>>

Init ==
  /\ armed \in SUBSET Timer
  /\ left \in [Timer -> Int]
  /\ checkpoint = NoCheckpoint

(* f is g with every timer of S shifted by one and the same time, which    *)
(* the condition on the sign of the shift restricts.                       *)
ShiftedLater(f, g, S) ==
  /\ f \in [Timer -> Int]
  /\ \A t \in Timer \ S : f[t] = g[t]
  /\ \A t, u \in S : f[t] >= g[t] /\ f[t] - g[t] = f[u] - g[u]

(* The CPU executes: every armed timer comes closer, the others wait. *)
Pass ==
  /\ left' \in [Timer -> Int]
  /\ ShiftedLater(left, left', armed)
  /\ UNCHANGED <<armed, checkpoint>>

(* Timer t is (re)armed with a new time. *)
Arm(t) ==
  /\ armed' = armed \cup {t}
  /\ left' \in [Timer -> Int]
  /\ \A u \in Timer \ {t} : left'[u] = left[u]
  /\ UNCHANGED checkpoint

(* Timer t is stopped; it remembers the time it has left. *)
Stop(t) ==
  /\ armed' = armed \ {t}
  /\ UNCHANGED <<left, checkpoint>>

(* Timer t goes on with the time it had left. *)
Resume(t) ==
  /\ armed' = armed \cup {t}
  /\ UNCHANGED <<left, checkpoint>>

(* Timer t goes off: it is overdue and nobody was due earlier. *)
GoOff(t) ==
  /\ t \in armed
  /\ left[t] <= 0
  /\ \A u \in armed : left[t] <= left[u]
  /\ armed' = armed \ {t}
  /\ UNCHANGED <<left, checkpoint>>

(* Timer t goes off and its handler arms timer n (t itself or another). *)
GoOffAndArm(t, n) ==
  /\ t \in armed
  /\ left[t] <= 0
  /\ \A u \in armed : left[t] <= left[u]
  /\ armed' = (armed \ {t}) \cup {n}
  /\ left' \in [Timer -> Int]
  /\ \A u \in Timer \ {n} : left'[u] = left[u]
  /\ UNCHANGED checkpoint

(* A reset forgets every timer but the one the video starts with. *)
Reset(t) ==
  /\ armed' = {t}
  /\ left' \in [Timer -> Int]
  /\ UNCHANGED checkpoint

Save ==
  /\ checkpoint' = [armed |-> armed, left |-> left]
  /\ UNCHANGED <<armed, left>>

(* A restored machine has the saved timers, all late by the same time:     *)
(* their order and their distances are those of the saved machine.         *)
Restore ==
  /\ checkpoint # NoCheckpoint
  /\ armed' = checkpoint.armed
  /\ ShiftedLater(left', checkpoint.left, checkpoint.armed)
  /\ UNCHANGED checkpoint

Next ==
  \/ Pass \/ Save \/ Restore
  \/ \E t \in Timer : Arm(t) \/ Stop(t) \/ Resume(t) \/ GoOff(t) \/ Reset(t)
  \/ \E t, n \in Timer : GoOffAndArm(t, n)

Spec == Init /\ [][Next]_vars
=============================================================================
