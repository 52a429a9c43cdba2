---------------------------- MODULE SteadyClock ----------------------------
(***************************************************************************)
(* std::chrono::steady_clock as the server reads it: a reading that never  *)
(* goes back.  The unit is a fraction of a second, TicksPerSecond of them, *)
(* so that a duration cast to whole seconds loses something.               *)
(***************************************************************************)
EXTENDS Naturals

CONSTANTS
    TicksPerSecond,  \* how fine the model's clock is
    MaxTime          \* bound: the clock stops there

ASSUME ClockAssumption ==
    /\ TicksPerSecond \in Nat \ {0}
    /\ MaxTime \in Nat

VARIABLE now         \* steady_clock::now()

Time == 0..MaxTime

ClockInit == now = 0

\* Time passes.
Tick ==
    /\ now < MaxTime
    /\ now' = now + 1

\* duration_cast<seconds>: truncation towards zero.
InSeconds(duration) == duration \div TicksPerSecond
=============================================================================
