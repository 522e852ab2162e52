--------------------------- MODULE SchedulerClock ---------------------------
(***************************************************************************)
(* The timing of JobScheduler::schedulerLoop: an iteration reads the clock *)
(* in whole seconds, fires what is due in that second, works out how long  *)
(* to sleep and sleeps.  Time is counted in units of the loop's 50 ms.     *)
(***************************************************************************)
EXTENDS Integers

CONSTANTS
  Second,      \* units in a second (1000 ms)
  Overshoot,   \* units added to every sleep (50 ms)
  MaxWork,     \* bound: units an iteration may take before it sleeps
  Horizon      \* bound: seconds observed

VARIABLES
  clock,       \* the time at which the iteration reads the clock
  examined     \* the second whose cron matches it looks for

vars == <<clock, examined>>

InSeconds(t) == t \div Second        \* std::time(nullptr)

\* elapsed is a difference of whole seconds
SleepFor(elapsed) ==
  IF elapsed < 1 THEN Second - elapsed * Second + Overshoot ELSE Overshoot

Iteration ==
  /\ examined < Horizon
  /\ \E work \in 0 .. MaxWork :
       clock' = clock + work + SleepFor(InSeconds(clock + work) - InSeconds(clock))
  /\ examined' = InSeconds(clock')

\* the scheduler starts anywhere in a second
Init == clock \in 0 .. Second - 1 /\ examined = InSeconds(clock)
Next == Iteration
Spec == Init /\ [][Next]_vars

(* schedulerLoop's comment: the loop looks at every second, so that no cron *)
(* expression that names one second of the minute is passed over.           *)
EverySecondExamined == [][examined' <= examined + 1]_vars
=============================================================================
