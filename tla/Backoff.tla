-------------------------------- MODULE Backoff --------------------------------
(***************************************************************************)
(* The retry loop of exponentialBackoff: the state it keeps between        *)
(* attempts and what each outcome of the action does to it.  Durations are *)
(* natural numbers of seconds; jitter is a percentage.                     *)
(***************************************************************************)
EXTENDS Naturals, FiniteSetsExt

\* backoffOpts, without its logger and success time.
Options(initial, maximum, pct, threshold, factor) ==
    [InitialBackoff |-> initial, MaxBackoff |-> maximum, MaxJitterPct |-> pct,
     SevereErrorThreshold |-> threshold, ExponentialFactor |-> factor]

\* Mutant of clamp: the minimum is not kept.
clampAbove(minimum, val, maximum) == IF val > maximum THEN maximum ELSE val

clamp(minimum, val, maximum) ==
    IF val < minimum THEN minimum
    ELSE IF val > maximum THEN maximum ELSE val

\* JitterTime, rounded down to whole seconds.
JitterTime(base, pct) == ((base * (100 - pct)) \div 100)..base

resetBackoff(opts) ==
    [consecutiveFailures |-> 0, backoff |-> opts.InitialBackoff]

\* The durations AddBackoff may sleep, and the state it leaves.
Sleeps(opts, s) ==
    {clamp(opts.InitialBackoff, d, opts.MaxBackoff) :
        d \in JitterTime(s.backoff, opts.MaxJitterPct)}

AddBackoff(opts, s) ==
    [consecutiveFailures |-> s.consecutiveFailures + 1,
     backoff |-> Min({s.backoff * opts.ExponentialFactor, opts.MaxBackoff})]

GivingUp(opts, s) == s.consecutiveFailures >= opts.SevereErrorThreshold
================================================================================
