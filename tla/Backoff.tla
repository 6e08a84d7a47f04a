-------------------------------- MODULE Backoff --------------------------------
(***************************************************************************)
(* backoff.rs: the delay before another attempt to connect or subscribe.   *)
(* The widths of the integers are parameters, for TLC's are short.         *)
(***************************************************************************)
EXTENDS Integers

CONSTANTS
  MaxU128,  \* u128::MAX
  U64       \* 2^64, at which `as u64` cuts; positive

Smaller(a, b) == IF a < b THEN a ELSE b

SaturatingMul(a, b) == Smaller(a * b, MaxU128)

\* 2u128.saturating_pow(attempt), by repeated squaring in the library and by doubling here.
SaturatingPowOfTwo[attempt \in Nat] ==
  IF attempt = 0 THEN 1 ELSE SaturatingMul(2, SaturatingPowOfTwo[attempt - 1])

\* The longest delay, in milliseconds, of the given attempt.
Capped(attempt, min_delay, max_delay) ==
  Smaller(SaturatingMul(min_delay, SaturatingPowOfTwo[attempt]), max_delay)

\* next_delay(): the delays that may be drawn.  A zero cap leaves only 0.
NextDelay(attempt, min_delay, max_delay) ==
  {jittered % U64 : jittered \in 0 .. Capped(attempt, min_delay, max_delay)}

\* What wait_backoff() and schedule_resubscribe() ask for, after so many failed attempts.
DelayAfter(attempts, min_delay, max_delay) ==
  NextDelay(IF attempts = 0 THEN 0 ELSE attempts - 1, min_delay, max_delay)
===============================================================================
