------------------------------- MODULE Backoff -------------------------------
(***************************************************************************)
(* The retry-delay arithmetic of internal/delivery.  A Go time.Duration is *)
(* a signed 64-bit integer; here it has Bits value bits, so that           *)
(* saturation at MaxDuration can be reached.                               *)
(***************************************************************************)
EXTENDS Integers

CONSTANTS
    Bits,             \* value bits of a duration (63 in Go)
    Second

MaxDuration == 2^Bits - 1

\* The law of powers at one exponent, which no prover used here knows.
Doubles(n) == 2^n \in Nat /\ 2^(n + 1) = 2 * 2^n

ASSUME BackoffAssumption ==
    /\ Bits \in Nat \ {0}
    /\ Second \in Nat \ {0}
    /\ 2^0 = 1 /\ \A n \in 0..Bits : Doubles(n)

Durations == 0..MaxDuration

positiveDuration(value) == IF value < 0 THEN 0 ELSE value

clampDuration(value, maximum) ==
    IF maximum > 0 /\ value > maximum THEN maximum ELSE value

\* Faulty variant: the product wraps around.
multiplyWrapping(value, factor) ==
    IF value <= 0 \/ factor <= 0 THEN 0 ELSE (value * factor) % 2^Bits

multiplyDuration(value, factor) ==
    CASE value <= 0 \/ factor <= 0                               -> 0
      [] value > 0 /\ factor > 0 /\ factor > MaxDuration \div value -> MaxDuration
      [] OTHER                                                   -> value * factor

powerOfTwo(exponent) ==
    CASE exponent <= 0    -> 1
      [] exponent >= Bits -> MaxDuration
      [] OTHER            -> 2^exponent

-------------------------------------------------------------------------------
(* Policy: a record of backoff, initial, max, jitter.                      *)

Ladder(p, attempt) ==
    LET n     == IF attempt < 1 THEN 1 ELSE attempt
        base  == positiveDuration(p.initial)
        delay == CASE p.backoff = "linear"      -> multiplyDuration(base, n)
                   [] p.backoff = "exponential" -> multiplyDuration(base, powerOfTwo(n - 1))
                   [] OTHER                     -> base
    IN  clampDuration(delay, p.max)

\* The values a draw over the given number of outcomes may return.
JitterBound(limit) == IF limit < MaxDuration THEN limit + 1 ELSE limit

\* Full jitter; `draw` is what the jitter source returned.
DelayWith(p, attempt, draw) ==
    LET limit == Ladder(p, attempt)
    IN  CASE ~p.jitter \/ limit <= 0 -> limit
          [] p.jitter /\ limit > 0 /\ draw < 0     -> 0
          [] p.jitter /\ limit > 0 /\ draw > limit -> limit
          [] OTHER -> draw

\* Faulty variant: the server's floor is applied after the cap.
EffectiveUncapped(ladder, retryAfter, maxInterval) ==
    LET delay == clampDuration(positiveDuration(ladder), maxInterval)
    IN  IF retryAfter > delay THEN retryAfter ELSE delay

\* A Retry-After floor, then the policy's cap.
EffectiveDelay(ladder, retryAfter, maxInterval) ==
    LET delay == positiveDuration(ladder)
    IN  clampDuration(IF retryAfter > delay THEN retryAfter ELSE delay, maxInterval)

DelayAfter(p, attempt, retryAfter, draw) ==
    EffectiveDelay(DelayWith(p, attempt, draw), retryAfter, p.max)

\* A Retry-After of so many seconds, saturating.
parseDeltaSeconds(seconds) ==
    IF seconds > MaxDuration \div Second THEN MaxDuration ELSE seconds * Second

===============================================================================
