---------------------------- MODULE RetrySchedule ----------------------------
(***************************************************************************)
(* The retry instants of one event: each retryable answer, with or without *)
(* a Retry-After header, schedules the next attempt until the policy's     *)
(* attempts are used up.                                                   *)
(***************************************************************************)
EXTENDS Backoff, RetryPolicy

CONSTANTS
    Policies,         \* retry policies of listeners
    RetryAfters,      \* delta-seconds of Retry-After headers; 0 is none
    Statuses          \* statuses destinations answer

\* A policy's durations are durations; a header's seconds are not negative.
ASSUME PoliciesAssumption ==
    /\ \A p \in Policies : /\ p.initial \in Int /\ p.initial <= MaxDuration
                          /\ p.max \in Int /\ p.max <= MaxDuration
                          /\ p.jitter \in BOOLEAN /\ p.attempts \in Int
                          /\ \A n \in 0..p.attempts : Doubles(n)
    /\ RetryAfters \subseteq Nat

VARIABLES
    policy,
    attempt,          \* the attempt under way; 0 once the event is settled
    waited            \* [ladder, floor, delay] of the last retry scheduled

svars == <<policy, attempt, waited>>

NotWaited == [ladder |-> 0, floor |-> 0, delay |-> 0]

\* No event is being retried.
Idle == policy = (CHOOSE p \in Policies : TRUE) /\ attempt = 0 /\ waited = NotWaited

SInit ==
    /\ policy \in Policies
    /\ attempt = 1
    /\ waited = NotWaited

\* recordResult on a retryable outcome.
Retry(status, seconds, draw) ==
    /\ attempt > 0
    /\ classifyAttempt(policy.attempts, attempt, status) = "retryable"
    /\ attempt' = attempt + 1
    /\ waited' = [ladder |-> Ladder(policy, attempt),
                  floor  |-> parseDeltaSeconds(seconds),
                  delay  |-> DelayAfter(policy, attempt, parseDeltaSeconds(seconds), draw)]
    /\ UNCHANGED policy

Settled(status) ==
    /\ attempt > 0
    /\ classifyAttempt(policy.attempts, attempt, status) # "retryable"
    /\ attempt' = 0
    /\ UNCHANGED <<policy, waited>>

SNext ==
    \E status \in Statuses \cup {TransportError} :
        \/ \E seconds \in RetryAfters :
           \E draw \in 0..(JitterBound(Ladder(policy, attempt)) - 1) :
               Retry(status, IF status = TransportError THEN 0 ELSE seconds, draw)
        \/ Settled(status)

SSpec == SInit /\ [][SNext]_svars

-------------------------------------------------------------------------------
(* Properties.                                                             *)

\* The ladder in unbounded arithmetic: what the configuration asks for.
ExactLadder(p, n) ==
    LET base  == positiveDuration(p.initial)
        exact == CASE p.backoff = "linear"      -> base * n
                   [] p.backoff = "exponential" -> base * 2^(n - 1)
                   [] OTHER                     -> base
        cap   == IF p.max > 0 THEN p.max ELSE MaxDuration
    IN  IF exact > cap THEN cap ELSE exact

\* Overflow never shortens a wait: at every attempt the ladder is the exact
\* mathematical one cut off at max_interval, or at the largest duration.
LadderIsExact ==
    attempt > 0 => Ladder(policy, attempt) = ExactLadder(policy, attempt)

\* A scheduled delay is a representable duration within max_interval, never
\* above both the ladder and the server's floor, and honours the floor up to
\* max_interval whatever the jitter drew.
DelayWithinPolicy ==
    LET cap == IF policy.max > 0 THEN policy.max ELSE MaxDuration
    IN  /\ waited.delay \in 0..cap
        /\ waited.delay <= waited.ladder \/ waited.delay <= waited.floor
        /\ waited.floor <= cap => waited.delay >= waited.floor
        /\ waited.floor > cap => waited.delay = cap

===============================================================================
