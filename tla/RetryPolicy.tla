----------------------------- MODULE RetryPolicy -----------------------------
(***************************************************************************)
(* How one answer of a destination becomes a verdict on the attempt: the   *)
(* total status classification of internal/delivery and its max-attempts   *)
(* boundary.  A transport failure (timeout, refused connection, blocked    *)
(* address) has no status and is the pseudo-status TransportError.         *)
(***************************************************************************)
EXTENDS Integers

TransportError == 0

ClassifyStatus(status) ==
    CASE status \in 200..299                           -> "success"
      [] status \in {408, 429} \/ status \in 500..599  -> "retryable"
      [] OTHER                                         -> "terminal"

\* Zero or negative limits fail closed as terminal.
Terminal(maxAttempts, attempt) == maxAttempts <= 0 \/ attempt >= maxAttempts

ShouldRetry(maxAttempts, attempt, outcome) ==
    outcome = "retryable" /\ ~Terminal(maxAttempts, attempt)

\* An attempt that got an error never looks at a status.
classifyAttempt(maxAttempts, attempt, answer) ==
    LET outcome == IF answer = TransportError THEN "retryable" ELSE ClassifyStatus(answer)
    IN  IF outcome = "retryable" /\ ~ShouldRetry(maxAttempts, attempt, outcome)
        THEN "terminal" ELSE outcome

===============================================================================
