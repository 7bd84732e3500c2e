------------------------------- MODULE WakeLoop -------------------------------
(***************************************************************************)
(* What makes a delivery worker poll: the dedicated LISTEN connection of   *)
(* internal/source, its coalescing wake-up channel, and the select loop of *)
(* internal/delivery that turns wake-ups and ticks into polls, under the   *)
(* supervisor of internal/cli.  The listener goroutine, the loop and the   *)
(* callers of Close run concurrently.                                      *)
(*                                                                         *)
(* Timers (ticker, jittered hint, backoffs) fire at any moment.  The loop  *)
(* is built as runLoop builds it, without a reconnect function, so the     *)
(* machine's listening and reconnecting flags are never read.              *)
(***************************************************************************)
EXTENDS Integers

CONSTANTS
    Events,           \* events committed while the process runs
    Closers,          \* callers of TriggerSource.Close
    MaxSession,       \* model bound: notifications waiting in the session
    MaxFaults         \* model bound: lost connections and failed polls

ASSUME WakeAssumption == MaxSession \in Nat /\ MaxFaults \in Nat

VARIABLES
    queued,           \* committed events no successful poll has covered
    late,             \* those committed after the current poll began
    lis,              \* the listener goroutine
    session,          \* notifications sent to its session, not yet received
    wake,             \* tokens in the channel (capacity 1)
    wakeClosed,
    panicked,         \* a send on, or a close of, the closed channel
    cancelled,        \* the command context
    closing,          \* where each caller of Close is
    loop,             \* the wake loop and its supervisor
    hinted,           \* wakeMachine.hinted
    hint,             \* the hint timer is armed
    notify,           \* the loop still reads the channel
    heard,            \* history: signalled since the last poll began
    faults            \* history: failures so far

source == <<lis, session, wake, wakeClosed, panicked, closing>>
wake_loop == <<loop, hinted, hint, notify>>
wlvars == <<queued, late, source, cancelled, wake_loop, heard, faults>>

WTypeOK ==
    /\ queued \subseteq Events /\ late \subseteq Events
    /\ lis \in {"connect", "listen", "wait", "signal", "backoff", "done"}
    /\ session \in Nat
    /\ wake \in 0..1 /\ wakeClosed \in BOOLEAN /\ panicked \in BOOLEAN
    /\ cancelled \in BOOLEAN
    /\ closing \in [Closers -> {"no", "first", "second", "returned"}]
    /\ loop \in {"poll", "select", "failed", "stopped"}
    /\ hinted \in BOOLEAN /\ hint \in BOOLEAN /\ notify \in BOOLEAN
    /\ heard \in BOOLEAN
    /\ faults \in Nat

Fault == faults < MaxFaults /\ faults' = faults + 1

closed == \E c \in Closers : closing[c] # "no"

\* The listener's context: the command's, cancelled by Close too.
Stopping == cancelled \/ closed

-------------------------------------------------------------------------------
(* A transaction commits: a queued event and, for the session that is      *)
(* listening by then, a notification.                                      *)

Commit(e) ==
    /\ e \notin queued /\ session < MaxSession
    /\ queued' = queued \cup {e}
    /\ late' = late \cup {e}
    /\ session' = IF lis \in {"wait", "signal"} THEN session + 1 ELSE session
    /\ UNCHANGED <<lis, wake, wakeClosed, panicked, closing, cancelled, wake_loop, heard, faults>>

-------------------------------------------------------------------------------
(* listenLoop.                                                             *)

Moved(state, n) ==
    /\ lis' = state /\ session' = n
    /\ UNCHANGED <<queued, late, wake, wakeClosed, panicked, closing, cancelled, wake_loop, heard>>

\* The context check before each connection, or a call it interrupts.
ListenerStops ==
    /\ Stopping /\ lis \in {"connect", "listen", "wait", "backoff"}
    /\ Moved("done", 0) /\ UNCHANGED faults

Connect == lis = "connect" /\ Moved("listen", 0) /\ UNCHANGED faults

Listen == lis = "listen" /\ Moved("wait", 0) /\ UNCHANGED faults

\* The connection is refused or lost, and with it what it had not received.
ConnectionLost ==
    /\ lis \in {"connect", "listen", "wait"}
    /\ Fault
    /\ Moved("backoff", 0)

WaitListen == lis = "backoff" /\ Moved("connect", 0) /\ UNCHANGED faults

ReceiveNotification ==
    /\ lis = "wait" /\ session > 0
    /\ Moved("signal", session - 1) /\ UNCHANGED faults

\* Faulty variant: a full channel blocks the listener.
signalBlocks ==
    /\ lis = "signal" /\ wake = 0
    /\ lis' = "wait" /\ wake' = 1
    /\ panicked' = (panicked \/ wakeClosed)
    /\ heard' = TRUE
    /\ UNCHANGED <<queued, late, session, wakeClosed, closing, cancelled, wake_loop, faults>>

\* A full channel drops the token.
signalWake ==
    /\ lis = "signal" /\ lis' = "wait"
    /\ wake' = 1
    /\ panicked' = (panicked \/ wakeClosed)
    /\ heard' = TRUE
    /\ UNCHANGED <<queued, late, session, wakeClosed, closing, cancelled, wake_loop, faults>>

-------------------------------------------------------------------------------
(* Close: the first caller cancels, waits for the listener and closes the  *)
(* channel; the others wait for the first.                                 *)

Close(c) ==
    /\ closing[c] = "no"
    /\ closing' = [closing EXCEPT ![c] = IF closed THEN "second" ELSE "first"]
    /\ UNCHANGED <<queued, late, lis, session, wake, wakeClosed, panicked, cancelled,
                   wake_loop, heard, faults>>

\* Faulty variant: the channel is closed under the running listener.
CloseAtOnce(c) ==
    /\ closing[c] = "first"
    /\ closing' = [closing EXCEPT ![c] = "returned"]
    /\ wakeClosed' = TRUE
    /\ panicked' = (panicked \/ wakeClosed)
    /\ UNCHANGED <<queued, late, lis, session, wake, cancelled, wake_loop, heard, faults>>

CloseWake(c) ==
    /\ closing[c] = "first" /\ lis = "done"
    /\ closing' = [closing EXCEPT ![c] = "returned"]
    /\ wakeClosed' = TRUE
    /\ panicked' = (panicked \/ wakeClosed)
    /\ UNCHANGED <<queued, late, lis, session, wake, cancelled, wake_loop, heard, faults>>

CloseWaited(c) ==
    /\ closing[c] = "second" /\ wakeClosed
    /\ closing' = [closing EXCEPT ![c] = "returned"]
    /\ UNCHANGED <<queued, late, lis, session, wake, wakeClosed, panicked, cancelled,
                   wake_loop, heard, faults>>

-------------------------------------------------------------------------------
(* wakeLoop.run.  A poll is one RunOnce; one that succeeds has claimed, or *)
(* left to a later poll for want of a slot, what was committed before it   *)
(* began.  A cancellation may come too late to fail it.                    *)

BeginPoll ==
    /\ loop' = "poll"
    /\ late' = {}
    /\ heard' = FALSE
    /\ UNCHANGED <<queued, session, lis, wakeClosed, panicked, closing, cancelled, faults>>

Tick == loop = "select" /\ BeginPoll /\ UNCHANGED <<wake, hinted, hint, notify>>

\* Faulty variant: the machine is not told that its hint fired.
HintFiresSilently ==
    /\ loop = "select" /\ hint
    /\ hint' = FALSE
    /\ BeginPoll /\ UNCHANGED <<wake, hinted, notify>>

HintFires ==
    /\ loop = "select" /\ hint
    /\ hint' = FALSE /\ hinted' = FALSE
    /\ BeginPoll /\ UNCHANGED <<wake, notify>>

\* A token arms the hint unless one is armed already.
Notified ==
    /\ loop = "select" /\ notify /\ wake = 1
    /\ wake' = 0
    /\ hinted' = TRUE
    /\ hint' = (hint \/ ~hinted)
    /\ UNCHANGED <<queued, late, lis, session, wakeClosed, panicked, closing, cancelled, loop,
                   notify, heard, faults>>

\* The closed channel is put out of the select, which would spin on it.
NotifyClosed ==
    /\ loop = "select" /\ notify /\ wake = 0 /\ wakeClosed
    /\ notify' = FALSE
    /\ UNCHANGED <<queued, late, source, cancelled, loop, hinted, hint, heard, faults>>

PollSucceeds ==
    /\ loop = "poll"
    /\ loop' = "select"
    /\ queued' = late
    /\ UNCHANGED <<late, source, cancelled, hinted, hint, notify, heard, faults>>

\* Under a cancelled context RunOnce's error is swallowed.
PollCancelled ==
    /\ loop = "poll" /\ cancelled
    /\ loop' = "select"
    /\ UNCHANGED <<queued, late, source, cancelled, hinted, hint, notify, heard, faults>>

PollFails ==
    /\ loop = "poll" /\ Fault
    /\ loop' = "failed"
    /\ UNCHANGED <<queued, late, source, cancelled, hinted, hint, notify, heard>>

\* The supervisor's restart: a new loop polls before it selects.
Restart ==
    /\ loop = "failed" /\ ~cancelled
    /\ hinted' = FALSE /\ hint' = FALSE /\ notify' = TRUE
    /\ BeginPoll /\ UNCHANGED wake

Ended ==
    /\ loop = "failed"
    /\ loop' = "stopped"
    /\ UNCHANGED <<queued, late, source, cancelled, hinted, hint, notify, heard, faults>>

\* Faulty variant: a failed loop is reported and never restarted.
SuperviseOnce == Ended

Supervise == Restart \/ (cancelled /\ Ended)

\* ctx.Done() in the select: stop the hint, drain, return.
Stop ==
    /\ loop = "select" /\ cancelled
    /\ loop' = "stopped" /\ hint' = FALSE
    /\ UNCHANGED <<queued, late, source, cancelled, hinted, notify, heard, faults>>

Cancel ==
    /\ ~cancelled /\ cancelled' = TRUE
    /\ UNCHANGED <<queued, late, source, wake_loop, heard, faults>>

ListenerStep ==
    ListenerStops \/ Connect \/ Listen \/ WaitListen \/ ReceiveNotification \/ signalWake

CloseStep(c) == CloseWake(c) \/ CloseWaited(c)

LoopStep ==
    \/ Tick \/ HintFires \/ Notified \/ NotifyClosed
    \/ PollSucceeds \/ PollCancelled \/ PollFails \/ Supervise \/ Stop

WInit ==
    /\ queued = {} /\ late = {}
    /\ lis \in {"connect", "done"}        \* Options.Listen
    /\ session = 0 /\ wake = 0 /\ wakeClosed = FALSE /\ panicked = FALSE
    /\ cancelled = FALSE
    /\ closing = [c \in Closers |-> "no"]
    /\ loop = "poll" /\ hinted = FALSE /\ hint = FALSE /\ notify = TRUE
    /\ heard = FALSE
    /\ faults = 0

WNext ==
    \/ \E e \in Events : Commit(e)
    \/ ListenerStep \/ ConnectionLost
    \/ \E c \in Closers : Close(c) \/ CloseStep(c)
    \/ LoopStep
    \/ Cancel

WSpec == WInit /\ [][WNext]_wlvars

\* Goroutines run and timers fire; a select that keeps finding the ticker
\* ready among other cases picks it in the end, as Go's choice is random.  A
\* cancelled context fails the listener's next call to the server, which only
\* notifications already buffered can put off.
WFairSpec ==
    /\ WSpec
    /\ WF_wlvars(ListenerStep) /\ SF_wlvars(ListenerStops)
    /\ WF_wlvars(LoopStep) /\ SF_wlvars(Tick)
    /\ \A c \in Closers : WF_wlvars(CloseStep(c))

-------------------------------------------------------------------------------
(* Properties.                                                             *)

\* No wake-up is lost between the listener and the loop: once signalled, a
\* token waits in the channel or a hint is armed until a poll begins, however
\* signals coalesce, ticks and hints interleave and the loop is restarted.
NoWakeupLost ==
    heard /\ loop \in {"poll", "select"} => (notify /\ wake = 1) \/ hint

\* signalWake never sends on the closed channel and Close never closes it
\* twice (either would panic), with Close racing the listener and itself.
NeverPanics == ~panicked

\* Every caller of Close returns, the listener connecting, waiting, backing
\* off or signalling a loop that no longer reads.
CloseReturns == \A c \in Closers : closing[c] # "no" ~> closing[c] = "returned"

\* The poll interval is the safety net behind LISTEN: every committed event
\* is covered by a successful poll unless the process is shut down, with the
\* notification lost, the source closed or the loop failing in between.
EventuallyPolled == \A e \in Events : e \in queued ~> e \notin queued \/ cancelled

===============================================================================
