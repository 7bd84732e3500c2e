---------------------------- MODULE WakeLoopProofs ----------------------------
(***************************************************************************)
(* The wake-up path loses no wake-up and never panics, for any number of   *)
(* events, callers of Close, notifications and failures.                   *)
(***************************************************************************)
EXTENDS WakeLoop, TLAPS

\* While the loop runs, the machine's flag says whether the timer is armed;
\* a fired hint that left the flag set would swallow the next token.
HintKnown == loop \in {"poll", "select"} => (hinted <=> hint)

\* The channel is closed by a Close, after the listener has ended.
ClosedLast == wakeClosed => closed /\ lis = "done"

\* At most one caller is about to close the channel, and it is still open.
OneCloser ==
    /\ \A c \in Closers : closing[c] = "first" => ~wakeClosed
    /\ \A c, d \in Closers : closing[c] = "first" /\ closing[d] = "first" => c = d

\* The loop stops reading only a closed channel.
ReadsWhileOpen == notify \/ wakeClosed

\* The inductive invariant.
WInv ==
    /\ WTypeOK
    /\ HintKnown
    /\ ClosedLast
    /\ OneCloser
    /\ ReadsWhileOpen
    /\ NoWakeupLost
    /\ NeverPanics

\* The invariant holds before the loop and the listener start.
LEMMA WInvInit == WInit => WInv
  <1> SUFFICES ASSUME WInit PROVE WInv
    OBVIOUS
  <1> USE DEF WInit
  <1>1. WTypeOK
    <2>1. /\ queued \subseteq Events /\ late \subseteq Events
          /\ lis \in {"connect", "listen", "wait", "signal", "backoff", "done"}
          /\ session \in Nat /\ wake \in 0..1 /\ faults \in Nat
      OBVIOUS
    <2>2. closing \in [Closers -> {"no", "first", "second", "returned"}]
      OBVIOUS
    <2>3. /\ wakeClosed \in BOOLEAN /\ panicked \in BOOLEAN /\ cancelled \in BOOLEAN
          /\ hinted \in BOOLEAN /\ hint \in BOOLEAN /\ notify \in BOOLEAN /\ heard \in BOOLEAN
      OBVIOUS
    <2>4. loop \in {"poll", "select", "failed", "stopped"}
      OBVIOUS
    <2> QED
      BY <2>1, <2>2, <2>3, <2>4 DEF WTypeOK
  <1>2. HintKnown /\ ClosedLast /\ OneCloser /\ ReadsWhileOpen
    BY DEF HintKnown, ClosedLast, OneCloser, ReadsWhileOpen
  <1>3. NoWakeupLost /\ NeverPanics
    BY DEF NoWakeupLost, NeverPanics
  <1> QED
    BY <1>1, <1>2, <1>3 DEF WInv

\* A commit, and every listener step but signalWake, touch none of the state
\* the invariant relates but `lis`, and none of them leaves "done".
LEMMA QuietStep ==
  ASSUME WInv,
         \/ \E e \in Events : Commit(e)
         \/ ListenerStops \/ Connect \/ Listen \/ WaitListen \/ ReceiveNotification
         \/ ConnectionLost
  PROVE  WInv'
  <1>1. UNCHANGED <<wake, wakeClosed, panicked, closing, cancelled, wake_loop, heard>>
    BY DEF Commit, ListenerStops, Connect, Listen, WaitListen, ReceiveNotification,
           ConnectionLost, Moved
  <1>2. UNCHANGED <<loop, hinted, hint, notify>>
    BY <1>1 DEF wake_loop
  <1>3. WTypeOK'
    <2>1. queued' \subseteq Events /\ late' \subseteq Events
      BY DEF WInv, WTypeOK, Commit, ListenerStops, Connect, Listen, WaitListen,
             ReceiveNotification, ConnectionLost, Moved
    <2>2. session' \in Nat /\ faults' \in Nat
      BY DEF WInv, WTypeOK, Commit, ListenerStops, Connect, Listen, WaitListen,
             ReceiveNotification, ConnectionLost, Moved, Fault
    <2>3. lis' \in {"connect", "listen", "wait", "signal", "backoff", "done"}
      BY DEF WInv, WTypeOK, Commit, ListenerStops, Connect, Listen, WaitListen,
             ReceiveNotification, ConnectionLost, Moved
    <2> QED
      BY <1>1, <1>2, <2>1, <2>2, <2>3 DEF WInv, WTypeOK
  <1>4. lis = "done" => lis' = "done"
    BY DEF Commit, ListenerStops, Connect, Listen, WaitListen, ReceiveNotification,
           ConnectionLost, Moved
  <1>5. ClosedLast'
    BY <1>1, <1>4 DEF WInv, ClosedLast, closed
  <1>6. HintKnown' /\ OneCloser' /\ ReadsWhileOpen' /\ NoWakeupLost' /\ NeverPanics'
    BY <1>1, <1>2 DEF WInv, HintKnown, OneCloser, ReadsWhileOpen, NoWakeupLost, NeverPanics
  <1> QED
    BY <1>3, <1>5, <1>6 DEF WInv

\* The listener signals an open channel only, and the loop still reads it.
LEMMA SignalStep ==
  ASSUME WInv, signalWake
  PROVE  WInv'
  <1>1. ~wakeClosed
    BY DEF WInv, ClosedLast, signalWake
  <1>2. UNCHANGED <<loop, hinted, hint, notify>>
    BY DEF signalWake, wake_loop
  <1>3. WTypeOK'
    BY <1>2 DEF WInv, WTypeOK, signalWake
  <1>4. HintKnown' /\ ClosedLast' /\ OneCloser' /\ ReadsWhileOpen'
    BY <1>1, <1>2 DEF WInv, HintKnown, ClosedLast, OneCloser, ReadsWhileOpen, signalWake
  <1>5. NoWakeupLost' /\ NeverPanics'
    BY <1>1, <1>2 DEF WInv, ReadsWhileOpen, NoWakeupLost, NeverPanics, signalWake
  <1> QED
    BY <1>3, <1>4, <1>5 DEF WInv

\* Close: the first caller is alone, and closes after the listener.
LEMMA ClosingStep ==
  ASSUME WInv, NEW c \in Closers, Close(c) \/ CloseStep(c)
  PROVE  WInv'
  <1>1. UNCHANGED <<queued, late, lis, session, wake, cancelled, loop, hinted, hint, notify,
                    heard, faults>>
    BY DEF Close, CloseStep, CloseWake, CloseWaited, wake_loop
  <1>2. /\ closing' \in [Closers -> {"no", "first", "second", "returned"}]
        /\ \A d \in Closers \ {c} : closing'[d] = closing[d]
        /\ closing'[c] # "no"
    BY DEF WInv, WTypeOK, Close, CloseStep, CloseWake, CloseWaited
  <1>3. closed'
    BY <1>2 DEF closed
  <1>4. CASE Close(c)
    <2>1. UNCHANGED <<wakeClosed, panicked>>
      BY <1>4 DEF Close
    <2>2. closing'[c] = "first" => ~closed
      BY <1>4 DEF Close, WInv, WTypeOK
    <2>3. closing'[c] = "first" => ~wakeClosed /\ \A d \in Closers \ {c} : closing'[d] # "first"
      BY <1>2, <2>2 DEF WInv, ClosedLast, closed
    <2>4. OneCloser'
      BY <1>2, <2>1, <2>3 DEF WInv, OneCloser
    <2> QED
      BY <1>1, <1>2, <1>3, <2>1, <2>4
      DEF WInv, WTypeOK, HintKnown, ClosedLast, ReadsWhileOpen, NoWakeupLost, NeverPanics
  <1>5. CASE CloseWake(c)
    <2>1. ~wakeClosed /\ wakeClosed' /\ lis = "done" /\ panicked' = panicked
      BY <1>5 DEF CloseWake, WInv, WTypeOK, OneCloser, NeverPanics
    <2>2. \A d \in Closers : closing'[d] # "first"
      BY <1>2, <1>5 DEF CloseWake, WInv, WTypeOK, OneCloser
    <2>3. OneCloser'
      BY <2>2 DEF OneCloser
    <2> QED
      BY <1>1, <1>2, <1>3, <2>1, <2>3
      DEF WInv, WTypeOK, HintKnown, ClosedLast, ReadsWhileOpen, NoWakeupLost, NeverPanics
  <1>6. CASE CloseWaited(c)
    <2>1. UNCHANGED <<wakeClosed, panicked>> /\ closing'[c] = "returned"
      BY <1>6 DEF CloseWaited, WInv, WTypeOK
    <2>2. OneCloser'
      BY <1>2, <2>1 DEF WInv, OneCloser
    <2> QED
      BY <1>1, <1>2, <1>3, <2>1, <2>2
      DEF WInv, WTypeOK, HintKnown, ClosedLast, ReadsWhileOpen, NoWakeupLost, NeverPanics
  <1> QED
    BY <1>4, <1>5, <1>6 DEF CloseStep

\* The loop: a poll begins with nothing heard; a token taken arms the hint.
LEMMA LoopKeeps ==
  ASSUME WInv, LoopStep \/ Cancel
  PROVE  WInv'
  <1> USE DEF LoopStep, Tick, HintFires, Notified, NotifyClosed, PollSucceeds, PollCancelled,
              PollFails, Supervise, Restart, Ended, Stop, Cancel, BeginPoll, source, wake_loop
  <1>1. UNCHANGED <<lis, session, wakeClosed, panicked, closing>>
    OBVIOUS
  <1>2. WTypeOK'
    <2>1. queued' \subseteq Events /\ late' \subseteq Events
      BY DEF WInv, WTypeOK
    <2>4. wake' \in 0..1
      BY DEF WInv, WTypeOK
    <2>5. cancelled' \in BOOLEAN
      BY DEF WInv, WTypeOK
    <2>6. loop' \in {"poll", "select", "failed", "stopped"}
      BY DEF WInv, WTypeOK
    <2>2. hinted' \in BOOLEAN /\ hint' \in BOOLEAN /\ notify' \in BOOLEAN /\ heard' \in BOOLEAN
      BY DEF WInv, WTypeOK
    <2>3. faults' \in Nat
      BY DEF WInv, WTypeOK, Fault
    <2> QED
      BY <1>1, <2>1, <2>2, <2>3, <2>4, <2>5, <2>6 DEF WInv, WTypeOK
  <1>3. HintKnown'
    BY DEF WInv, WTypeOK, HintKnown
  <1>4. ClosedLast' /\ OneCloser' /\ NeverPanics'
    BY <1>1 DEF WInv, ClosedLast, closed, OneCloser, NeverPanics
  <1>5. ReadsWhileOpen'
    BY <1>1 DEF WInv, ReadsWhileOpen
  <1>6. NoWakeupLost'
    <2>1. CASE Tick \/ HintFires \/ Restart
      <3>1. heard' = FALSE
        BY <2>1
      <3> QED
        BY <3>1 DEF NoWakeupLost
    <2>2. CASE Notified
      <3>1. hint' = TRUE
        BY <2>2 DEF WInv, WTypeOK, HintKnown
      <3> QED
        BY <3>1 DEF NoWakeupLost
    <2>3. CASE NotifyClosed
      <3>1. heard => hint
        BY <2>3 DEF WInv, NoWakeupLost
      <3>2. heard' = heard /\ hint' = hint
        BY <2>3
      <3> QED
        BY <3>1, <3>2 DEF NoWakeupLost
    <2>4. CASE PollSucceeds \/ PollCancelled \/ Cancel
      <3>1. UNCHANGED <<wake, hint, notify, heard>>
        BY <2>4
      <3>2. loop' \in {"poll", "select"} => loop \in {"poll", "select"}
        BY <2>4
      <3> QED
        BY <3>1, <3>2 DEF WInv, NoWakeupLost
    <2>5. CASE PollFails \/ Ended \/ Stop
      <3>1. loop' \notin {"poll", "select"}
        BY <2>5
      <3> QED
        BY <3>1 DEF NoWakeupLost
    <2> QED
      BY <2>1, <2>2, <2>3, <2>4, <2>5
  <1> QED
    BY <1>2, <1>3, <1>4, <1>5, <1>6 DEF WInv

\* The invariant is about the wake-up path alone.
LEMMA StutterKeeps == WInv /\ UNCHANGED wlvars => WInv'
  BY DEF WInv, WTypeOK, HintKnown, ClosedLast, closed, OneCloser, ReadsWhileOpen, NoWakeupLost,
         NeverPanics, wlvars, source, wake_loop

\* The inductive invariant holds of the wake-up path with or without fairness.
THEOREM WakeInvariant == WSpec => []WInv
  <1>1. WInv /\ [WNext]_wlvars => WInv'
    BY QuietStep, SignalStep, ClosingStep, LoopKeeps, StutterKeeps DEF WNext, ListenerStep
  <1> QED
    BY WInvInit, <1>1, PTL DEF WSpec

\* Once the listener has signalled, a token or an armed hint waits until a
\* poll begins, with any number of signals, closers, restarts and failures.
THEOREM WakeupsReachTheLoop == WSpec => []NoWakeupLost
  <1>1. WInv => NoWakeupLost
    BY DEF WInv
  <1> QED
    BY WakeInvariant, <1>1, PTL

\* Any number of concurrent Closes race the listener without a send on the
\* closed channel and without a second close.
THEOREM ChannelUsedSafely == WSpec => []NeverPanics
  <1>1. WInv => NeverPanics
    BY DEF WInv
  <1> QED
    BY WakeInvariant, <1>1, PTL

\* The wake-up path keeps its types; in particular the channel never holds
\* more than its one token.
THEOREM WakeTypes == WSpec => []WTypeOK
  <1>1. WInv => WTypeOK
    BY DEF WInv
  <1> QED
    BY WakeInvariant, <1>1, PTL

===============================================================================
