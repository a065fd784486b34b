------------------------------ MODULE LnxCompat ------------------------------
(***************************************************************************)
(* The Linux completion and timer API of rtemskit as a driver task uses    *)
(* them: include/linux/completion.h maps a completion onto the RTEMS       *)
(* transient event of the task that initialised it, and lnx_timer.c maps   *)
(* timer_list onto a per-CPU tick watchdog.                                *)
(*                                                                         *)
(* One driver task runs rounds: reinit_completion, arm the timer with      *)
(* add_timer or mod_timer (or not), start a device request, wait with one  *)
(* of the three waits, and del_timer. Both the timer callback (in the      *)
(* clock tick interrupt) and the device interrupt call complete(). The     *)
(* RTEMS side (transient event send/receive, the watchdog tick) is not in  *)
(* this repository; it is modelled after the RTEMS Classic API it calls.   *)
(* Watchdog expiries are kept relative to the current tick, so time is     *)
(* unbounded while the state space is finite.                              *)
(***************************************************************************)
EXTENDS Naturals

CONSTANTS
    Delays,      \* the expires arguments of add_timer and mod_timer
    Timeouts,    \* the timeout arguments of wait_for_completion_timeout
    MaxRounds,   \* requests the driver makes
    ULongMod     \* stands for 2^32, the range of unsigned long

ASSUME Delays \subseteq Nat /\ Timeouts \subseteq Nat /\ Timeouts # {}
ASSUME MaxRounds \in Nat
\* every value of timeout - elapsed is told apart modulo ULongMod
MaxTmo == CHOOSE m \in Timeouts : \A t \in Timeouts : t <= m
ASSUME ULongMod > 2 * (MaxTmo + 1)

VARIABLES
    ev,      \* the driver task's pending RTEMS transient event
    pc,      \* where the driver task is
    api,     \* the wait it called: "none", "wait", "timeout", "try"
    tmo,     \* the timeout argument of that wait
    wleft,   \* ticks left on the receive's timeout watchdog (0: none)
    st,      \* how the receive ended: "none", "ok", "timeout"
    el,      \* ticks since the wait read start, saturating at MaxTmo + 1
    ret,     \* what the wait returned to the driver
    tmr,     \* the timer's watchdog: scheduled, and ticks left
    req,     \* a device request is outstanding; its interrupt may come
    round,   \* requests made so far
    dret,    \* what the last del_timer returned
    \* history, for the properties
    sig,     \* complete() was called since this round's reinit_completion
    armed,   \* this round armed the timer
    runs,    \* timer callbacks since the timer was last armed (at most 2)
    dead     \* del_timer ran since the timer was last armed

vars == <<ev, pc, api, tmo, wleft, st, el, ret, tmr, req, round, dret,
          sig, armed, runs, dead>>

MinOf(a, b) == IF a <= b THEN a ELSE b

Idle == [sched |-> FALSE, left |-> 0]

\* timer_setup: the watchdog is preinitialised, not scheduled
Init ==
    /\ ev = FALSE /\ pc = "idle" /\ api = "none" /\ tmo = 0 /\ wleft = 0
    /\ st = "none" /\ el = 0 /\ ret = 0 /\ tmr = Idle /\ req = FALSE
    /\ round = 0 /\ dret = FALSE
    /\ sig = FALSE /\ armed = FALSE /\ runs = 0 /\ dead = FALSE

(***************************************************************************)
(* complete() and the RTEMS transient event                                *)
(***************************************************************************)

\* complete(x): rtems_event_transient_send(x->holder). A task blocked in
\* the transient receive is readied with RTEMS_SUCCESSFUL and its timeout
\* watchdog removed; otherwise the event stays pending (it is one bit, so
\* a second send before a receive is absorbed).
complete ==
    /\ IF pc = "waiting"
       THEN pc' = "ready" /\ st' = "ok" /\ wleft' = 0 /\ UNCHANGED ev
       ELSE ev' = TRUE /\ UNCHANGED <<pc, st, wleft>>
    /\ sig' = TRUE

\* rtems_event_transient_receive(RTEMS_WAIT, t): a pending event is taken
\* at once; else the task blocks, with a timeout watchdog unless t is 0
\* (RTEMS_NO_TIMEOUT)
Receive(a, t) ==
    /\ api' = a /\ tmo' = t /\ el' = 0
    /\ IF ev
       THEN ev' = FALSE /\ st' = "ok" /\ pc' = "ready" /\ wleft' = 0
       ELSE ev' = FALSE /\ st' = "none" /\ pc' = "waiting" /\ wleft' = t

(***************************************************************************)
(* The driver task                                                         *)
(***************************************************************************)

\* reinit_completion: __init_completion stores rtems_task_self() as the
\* holder, which is this task again; nothing else is reset
reinit_completion ==
    /\ pc = "idle" /\ round < MaxRounds
    /\ pc' = "arm" /\ round' = round + 1
    /\ sig' = FALSE /\ armed' = FALSE
    /\ UNCHANGED <<ev, api, tmo, wleft, st, el, ret, tmr, req, dret, runs, dead>>

\* enqueue_timer: _Watchdog_Insert at ticks + expires
EnqueueTimer(d) ==
    /\ tmr' = [sched |-> TRUE, left |-> d]
    /\ armed' = TRUE /\ runs' = 0 /\ dead' = FALSE

\* add_timer under the watchdog lock. Linux forbids it on a pending timer,
\* and the driver keeps to that (the code itself does not check).
add_timer ==
    /\ pc = "arm" /\ ~tmr.sched
    /\ \E d \in Delays : EnqueueTimer(d)
    /\ pc' = "request"
    /\ UNCHANGED <<ev, api, tmo, wleft, st, el, ret, req, round, dret, sig>>

\* mod_timer: remove_timer if scheduled, then enqueue_timer, under one
\* lock. The driver arms with it, or pushes a pending timer back after it
\* started the request.
mod_timer ==
    /\ pc \in {"arm", "request"}
    /\ \E d \in Delays : EnqueueTimer(d)
    /\ pc' = "request"
    /\ UNCHANGED <<ev, api, tmo, wleft, st, el, ret, req, round, dret, sig>>

\* a round that relies on the device alone
NoTimer ==
    /\ pc = "arm" /\ pc' = "request"
    /\ UNCHANGED <<ev, api, tmo, wleft, st, el, ret, tmr, req, round, dret,
                   sig, armed, runs, dead>>

\* the driver starts the device, which will answer with one interrupt
Request ==
    /\ pc = "request" /\ pc' = "wait" /\ req' = TRUE
    /\ UNCHANGED <<ev, api, tmo, wleft, st, el, ret, tmr, round, dret,
                   sig, armed, runs, dead>>

\* wait_for_completion: rtems_event_transient_receive(RTEMS_WAIT,
\* RTEMS_NO_TIMEOUT)
wait_for_completion ==
    /\ pc = "wait" /\ Receive("wait", 0)
    /\ UNCHANGED <<ret, tmr, req, round, dret, sig, armed, runs, dead>>

\* wait_for_completion_timeout: start = ticks since boot, then the receive
\* with the timeout as its interval
wait_for_completion_timeout ==
    /\ pc = "wait" /\ \E t \in Timeouts : Receive("timeout", t)
    /\ UNCHANGED <<ret, tmr, req, round, dret, sig, armed, runs, dead>>

\* try_wait_for_completion: rtems_event_transient_receive(RTEMS_NO_WAIT)
try_wait_for_completion ==
    /\ pc = "wait" /\ pc' = "cancel" /\ api' = "try"
    /\ ret' = (IF ev THEN 1 ELSE 0) /\ ev' = FALSE
    /\ UNCHANGED <<tmo, wleft, st, el, tmr, req, round, dret, sig, armed,
                   runs, dead>>

\* mutant: timeout - (end - start) computed as a signed long
ResumeSigned ==
    /\ pc = "ready" /\ pc' = "cancel"
    /\ ret' = CASE api = "timeout" /\ st = "timeout" -> 0
                [] api = "timeout"                  -> tmo - el
                [] OTHER                            -> 1
    /\ UNCHANGED <<ev, api, tmo, wleft, st, el, tmr, req, round, dret, sig,
                   armed, runs, dead>>

\* the task runs again after its receive returned: wait_for_completion
\* returns; wait_for_completion_timeout returns 0 on RTEMS_TIMEOUT, else
\* reads end and returns timeout - (end - start) as an unsigned long
Resume ==
    /\ pc = "ready" /\ pc' = "cancel"
    /\ ret' = CASE api = "timeout" /\ st = "timeout" -> 0
                [] api = "timeout"                  -> (tmo - el) % ULongMod
                [] OTHER                            -> 1
    /\ UNCHANGED <<ev, api, tmo, wleft, st, el, tmr, req, round, dret, sig,
                   armed, runs, dead>>

\* mutant: the watchdog is reported removed but stays in the tick's list
RemoveTimerKeep ==
    /\ tmr' = tmr
    /\ dret' = tmr.sched

\* remove_timer: _Watchdog_Remove when scheduled; reports whether it was
RemoveTimer ==
    /\ tmr' = Idle
    /\ dret' = tmr.sched

\* del_timer under the watchdog lock; the round ends
del_timer ==
    /\ pc = "cancel" /\ RemoveTimer
    /\ dead' = TRUE /\ pc' = "idle"
    /\ UNCHANGED <<ev, api, tmo, wleft, st, el, ret, req, round, sig, armed,
                   runs>>

(***************************************************************************)
(* Interrupts                                                              *)
(***************************************************************************)

\* the device answers the request: its handler calls complete()
DeviceIrq ==
    /\ req /\ req' = FALSE
    /\ complete
    /\ UNCHANGED <<api, tmo, el, ret, tmr, round, dret, armed, runs, dead>>

\* the clock tick: ticks since boot advance and the tick watchdogs that are
\* due run in expiry order, equal expiries in insertion order. The timer,
\* armed before the wait began, runs before the receive's timeout. The
\* watchdog is removed before its routine, the timer callback, which calls
\* complete().
Tick ==
    LET fire  == tmr.sched /\ tmr.left <= 1
        woken == fire /\ pc = "waiting"
        tout  == pc = "waiting" /\ ~woken /\ wleft = 1
    IN  /\ tmr' = IF fire THEN Idle
                  ELSE [tmr EXCEPT !.left = IF tmr.sched THEN @ - 1 ELSE @]
        /\ ev' = (ev \/ (fire /\ pc # "waiting"))
        /\ pc' = IF woken \/ tout THEN "ready" ELSE pc
        /\ st' = CASE woken -> "ok" [] tout -> "timeout" [] OTHER -> st
        /\ wleft' = IF woken \/ tout THEN 0
                    ELSE IF pc = "waiting" /\ wleft > 0 THEN wleft - 1 ELSE wleft
        /\ el' = IF pc \in {"waiting", "ready"} /\ api = "timeout"
                 THEN MinOf(el + 1, MaxTmo + 1) ELSE el
        /\ sig' = (sig \/ fire)
        /\ runs' = IF fire THEN MinOf(runs + 1, 2) ELSE runs
        /\ UNCHANGED <<api, tmo, ret, req, round, dret, armed, dead>>

Driver ==
    \/ reinit_completion \/ add_timer \/ mod_timer \/ NoTimer \/ Request
    \/ wait_for_completion \/ wait_for_completion_timeout
    \/ try_wait_for_completion \/ Resume \/ del_timer

Next == Driver \/ DeviceIrq \/ Tick

\* the clock keeps ticking, and the driver task, once ready, gets the
\* processor; the device need never answer
Spec == Init /\ [][Next]_vars /\ WF_vars(Tick) /\ WF_vars(Driver)

(***************************************************************************)
(* Properties                                                              *)
(***************************************************************************)

TypeOK ==
    /\ ev \in BOOLEAN /\ req \in BOOLEAN /\ dret \in BOOLEAN
    /\ pc \in {"idle", "arm", "request", "wait", "waiting", "ready", "cancel"}
    /\ api \in {"none", "wait", "timeout", "try"}
    /\ tmo \in Timeouts \cup {0} /\ wleft \in 0 .. MaxTmo
    /\ st \in {"none", "ok", "timeout"} /\ el \in 0 .. MaxTmo + 1
    /\ ret \in 0 .. ULongMod - 1
    /\ tmr \in [sched : BOOLEAN, left : Delays \cup {0}]
    /\ round \in 0 .. MaxRounds
    /\ sig \in BOOLEAN /\ armed \in BOOLEAN /\ dead \in BOOLEAN
    /\ runs \in 0 .. 2

\* lnx_timer.c keeps the Linux timer contract over the watchdog: between
\* two arms by add_timer/mod_timer the callback runs at most once and never
\* after del_timer returned, and del_timer returns true exactly when it
\* stopped a callback that had not yet run.
TimerOnce ==
    [][/\ runs' > runs => runs = 0 /\ ~dead
       /\ pc = "cancel" /\ pc' = "idle" => (dret' <=> armed /\ runs = 0)]_vars

\* wait_for_completion_timeout always returns, as it does in Linux for any
\* timeout, 0 included: the receive's watchdog or a complete() readies the
\* task.  The timeout is passed to the receive as its interval, where 0 is
\* RTEMS_NO_TIMEOUT (lnx_notimeout.cfg).
TimedWaitReturns == (pc = "waiting" /\ api = "timeout") ~> pc = "cancel"

\* The Linux contract of the waits: a wait that reports success consumed a
\* complete() made since the completion was reinitialised, and
\* wait_for_completion_timeout returns 0 when it timed out and the
\* remaining jiffies, at least 1 and at most the timeout, when it did not.
WaitReturn ==
    /\ (IF api' = "try" THEN ret' = 1 ELSE st' = "ok") => sig
    /\ api' = "timeout" => ret' \in (IF st = "ok" THEN 1 .. tmo ELSE {0})

LinuxWaitContract ==
    [][(pc \in {"wait", "ready"} /\ pc' = "cancel") => WaitReturn]_vars

=============================================================================
