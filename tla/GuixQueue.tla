------------------------------ MODULE GuixQueue ------------------------------
(***************************************************************************)
(* The RTOS binding of GUIX on RTEMS (lib/gui/guix_rtems_queue.c): the     *)
(* event queue (a pending and a free chain over a fixed array of event     *)
(* records, under qmutex) and the hand-over between the GUI thread         *)
(* (guix_thread_adaptor) and the GUIX timer task (guix_timer_server).      *)
(*                                                                         *)
(* Both tasks have GX_SYSTEM_THREAD_PRIORITY, RTEMS_PREEMPT and            *)
(* RTEMS_NO_TIMESLICE: on one processor a task keeps the CPU until it      *)
(* blocks, and the other runs only then (cur). Input drivers that post     *)
(* events and the clock tick run at higher priority and may act at any     *)
(* moment; a queue operation is one step because it holds qmutex.          *)
(***************************************************************************)
EXTENDS Naturals, Sequences, SequencesExt

CONSTANTS
    N,          \* GX_MAX_QUEUE_EVENTS: records in the event array
    Widgets,    \* widgets that events may target
    Parent,     \* Parent[w]: the widget w is a child of, or None
    None,       \* a NULL target
    MaxPost,    \* bound on events posted by input drivers
    MaxTicks,   \* bound on clock ticks that end rtems_task_wake_after
    MaxCycles   \* bound on sleep/wake cycles of the GUI thread

Tasks == {"gui", "timer"}

\* the event types: posted by input ("key"), folded by input ("pen") and by
\* the timer ("timer"), and the redraw the GUI thread sends after waking
Types == {"key", "pen", "timer", "redraw"}

VARIABLES
    slot,       \* slot[i]: the event held by record i, with its ghost id
    pending,    \* gx->pending: record indices, first to be popped first
    free,       \* gx->free
    lastPop,    \* ghost: id of the last event popped
    nextId,     \* ghost: id of the next event taken from the free chain
    nposted,    \* input events posted or folded so far
    running,    \* gx->timer_running
    active,     \* gx->timer_active
    gpc,        \* the GUI thread's place in guix_thread_adaptor
    wakeUp,     \* its local wake_up
    tpc,        \* the timer task's place in guix_timer_server
    tsusp,      \* the timer task is suspended (rtems_task_suspend)
    evDone,     \* GUIX_TIMER_DONE_EVENT pending for the GUI thread
    evWake,     \* GUIX_TIMER_WAKEUP_EVENT pending for the timer task
    cur,        \* the task that has (or last had) the CPU
    nticks,     \* clock ticks so far
    ncycles,    \* sleep/wake cycles of the GUI thread so far
    fault       \* "none", or what went wrong

vars == <<slot, pending, free, lastPop, nextId, nposted, running, active,
          gpc, wakeUp, tpc, tsusp, evDone, evWake, cur, nticks, ncycles,
          fault>>

Event == [type : Types, target : Widgets \cup {None}, id : Nat]

\* gx_widget_child_detect: w lies below t
RECURSIVE Below(_, _)
Below(w, t) == Parent[w] # None /\ (Parent[w] = t \/ Below(Parent[w], t))

(***************************************************************************)
(* Queue operations, each under qmutex                                     *)
(***************************************************************************)

NewEvent(t, w) == [type |-> t, target |-> w, id |-> nextId]

\* mutant: no check of an empty free chain; _Chain_Get_first_unprotected
\* then returns the chain's tail, written here as record 0
QPostNoFullCheck(t, w) ==
    LET ge == IF free = <<>> THEN 0 ELSE Head(free)
    IN  /\ slot' = IF ge = 0 THEN slot ELSE [slot EXCEPT ![ge] = NewEvent(t, w)]
        /\ pending' = Append(pending, ge)
        /\ free' = IF free = <<>> THEN free ELSE Tail(free)
        /\ nextId' = nextId + 1

\* mutant: the record is put at the front of pending
QPostAtHead(t, w) ==
    \/ /\ free = <<>>
       /\ UNCHANGED <<slot, pending, free, nextId>>
    \/ /\ free # <<>>
       /\ slot' = [slot EXCEPT ![Head(free)] = NewEvent(t, w)]
       /\ pending' = <<Head(free)>> \o pending
       /\ free' = Tail(free)
       /\ nextId' = nextId + 1

\* gx_generic_event_post: GX_FAILURE when the free chain is empty; else the
\* first free record takes the event and goes to the end of pending (the
\* condition variable is signalled when pending had been empty)
QPost(t, w) ==
    \/ /\ free = <<>>
       /\ UNCHANGED <<slot, pending, free, nextId>>
    \/ /\ free # <<>>
       /\ slot' = [slot EXCEPT ![Head(free)] = NewEvent(t, w)]
       /\ pending' = Append(pending, Head(free))
       /\ free' = Tail(free)
       /\ nextId' = nextId + 1

\* gx_generic_event_fold: a pending event of the same type and target is
\* updated in place (its payload, which the model leaves out); else post
QFold(t, w) ==
    LET k == SelectInSeq(pending, LAMBDA i : slot[i].type = t /\ slot[i].target = w)
    IN  \/ k # 0 /\ UNCHANGED <<slot, pending, free, nextId>>
        \/ k = 0 /\ QPost(t, w)

\* mutant: the popped record is not returned to the free chain
QPopLeak ==
    /\ pending # <<>>
    /\ lastPop' = slot[Head(pending)].id
    /\ free' = free
    /\ pending' = Tail(pending)

\* gx_generic_event_pop: the first pending record goes back to free
QPop ==
    /\ pending # <<>>
    /\ lastPop' = slot[Head(pending)].id
    /\ free' = Append(free, Head(pending))
    /\ pending' = Tail(pending)

\* the purge loop's test: a non-NULL target that is t or lies below it
Purged(t, i) == slot[i].target # None /\ (slot[i].target = t \/ Below(slot[i].target, t))

(***************************************************************************)
(* Scheduling                                                              *)
(***************************************************************************)

\* the task cannot go on: it waits for an event, the condition variable or
\* the end of rtems_task_wake_after, or it is suspended
Blocked(t) ==
    IF t = "gui"
    THEN \/ gpc = "waitDone" /\ ~evDone
         \/ gpc \in {"entryWait", "flushWait"} /\ pending = <<>>
    ELSE \/ tsusp
         \/ tpc = "sleep"
         \/ tpc = "waitWake" /\ ~evWake

\* the processor is free (its task blocked) and a task is ready: RTEMS
\* dispatches it at once, before anything else happens
DispatchDue == Blocked(cur) /\ \E t \in Tasks : t # cur /\ ~Blocked(t)

Dispatch ==
    /\ fault = "none" /\ DispatchDue
    /\ \E t \in Tasks : t # cur /\ ~Blocked(t) /\ cur' = t
    /\ UNCHANGED <<slot, pending, free, lastPop, nextId, nposted, running,
                   active, gpc, wakeUp, tpc, tsusp, evDone, evWake, nticks,
                   ncycles, fault>>

Runs(t) == fault = "none" /\ cur = t /\ ~DispatchDue

Init ==
    /\ slot = [i \in 1 .. N |-> [type |-> "key", target |-> None, id |-> 0]]
    /\ pending = <<>>
    /\ free = [i \in 1 .. N |-> i]
    /\ lastPop = 0 /\ nextId = 1 /\ nposted = 0
    /\ running = FALSE /\ active = FALSE
    /\ gpc = "entry" /\ wakeUp = FALSE
    /\ tpc = "start" /\ tsusp = FALSE
    /\ evDone = FALSE /\ evWake = FALSE
    /\ cur = "timer"
    /\ nticks = 0 /\ ncycles = 0
    /\ fault = "none"


qvars == <<slot, pending, free, lastPop, nextId>>
hvars == <<running, active, wakeUp, tsusp, evDone, evWake>>

(***************************************************************************)
(* The GUI thread: guix_thread_adaptor and, inside gx->entry(0), the      *)
(* calls GUIX makes into this binding                                     *)
(***************************************************************************)

\* GUIX takes the next event (gx_generic_event_pop with wait) ...
EntryPop ==
    /\ Runs("gui") /\ gpc \in {"entry", "entryWait"}
    /\ QPop
    /\ gpc' = "entry"
    /\ UNCHANGED <<slot, nextId, nposted, hvars, tpc, cur, nticks, ncycles, fault>>

\* ... and blocks on qcond when there is none
EntryWait ==
    /\ Runs("gui") /\ gpc = "entry" /\ pending = <<>>
    /\ gpc' = "entryWait"
    /\ UNCHANGED <<qvars, nposted, hvars, tpc, cur, nticks, ncycles, fault>>

\* gx_generic_timer_start
TimerStart ==
    /\ Runs("gui") /\ gpc = "entry"
    /\ ~running
    /\ running' = TRUE
    /\ tsusp' = FALSE
    /\ UNCHANGED <<qvars, nposted, active, gpc, wakeUp, tpc, evDone, evWake,
                   cur, nticks, ncycles, fault>>

\* gx_generic_timer_stop
TimerStop ==
    /\ Runs("gui") /\ gpc = "entry"
    /\ running
    /\ running' = FALSE
    /\ tsusp' = TRUE
    /\ UNCHANGED <<qvars, nposted, active, gpc, wakeUp, tpc, evDone, evWake,
                   cur, nticks, ncycles, fault>>

\* gx_generic_event_purge(t): the walk over pending skips records until
\* the first one to purge, moves it to the end of free, and then takes
\* _Chain_Next of that record, which is now the free chain's tail: the loop,
\* which stops only at pending's tail, goes on over the free chain's control
\* block and a NULL next pointer.
EventPurge ==
    /\ Runs("gui") /\ gpc = "entry"
    /\ \E t \in Widgets :
        LET k == SelectInSeq(pending, LAMBDA i : Purged(t, i))
        IN  \/ /\ k = 0
               /\ UNCHANGED <<pending, free, fault>>
            \/ /\ k # 0
               /\ pending' = RemoveAt(pending, k)
               /\ free' = Append(free, pending[k])
               /\ fault' = "purge_walk"
    /\ UNCHANGED <<slot, lastPop, nextId, nposted, hvars, gpc, tpc, cur,
                   nticks, ncycles>>

\* gx->entry(0) returns: GUIX goes to sleep
EntryReturn ==
    /\ Runs("gui") /\ gpc = "entry" /\ ncycles < MaxCycles
    /\ gpc' = "check"
    /\ UNCHANGED <<qvars, nposted, hvars, tpc, cur, nticks, ncycles, fault>>

\* mutant: timer_active is cleared but DONE is not waited for
GuiCheckNoWait ==
    /\ Runs("gui") /\ gpc = "check"
    /\ \/ /\ ~tsusp
          /\ wakeUp' = TRUE /\ active' = FALSE
          /\ gpc' = "flush"
       \/ /\ tsusp
          /\ wakeUp' = FALSE /\ UNCHANGED active
          /\ gpc' = "flush"
    /\ UNCHANGED <<qvars, nposted, running, tsusp, evDone, evWake, tpc, cur,
                   nticks, ncycles, fault>>

\* a timer task that is not suspended is stopped by the DONE hand-over
GuiCheck ==
    /\ Runs("gui") /\ gpc = "check"
    /\ \/ /\ ~tsusp
          /\ wakeUp' = TRUE /\ active' = FALSE
          /\ gpc' = "waitDone"
       \/ /\ tsusp
          /\ wakeUp' = FALSE /\ UNCHANGED active
          /\ gpc' = "flush"
    /\ UNCHANGED <<qvars, nposted, running, tsusp, evDone, evWake, tpc, cur,
                   nticks, ncycles, fault>>

\* guix_wait_event(GUIX_TIMER_DONE_EVENT) returns
GuiDone ==
    /\ Runs("gui") /\ gpc = "waitDone" /\ evDone
    /\ evDone' = FALSE
    /\ gpc' = "flush"
    /\ UNCHANGED <<qvars, nposted, running, active, wakeUp, tsusp, evWake,
                   tpc, cur, nticks, ncycles, fault>>

\* the flush loop: gx_generic_event_pop(GX_FALSE) until it fails
GuiFlush ==
    /\ Runs("gui") /\ gpc = "flush"
    /\ \/ /\ QPop /\ UNCHANGED gpc
       \/ /\ pending = <<>> /\ gpc' = "flushWait"
          /\ UNCHANGED <<pending, free, lastPop>>
    /\ UNCHANGED <<slot, nextId, nposted, hvars, tpc, cur, nticks, ncycles, fault>>

\* then gx_generic_event_pop(GX_TRUE): sleep until an event arrives
GuiFlushWait ==
    /\ Runs("gui") /\ gpc = "flushWait"
    /\ QPop
    /\ gpc' = "redraw"
    /\ UNCHANGED <<slot, nextId, nposted, hvars, tpc, cur, nticks, ncycles, fault>>

\* gx_system_event_send of GX_EVENT_REDRAW, which posts it
GuiRedraw ==
    /\ Runs("gui") /\ gpc = "redraw"
    /\ QPost("redraw", None)
    /\ gpc' = "wake"
    /\ UNCHANGED <<lastPop, nposted, hvars, tpc, cur, nticks, ncycles, fault>>

\* if (wake_up): timer_active = true and GUIX_TIMER_WAKEUP_EVENT
GuiWake ==
    /\ Runs("gui") /\ gpc = "wake"
    /\ IF wakeUp THEN active' = TRUE /\ evWake' = TRUE
                 ELSE UNCHANGED <<active, evWake>>
    /\ gpc' = "entry"
    /\ ncycles' = ncycles + 1
    /\ UNCHANGED <<qvars, nposted, running, wakeUp, tsusp, evDone, tpc, cur,
                   nticks, fault>>


(***************************************************************************)
(* The timer task: guix_timer_server                                       *)
(***************************************************************************)

\* if (!gx->timer_running) rtems_task_suspend(RTEMS_SELF)
TimerBegin ==
    /\ Runs("timer") /\ tpc = "start"
    /\ tsusp' = ~running
    /\ tpc' = "activate"
    /\ UNCHANGED <<qvars, nposted, running, active, gpc, wakeUp, evDone,
                   evWake, cur, nticks, ncycles, fault>>

\* gx->timer_active = true, then the loop's rtems_task_wake_after(ticks)
TimerActivate ==
    /\ Runs("timer") /\ tpc = "activate"
    /\ active' = TRUE
    /\ tpc' = "sleep"
    /\ UNCHANGED <<qvars, nposted, running, wakeUp, tsusp, evDone, evWake,
                   gpc, cur, nticks, ncycles, fault>>

\* while (!gx->timer_active): send DONE, wait for WAKEUP
TimerCheck ==
    /\ Runs("timer") /\ tpc = "check"
    /\ \/ /\ ~active
          /\ evDone' = TRUE
          /\ tpc' = "waitWake"
       \/ /\ active
          /\ tpc' = "expire" /\ UNCHANGED evDone
    /\ UNCHANGED <<qvars, nposted, running, active, wakeUp, tsusp, evWake,
                   gpc, cur, nticks, ncycles, fault>>

TimerWoken ==
    /\ Runs("timer") /\ tpc = "waitWake" /\ evWake
    /\ evWake' = FALSE
    /\ tpc' = "check"
    /\ UNCHANGED <<qvars, nposted, running, active, wakeUp, tsusp, evDone,
                   gpc, cur, nticks, ncycles, fault>>

\* _gx_system_timer_expiration folds a GX_EVENT_TIMER into the queue;
\* then the loop sleeps again
TimerExpire ==
    /\ Runs("timer") /\ tpc = "expire"
    /\ QFold("timer", None)
    /\ tpc' = "sleep"
    /\ UNCHANGED <<lastPop, nposted, hvars, gpc, cur, nticks, ncycles, fault>>

(***************************************************************************)
(* Higher-priority actors: the clock tick and input drivers               *)
(***************************************************************************)

Tick ==
    /\ fault = "none" /\ ~DispatchDue
    /\ tpc = "sleep" /\ nticks < MaxTicks
    /\ tpc' = "check"
    /\ nticks' = nticks + 1
    /\ UNCHANGED <<qvars, nposted, hvars, gpc, cur, ncycles, fault>>

InputPost ==
    /\ fault = "none" /\ ~DispatchDue /\ nposted < MaxPost
    /\ \E w \in Widgets :
        \/ QPost("key", w)
        \/ QFold("pen", w)
    /\ nposted' = nposted + 1
    /\ UNCHANGED <<lastPop, hvars, gpc, tpc, cur, nticks, ncycles, fault>>

Next ==
    \/ Dispatch
    \/ EntryPop \/ EntryWait \/ TimerStart \/ TimerStop \/ EventPurge
    \/ EntryReturn \/ GuiCheck \/ GuiDone \/ GuiFlush \/ GuiFlushWait
    \/ GuiRedraw \/ GuiWake
    \/ TimerBegin \/ TimerActivate \/ TimerCheck \/ TimerWoken \/ TimerExpire
    \/ Tick \/ InputPost

Spec == Init /\ [][Next]_vars

(***************************************************************************)
(* Properties                                                              *)
(***************************************************************************)

TypeOK ==
    /\ slot \in [1 .. N -> Event]
    /\ pending \in Seq(1 .. N) /\ free \in Seq(1 .. N)
    /\ {lastPop, nextId, nposted, nticks, ncycles} \subseteq Nat
    /\ {running, active, wakeUp, tsusp, evDone, evWake} \subseteq BOOLEAN
    /\ gpc \in {"entry", "entryWait", "check", "waitDone", "flush",
                "flushWait", "redraw", "wake"}
    /\ tpc \in {"start", "activate", "sleep", "check", "waitWake", "expire"}
    /\ cur \in Tasks
    /\ fault \in {"none", "purge_walk"}

\* Every event record is on exactly one of the two chains: posting, folding,
\* popping and purging move records between them and lose or duplicate none.
ChainsPartition ==
    /\ Len(pending) + Len(free) = N
    /\ ToSet(pending) \cup ToSet(free) = 1 .. N

\* Events leave the queue in the order they were posted, whichever task
\* posted or folded them: ids on the pending chain increase, and all are
\* newer than the last event popped.
QueueOrder ==
    \A i \in 1 .. Len(pending) :
        /\ slot[pending[i]].id > lastPop
        /\ i < Len(pending) => slot[pending[i]].id < slot[pending[i + 1]].id

\* While the GUI thread sleeps after the DONE hand-over, the timer task is
\* parked in guix_wait_event(WAKEUP) and runs no expiration.
TimerParkedWhileAsleep ==
    gpc \in {"flush", "flushWait", "redraw", "wake"} /\ wakeUp => tpc = "waitWake"

\* When the GUI thread waits for DONE, the timer task will send it: it is
\* not suspended and timer_active is false, so its next loop pass enters
\* the hand-over.
HandshakeArmed ==
    gpc = "waitDone" /\ ~evDone => ~active /\ ~tsusp


=============================================================================
