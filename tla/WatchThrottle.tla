---------------------------- MODULE WatchThrottle ----------------------------
(***************************************************************************)
(* The throttle of one file watcher, internal/watch/watcher.go.            *)
(*                                                                         *)
(* A storm of file events must reach the indexer as few callbacks, none    *)
(* late: an ordinary write is reported at most Slow after it happened, the *)
(* creation of a session file at most Fast after it, and the callback that *)
(* reports an event starts after the event.                                *)
(*                                                                         *)
(* Time is a count of ticks.  left is the time that remains until w.deadline *)
(* of the timer that w.timer points to; a timer that has fired runs its    *)
(* callback on a goroutine of its own, in two steps: forget the timer      *)
(* under w.mu, then call onChange.                                         *)
(***************************************************************************)
EXTENDS Integers

CONSTANTS
    Fast,      \* the window of a Create below a recursive root (500ms)
    Slow,      \* the window of every other event (5s)
    MaxCalling,\* bound on callbacks that have forgotten the timer and not called yet
    MaxIdle    \* bound on the clock that measures the gap between callbacks

ASSUME WindowsAssumption ==
    Fast \in Nat \ {0} /\ Slow \in Nat /\ Fast < Slow
ASSUME BoundsAssumption == MaxCalling \in Nat \ {0} /\ MaxIdle \in Nat /\ MaxIdle > Slow

VARIABLES
    timer,    \* "none" (w.timer is nil), "armed", or "fired" (callback not yet run)
    left,     \* ticks until the deadline of an armed timer
    calling,  \* callbacks between w.timer = nil and the call of onChange
    waiting,  \* history: per kind of event, the ticks since the oldest one that
              \* no callback has reported, NoEvent when all are reported
    sinceFire \* history: ticks since the last timer fired

throttleVars == <<timer, left, calling, waiting, sinceFire>>

Kinds == {"create", "write"}
NoEvent == -1

\* handleEvent: Create below a recursive root takes the fast window.
Window(kind) == IF kind = "create" THEN Fast ELSE Slow

ThrottleInit ==
    /\ timer = "none"
    /\ left = 0
    /\ calling = 0
    /\ waiting = [k \in Kinds |-> NoEvent]
    /\ sinceFire = MaxIdle

\* An event starts its clock unless an older one of its kind is waiting.
Noticed(kind) ==
    waiting' = [waiting EXCEPT ![kind] = IF @ = NoEvent THEN 0 ELSE @]

\* Seeded fault: the windows add up.
TriggerArmsBoth(kind) ==
    /\ timer = "none"
    /\ timer' = "armed"
    /\ left' = Fast + Window(kind)
    /\ Noticed(kind)
    /\ UNCHANGED <<calling, sinceFire>>

\* trigger with no timer pending: time.AfterFunc(d, ...).
TriggerArms(kind) ==
    /\ timer = "none"
    /\ timer' = "armed"
    /\ left' = Window(kind)
    /\ Noticed(kind)
    /\ UNCHANGED <<calling, sinceFire>>

\* Seeded fault: a trailing debounce, every event pushes the deadline.
TriggerPullsAlways(kind) ==
    /\ timer = "armed"
    /\ left' = Window(kind)
    /\ Noticed(kind)
    /\ UNCHANGED <<timer, calling, sinceFire>>

\* Seeded fault: a creation fires the pending timer at once.
TriggerPullsNow(kind) ==
    /\ timer = "armed"
    /\ left' = IF kind = "create" THEN 0 ELSE left
    /\ Noticed(kind)
    /\ UNCHANGED <<timer, calling, sinceFire>>

\* trigger with a pending timer: only an earlier target moves the deadline.
TriggerPulls(kind) ==
    /\ timer = "armed"
    /\ left' = IF Window(kind) < left THEN Window(kind) ELSE left
    /\ Noticed(kind)
    /\ UNCHANGED <<timer, calling, sinceFire>>

\* trigger after the timer fired and before its callback took w.mu: w.timer is
\* still set and its deadline is past, so nothing is scheduled.
TriggerLate(kind) ==
    /\ timer = "fired"
    /\ Noticed(kind)
    /\ UNCHANGED <<timer, left, calling, sinceFire>>

Trigger(kind) == TriggerArms(kind) \/ TriggerPulls(kind) \/ TriggerLate(kind)

\* The runtime starts the callback of a timer whose time has come.
Fire ==
    /\ timer = "armed"
    /\ left = 0
    /\ timer' = "fired"
    /\ sinceFire' = 0
    /\ UNCHANGED <<left, calling, waiting>>

\* Seeded fault: the callback returns once it has forgotten the timer.
ForgetTimerOnly ==
    /\ timer = "fired"
    /\ timer' = "none"
    /\ UNCHANGED <<left, calling, waiting, sinceFire>>

\* First half of the callback: w.timer = nil.
ForgetTimer ==
    /\ timer = "fired"
    /\ calling < MaxCalling
    /\ timer' = "none"
    /\ calling' = calling + 1
    /\ UNCHANGED <<left, waiting, sinceFire>>

\* Second half: onChange starts, after every event noticed so far.
OnChange ==
    /\ calling > 0
    /\ calling' = calling - 1
    /\ waiting' = [k \in Kinds |-> NoEvent]
    /\ UNCHANGED <<timer, left, sinceFire>>

\* The next tick.  Timers fire on time; once a timer has fired its callback may
\* be scheduled arbitrarily late, and no clock but sinceFire needs to run then.
\* An event that has waited longer than Slow is late whatever its kind: its clock
\* stops there.
Tick ==
    /\ ~(timer = "armed" /\ left = 0)
    /\ left' = IF timer = "armed" THEN left - 1 ELSE left
    /\ waiting' = [k \in Kinds |->
          IF timer = "armed" /\ waiting[k] \in 0..Slow THEN waiting[k] + 1 ELSE waiting[k]]
    /\ sinceFire' = IF sinceFire < MaxIdle THEN sinceFire + 1 ELSE sinceFire
    /\ UNCHANGED <<timer, calling>>

ThrottleNext ==
    \/ \E k \in Kinds : Trigger(k)
    \/ Fire
    \/ ForgetTimer
    \/ OnChange
    \/ Tick

\* Timers fire and goroutines run; nobody has to write a file.
ThrottleFairness == WF_throttleVars(Fire) /\ WF_throttleVars(ForgetTimer) /\ WF_throttleVars(OnChange) /\ WF_throttleVars(Tick)

ThrottleSpec == ThrottleInit /\ [][ThrottleNext]_throttleVars /\ ThrottleFairness

-----------------------------------------------------------------------------
(* Properties.                                                             *)

\* The shape of timer, callbacks and waiting times.
ThrottleTypeOK ==
    /\ timer \in {"none", "armed", "fired"}
    /\ left \in 0..Slow
    /\ calling \in 0..MaxCalling
    /\ waiting \in [Kinds -> NoEvent..(Slow + 1)]
    /\ sinceFire \in 0..MaxIdle

\* An event that was noticed is not forgotten: a timer or a callback that has
\* still to call onChange stands behind it, also when it arrived after the timer
\* fired and trigger scheduled nothing for it.
NothingForgotten ==
    (\E k \in Kinds : waiting[k] # NoEvent) => timer # "none" \/ calling > 0

\* The comment on trigger: a pending callback may be pulled forward but never
\* pushed back, so that continuous writing cannot starve it.  The deadline never
\* lies further ahead than the window of any event it alone has to report allows.
NeverLate ==
    timer = "armed" /\ calling = 0 =>
        \A k \in Kinds : waiting[k] # NoEvent => waiting[k] + left <= Window(k)

\* Within a storm at most one callback per window: two firings are at least
\* Fast apart.
Throttled == [][Fire => sinceFire >= Fast]_throttleVars

\* Every noticed event is reported.
Reported == \A k \in Kinds : waiting[k] # NoEvent ~> waiting[k] = NoEvent

=============================================================================
