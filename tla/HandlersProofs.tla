---------------------------- MODULE HandlersProofs ----------------------------
(* Theorems about the parts MCHandlers puts side by side, the replay cache's own  *)
(* apart, and about the index scheduler that a watcher's throttle ends in.        *)
EXTENDS MCHandlers, IndexScheduler, ReplayCacheProofs, Counting, TLAPS

(*******************************************************************************)
(* IndexScheduler, for every set of agents and callers.                        *)
(*******************************************************************************)

(***************************************************************************)
(* The state of Indexer and of its loop keeps its type: in particular the  *)
(* channel kick never holds more than the one token it has room for.       *)
(***************************************************************************)
THEOREM TypeCorrect == Spec => []TypeOK
<1>1. Init => TypeOK
  <2> SUFFICES ASSUME Init PROVE TypeOK
    OBVIOUS
  <2>1. kick \in 0..KickCapacity
    BY DEF Init, KickCapacity
  <2>2. fullRequested \in BOOLEAN /\ tick \in BOOLEAN /\ cancelled \in BOOLEAN
    BY Zenon DEF Init
  <2>3. caller \in [Callers -> {"idle", "notify"}]
    BY DEF Init
  <2>4. /\ loop \in {"select", "take", "pass", "stopped"}
        /\ wakeup \in {"none", "tick", "full", "agents"}
    BY DEF Init
  <2> QED
    BY <2>1, <2>2, <2>3, <2>4 DEF Init, TypeOK
<1>2. TypeOK /\ [Next]_vars => TypeOK'
  <2> SUFFICES ASSUME TypeOK, [Next]_vars PROVE TypeOK'
    OBVIOUS
  <2> USE DEF TypeOK, requests, pass, KickCapacity
  <2>1. ASSUME NEW c \in Callers, RecordFull(c) PROVE TypeOK'
    BY <2>1 DEF RecordFull
  <2>2. ASSUME NEW c \in Callers, NEW a \in Agents, RecordAgent(c, a) PROVE TypeOK'
    BY <2>2 DEF RecordAgent
  <2>3. ASSUME NEW c \in Callers, Notify(c) PROVE TypeOK'
    BY <2>3 DEF Notify
  <2>4. CASE WakeOnTick
    BY <2>4 DEF WakeOnTick, StartPass, Listed
  <2>5. CASE WakeOnKick
    BY <2>5 DEF WakeOnKick
  <2>6. CASE TakeRequests
    BY <2>6 DEF TakeRequests, StartPass, Listed
  <2>7. ASSUME NEW a \in Agents, ListReader(a) PROVE TypeOK'
    BY <2>7 DEF ListReader
  <2>8. CASE AbandonPass
    BY <2>8 DEF AbandonPass
  <2>9. CASE FinishPass
    BY <2>9 DEF FinishPass
  <2>10. CASE Stop
    BY <2>10 DEF Stop
  <2>11. CASE TickerFires
    BY <2>11 DEF TickerFires
  <2>12. CASE Cancel
    BY <2>12 DEF Cancel
  <2>13. CASE UNCHANGED vars
    BY <2>13 DEF vars
  <2> QED
    BY <2>1, <2>2, <2>3, <2>4, <2>5, <2>6, <2>7, <2>8, <2>9, <2>10, <2>11,
       <2>12, <2>13 DEF Next, CallerStep, LoopStep
<1> QED
  BY <1>1, <1>2, PTL DEF Spec

(***************************************************************************)
(* No request is lost between record, token and pass, however many callers *)
(* interleave with the loop: NoLostRequest is inductive relative to the    *)
(* types.  WillTake is what carries a recorded request from the unlock of  *)
(* requestMu to takeRequests.                                              *)
(***************************************************************************)
THEOREM RequestsAreKept == Spec => []NoLostRequest
<1>1. Init => NoLostRequest
  BY DEF Init, NoLostRequest
<1>2. TypeOK /\ NoLostRequest /\ [Next]_vars => NoLostRequest'
  <2> SUFFICES ASSUME TypeOK, NoLostRequest, [Next]_vars PROVE NoLostRequest'
    OBVIOUS
  <2> USE DEF NoLostRequest, WillTake, Recorded, requests, pass
  <2>1. ASSUME NEW c \in Callers, RecordFull(c) PROVE NoLostRequest'
    BY <2>1 DEF RecordFull, TypeOK
  <2>2. ASSUME NEW c \in Callers, NEW a \in Agents, RecordAgent(c, a)
        PROVE  NoLostRequest'
    BY <2>2 DEF RecordAgent, TypeOK
  <2>3. ASSUME NEW c \in Callers, Notify(c) PROVE NoLostRequest'
    <3>1. kick' > 0
      BY <2>3 DEF Notify, TypeOK, KickCapacity
    <3> QED
      BY <2>3, <3>1 DEF Notify
  <2>4. CASE WakeOnTick
    BY <2>4 DEF WakeOnTick, StartPass, Listed, TypeOK
  <2>5. CASE WakeOnKick
    BY <2>5 DEF WakeOnKick
  <2>6. CASE TakeRequests
    BY <2>6 DEF TakeRequests, StartPass, Listed, TypeOK
  <2>7. ASSUME NEW a \in Agents, ListReader(a) PROVE NoLostRequest'
    BY <2>7 DEF ListReader
  <2>8. CASE AbandonPass
    BY <2>8 DEF AbandonPass
  <2>9. CASE FinishPass
    BY <2>9 DEF FinishPass
  <2>10. CASE Stop
    BY <2>10 DEF Stop
  <2>11. CASE TickerFires
    BY <2>11 DEF TickerFires
  <2>12. CASE Cancel
    BY <2>12 DEF Cancel
  <2>13. CASE UNCHANGED vars
    BY <2>13 DEF vars
  <2> QED
    BY <2>1, <2>2, <2>3, <2>4, <2>5, <2>6, <2>7, <2>8, <2>9, <2>10, <2>11,
       <2>12, <2>13 DEF Next, CallerStep, LoopStep
<1> QED
  BY <1>1, <1>2, TypeCorrect, PTL DEF Spec

(*******************************************************************************)
(* WatchThrottle, for every pair of windows.                                   *)
(*******************************************************************************)

\* The time since the last firing and the time to the next one make a window.
GapOK == timer = "armed" => sinceFire + left >= Fast

(***************************************************************************)
(* The inductive invariant.  NeverLate needs NothingForgotten: only since  *)
(* no event waits when no timer and no callback is left may a write that   *)
(* arms a new timer take the slow window.                                  *)
(***************************************************************************)
Fired == ThrottleTypeOK /\ NothingForgotten /\ NeverLate /\ GapOK

\* The invariant holds before the first event.
LEMMA InitFired == ThrottleInit => Fired
<1> SUFFICES ASSUME ThrottleInit PROVE Fired
  OBVIOUS
<1>1. ThrottleTypeOK
  BY WindowsAssumption, BoundsAssumption DEF ThrottleInit, ThrottleTypeOK, Kinds, NoEvent
<1> QED
  BY <1>1 DEF ThrottleInit, Fired, NothingForgotten, NeverLate, GapOK, NoEvent

\* Every window lies between the two bounds.
LEMMA WindowBounds == \A k \in Kinds : Window(k) \in Fast..Slow
BY WindowsAssumption DEF Window

\* Every step preserves the invariant.
LEMMA NextFired == Fired /\ [ThrottleNext]_throttleVars => Fired'
<1> SUFFICES ASSUME Fired, [ThrottleNext]_throttleVars PROVE Fired'
  OBVIOUS
<1> USE WindowsAssumption, BoundsAssumption, WindowBounds
        DEF Fired, ThrottleTypeOK, NothingForgotten, NeverLate, GapOK, Noticed, NoEvent
<1>1. ASSUME NEW k \in Kinds, TriggerArms(k) PROVE Fired'
  <2>1. Window(k) \in Fast..Slow
    OBVIOUS
  <2>2. calling = 0 => \A j \in Kinds : waiting[j] = -1
    BY <1>1 DEF TriggerArms
  <2>3. /\ timer' = "armed" /\ left' = Window(k)
        /\ calling' = calling /\ sinceFire' = sinceFire
        /\ waiting' = [waiting EXCEPT ![k] = IF @ = -1 THEN 0 ELSE @]
    BY <1>1 DEF TriggerArms
  <2>4. ThrottleTypeOK'
    BY <2>1, <2>3
  <2>5. NeverLate'
    BY <2>1, <2>2, <2>3
  <2> QED
    BY <2>1, <2>3, <2>4, <2>5
<1>2. ASSUME NEW k \in Kinds, TriggerPulls(k) PROVE Fired'
  <2>1. Window(k) \in Fast..Slow
    OBVIOUS
  <2>2. /\ timer = "armed" /\ timer' = "armed"
        /\ left' = IF Window(k) < left THEN Window(k) ELSE left
        /\ calling' = calling /\ sinceFire' = sinceFire
        /\ waiting' = [waiting EXCEPT ![k] = IF @ = -1 THEN 0 ELSE @]
    BY <1>2 DEF TriggerPulls
  <2>3. ThrottleTypeOK'
    BY <2>1, <2>2
  <2>4. NeverLate'
    BY <2>1, <2>2
  <2> QED
    BY <2>1, <2>2, <2>3, <2>4
<1>3. ASSUME NEW k \in Kinds, TriggerLate(k) PROVE Fired'
  BY <1>3 DEF TriggerLate
<1>4. CASE Fire
  BY <1>4 DEF Fire
<1>5. CASE ForgetTimer
  BY <1>5 DEF ForgetTimer
<1>6. CASE OnChange
  BY <1>6 DEF OnChange
<1>7. CASE Tick
  <2>1. CASE timer = "armed"
    <3>1. /\ left > 0 /\ left' = left - 1 /\ timer' = "armed" /\ calling' = calling
          /\ sinceFire' = IF sinceFire < MaxIdle THEN sinceFire + 1 ELSE sinceFire
          /\ waiting' = [k \in Kinds |->
                IF waiting[k] \in 0..Slow THEN waiting[k] + 1 ELSE waiting[k]]
      BY <1>7, <2>1 DEF Tick
    <3>2. ThrottleTypeOK'
      BY <3>1
    <3>3. NeverLate'
      BY <2>1, <3>1
    <3>4. GapOK'
      BY <2>1, <3>1
    <3> QED
      BY <3>1, <3>2, <3>3, <3>4
  <2>2. CASE timer # "armed"
    BY <1>7, <2>2 DEF Tick
  <2> QED
    BY <2>1, <2>2
<1>8. CASE UNCHANGED throttleVars
  BY <1>8 DEF throttleVars
<1> QED
  BY <1>1, <1>2, <1>3, <1>4, <1>5, <1>6, <1>7, <1>8 DEF ThrottleNext, Trigger

(***************************************************************************)
(* No noticed event is forgotten: for all windows, a timer or a callback   *)
(* stands behind every event that was not reported.                        *)
(***************************************************************************)
THEOREM EventsAreKept == ThrottleSpec => []NothingForgotten
<1>1. Fired => NothingForgotten
  BY DEF Fired
<1> QED
  BY <1>1, InitFired, NextFired, PTL DEF ThrottleSpec

(***************************************************************************)
(* A pending callback is never pushed back: for all windows, continuous    *)
(* writing cannot move the deadline past the window of a waiting event.    *)
(***************************************************************************)
THEOREM DeadlinesHold == ThrottleSpec => []NeverLate
<1>1. Fired => NeverLate
  BY DEF Fired
<1> QED
  BY <1>1, InitFired, NextFired, PTL DEF ThrottleSpec

(***************************************************************************)
(* Two firings of a watcher's timer are at least the fast window apart.    *)
(***************************************************************************)
THEOREM FiringsAreThrottled == ThrottleSpec => Throttled
<1>1. Fired /\ [ThrottleNext]_throttleVars => [Fire => sinceFire >= Fast]_throttleVars
  BY WindowsAssumption, BoundsAssumption DEF Fired, ThrottleTypeOK, GapOK, Fire
<1> QED
  BY <1>1, InitFired, NextFired, PTL DEF ThrottleSpec, Throttled

(*******************************************************************************)
(* ChangeHosts, for every number of profile revisions and overlapping requests.*)
(*******************************************************************************)

-----------------------------------------------------------------------------
(* Shapes.  Which tokens the capabilities are does not matter here, so that  *)
(* a request's capability is a member of some set.                           *)

Operations == {"none", "import", "probe", "patch", "approve", "revoke", "activate",
               "revokeProfile", "lookup"}
Places == {"idle", "create", "check", "update", "validate", "verify", "approve", "cache",
           "uncache", "cancel", "list", "read", "replace", "activate", "profile",
           "capability", "contact", "contacting", "degrade"}
Documents == {"none", "partial", "complete"}
Revision == [lifecycle : {"none", "draft", "verified", "active", "degraded", "revoked"},
             doc : Documents]

Request(Caps) ==
    [op : Operations, at : Places, p : Profiles \cup {"none"}, cap : Caps, doc : Documents,
     found : SUBSET Profiles, late : BOOLEAN]

Shaped ==
    /\ profile \in [Profiles -> Revision]
    /\ \E Caps : req \in [Requests -> Request(Caps)]

\* A request that came after the revocation has not got past the check of the host.
LateIsBlocked ==
    \A r \in Requests : req[r].late =>
        host = "revoked" /\ req[r].at \in {"check", "list", "read", "replace", "idle"}

\* The draft that an import is about to create is nobody else's.
ImportsAlone ==
    \A r \in Requests : req[r].at = "create" =>
        /\ req[r].p \in Profiles
        /\ profile[req[r].p].lifecycle = "none"
        /\ \A q \in Requests \ {r} : req[q].p # req[r].p

\* Only requests that talk to the host have it checked.
ChecksAreKnown ==
    \A r \in Requests : req[r].at = "check" => req[r].op \in {"probe", "lookup", "activate"}

Controlled == Shaped /\ LateIsBlocked /\ ImportsAlone /\ ChecksAreKnown

\* Idle is a request record, so a request may end anywhere in a handler.
LEMMA IdleIsRequest ==
    ASSUME NEW Caps
    PROVE  Idle \in Request(Caps \cup {NoCap})
BY DEF Idle, Request, Operations, Places, Documents

\* Nobody has asked for anything.
LEMMA ControlledInit == HostsInit => Controlled
<1> SUFFICES ASSUME HostsInit
             PROVE  Controlled
  OBVIOUS
<1>1. req \in [Requests -> Request({} \cup {NoCap})]
  BY IdleIsRequest DEF HostsInit
<1>2. Shaped
  BY <1>1 DEF HostsInit, Shaped, Revision, Documents
<1> QED
  BY <1>2 DEF HostsInit, Controlled, LateIsBlocked, ImportsAlone, ChecksAreKnown, Idle

\* What a step of request r has to respect: x is what becomes of the request.
LEMMA OneRequestMoves ==
    ASSUME Controlled, NEW r \in Requests, NEW Caps, NEW x \in Request(Caps),
           req' = [req EXCEPT ![r] = x],
           profile' \in [Profiles -> Revision],
           host = "revoked" => host' = "revoked",
           x.late => host' = "revoked" /\ x.at \in {"check", "list", "read", "replace", "idle"},
           x.at = "check" => x.op \in {"probe", "lookup", "activate"},
           \A p \in Profiles : profile[p].lifecycle = "none" =>
               profile'[p].lifecycle = "none" \/ (p = req[r].p /\ req[r].at = "create" /\ x.at # "create"),
           x.p \in Profiles => \/ x.p = req[r].p
                               \/ profile[x.p].lifecycle # "none"
                               \/ \A q \in Requests : req[q].p # x.p,
           x.at = "create" => /\ x.p \in Profiles
                              /\ profile'[x.p].lifecycle = "none"
                              /\ \A q \in Requests : req[q].p # x.p
    PROVE  Controlled'
<1>1. PICK Known : req \in [Requests -> Request(Known)]
  BY DEF Controlled, Shaped
<1>2. /\ req'[r] = x
      /\ \A q \in Requests : q # r => req'[q] = req[q]
  BY <1>1
<1>3. Shaped'
  <2>1. x \in Request(Known \cup Caps)
    BY DEF Request
  <2>2. \A q \in Requests : req[q] \in Request(Known \cup Caps)
    <3> SUFFICES ASSUME NEW q \in Requests
                 PROVE  req[q] \in Request(Known \cup Caps)
      OBVIOUS
    <3>1. req[q] \in Request(Known)
      BY <1>1
    <3> QED
      BY <3>1 DEF Request
  <2>3. req' \in [Requests -> Request(Known \cup Caps)]
    BY <1>1, <2>1, <2>2
  <2> QED
    BY <2>3 DEF Shaped
<1>4. LateIsBlocked'
  BY <1>2 DEF Controlled, LateIsBlocked
<1>5. ChecksAreKnown'
  BY <1>2 DEF Controlled, ChecksAreKnown
<1>6. ImportsAlone'
  <2> SUFFICES ASSUME NEW q \in Requests, req'[q].at = "create"
               PROVE  /\ req'[q].p \in Profiles
                      /\ profile'[req'[q].p].lifecycle = "none"
                      /\ \A t \in Requests \ {q} : req'[t].p # req'[q].p
    BY DEF ImportsAlone
  <2>1. CASE q = r
    BY <1>2, <2>1
  <2>2. CASE q # r
    <3>1. /\ req'[q] = req[q] /\ req[q].p \in Profiles
          /\ profile[req[q].p].lifecycle = "none"
          /\ \A t \in Requests \ {q} : req[t].p # req[q].p
      BY <1>2, <2>2 DEF Controlled, ImportsAlone
    <3>2. x.p # req[q].p
      BY <2>2, <3>1
    <3>3. profile'[req[q].p].lifecycle = "none"
      BY <2>2, <3>1
    <3> QED
      BY <1>2, <3>1, <3>2, <3>3
  <2> QED
    BY <2>1, <2>2
<1> QED
  BY <1>3, <1>4, <1>5, <1>6 DEF Controlled

\* A request that ends leaves the others alone.
LEMMA RequestEnds ==
    ASSUME Controlled, NEW r \in Requests, Ends(r),
           profile' \in [Profiles -> Revision],
           host = "revoked" => host' = "revoked",
           \A p \in Profiles : profile[p].lifecycle = "none" =>
               profile'[p].lifecycle = "none" \/ (p = req[r].p /\ req[r].at = "create")
    PROVE  Controlled'
<1>1. PICK Caps : req \in [Requests -> Request(Caps)]
  BY DEF Controlled, Shaped
<1>2. Idle \in Request(Caps \cup {NoCap})
  BY IdleIsRequest
<1>3. Idle.p = "none" /\ Idle.at = "idle" /\ ~Idle.late
  BY DEF Idle
<1> QED
  BY <1>2, <1>3, OneRequestMoves, ProfilesAssumption DEF Ends

\* A request that goes on has the profile it had.
LEMMA RequestGoesOn ==
    ASSUME Controlled, NEW r \in Requests, NEW at \in Places, GoesTo(r, at),
           at \notin {"create", "check"},
           req[r].late => at \in {"list", "read", "replace"},
           profile' \in [Profiles -> Revision],
           host = "revoked" => host' = "revoked",
           \A p \in Profiles : profile[p].lifecycle = "none" => profile'[p].lifecycle = "none"
    PROVE  Controlled'
<1>1. PICK Caps : req \in [Requests -> Request(Caps)]
  BY DEF Controlled, Shaped
<1> DEFINE x == [req[r] EXCEPT !.at = at]
<1>2. x \in Request(Caps) /\ x.at = at /\ x.p = req[r].p /\ x.late = req[r].late
  BY <1>1 DEF Request
<1>3. req' = [req EXCEPT ![r] = x]
  BY DEF GoesTo
<1>4. req[r].late => host = "revoked"
  BY DEF Controlled, LateIsBlocked
<1> HIDE DEF x
<1> QED
  BY <1>2, <1>3, <1>4, OneRequestMoves

\* A request that begins about a profile that exists.
LEMMA RequestBegins ==
    ASSUME Controlled, NEW r \in Requests,
           NEW op \in Operations, NEW at \in Places, NEW p \in Profiles \cup {"none"},
           Begins(r, op, at, p),
           at # "create",
           at = "check" => op \in {"probe", "lookup", "activate"},
           host = "revoked" => at \in {"check", "list"},
           p \in Profiles => profile[p].lifecycle # "none",
           profile' \in [Profiles -> Revision],
           host = "revoked" => host' = "revoked",
           \A s \in Profiles : profile[s].lifecycle = "none" => profile'[s].lifecycle = "none"
    PROVE  Controlled'
<1> DEFINE x == [Idle EXCEPT !.op = op, !.at = at, !.p = p, !.late = (host = "revoked")]
<1>1. /\ x \in Request({NoCap})
      /\ x.op = op /\ x.at = at /\ x.p = p /\ x.late = (host = "revoked")
  BY DEF Idle, Request, Documents
<1>2. req' = [req EXCEPT ![r] = x]
  BY DEF Begins
<1> HIDE DEF x
<1> QED
  BY <1>1, <1>2, OneRequestMoves, ProfilesAssumption

\* Steps that change neither the host nor a revision.
LEMMA KeepsRevisions ==
    ASSUME Controlled, UNCHANGED <<host, profile>>
    PROVE  /\ profile' \in [Profiles -> Revision]
           /\ host = "revoked" => host' = "revoked"
           /\ \A p \in Profiles : profile[p].lifecycle = "none" => profile'[p].lifecycle = "none"
BY DEF Controlled, Shaped

\* The requests that arrive.
LEMMA ArrivesControlled ==
    ASSUME Controlled, NEW r \in Requests, Arrives(r)
    PROVE  Controlled'
<1> USE DEF Operations, Places, Documents
<1>1. profile \in [Profiles -> Revision]
  BY DEF Controlled, Shaped
<1>2. CASE Approve(r)
  <2> DEFINE x == [Idle EXCEPT !.op = "approve", !.at = "approve", !.cap = Fresh]
  <2>1. x \in Request({Fresh}) /\ x.at = "approve" /\ x.p = "none" /\ ~x.late
    BY DEF Idle, Request
  <2>2. req' = [req EXCEPT ![r] = x] /\ UNCHANGED <<host, profile>>
    BY <1>2 DEF Approve
  <2> HIDE DEF x
  <2> QED
    BY <2>1, <2>2, KeepsRevisions, OneRequestMoves, ProfilesAssumption
<1>3. CASE RevokeHost(r)
  <2>1. Begins(r, "revoke", "uncache", "none") /\ host = "approved" /\ profile' = profile
    BY <1>3 DEF RevokeHost
  <2> QED
    BY <1>1, <2>1, RequestBegins, ProfilesAssumption
<1>4. CASE Lookup(r)
  <2>1. Begins(r, "lookup", "check", "none") /\ UNCHANGED <<host, profile>>
    BY <1>4 DEF Lookup
  <2> QED
    BY <2>1, KeepsRevisions, RequestBegins, ProfilesAssumption
<1>5. ASSUME NEW p \in Profiles, Import(r, p)
      PROVE  Controlled'
  <2> DEFINE x == [Idle EXCEPT !.op = "import", !.at = "create", !.p = p, !.late = (host = "revoked")]
  <2>1. /\ x \in Request({NoCap})
        /\ x.at = "create" /\ x.p = p /\ x.late = (host = "revoked")
    BY DEF Idle, Request
  <2>2. /\ req' = [req EXCEPT ![r] = x] /\ profile' = profile /\ host # "revoked"
        /\ profile[p].lifecycle = "none" /\ \A q \in Requests : req[q].p # p
    BY <1>5 DEF Import, Begins
  <2> HIDE DEF x
  <2> QED
    BY <1>1, <2>1, <2>2, OneRequestMoves
<1>6. ASSUME NEW p \in Profiles, Probe(r, p)
      PROVE  Controlled'
  <2>1. /\ Begins(r, "probe", "check", p) /\ profile[p].lifecycle # "none"
        /\ UNCHANGED <<host, profile>>
    BY <1>6 DEF Probe
  <2> QED
    BY <2>1, KeepsRevisions, RequestBegins
<1>7. ASSUME NEW p \in Profiles, Patch(r, p)
      PROVE  Controlled'
  <2>1. PICK doc \in {"partial", "complete"} :
           req' = [req EXCEPT ![r] = [Idle EXCEPT !.op = "patch", !.at = "update", !.p = p, !.doc = doc]]
    BY <1>7 DEF Patch
  <2> DEFINE x == [Idle EXCEPT !.op = "patch", !.at = "update", !.p = p, !.doc = doc]
  <2>2. x \in Request({NoCap}) /\ x.at = "update" /\ x.p = p /\ ~x.late
    BY DEF Idle, Request
  <2>3. profile[p].lifecycle # "none" /\ UNCHANGED <<host, profile>>
    BY <1>7 DEF Patch
  <2>4. req' = [req EXCEPT ![r] = x]
    BY <2>1
  <2> HIDE DEF x
  <2> QED
    BY <2>2, <2>3, <2>4, KeepsRevisions, OneRequestMoves
<1>8. ASSUME NEW p \in Profiles, Activate(r, p)
      PROVE  Controlled'
  <2>1. /\ Begins(r, "activate", "check", p) /\ profile[p].lifecycle # "none"
        /\ UNCHANGED <<host, profile>>
    BY <1>8 DEF Activate
  <2> QED
    BY <2>1, KeepsRevisions, RequestBegins
<1>9. ASSUME NEW p \in Profiles, RevokeProfile(r, p)
      PROVE  Controlled'
  <2>1. /\ Begins(r, "revokeProfile", "list", p) /\ profile[p].lifecycle # "none"
        /\ profile' = [profile EXCEPT ![p].lifecycle = "revoked"] /\ host' = host
    BY <1>9 DEF RevokeProfile
  <2>2. /\ profile' \in [Profiles -> Revision]
        /\ \A s \in Profiles : profile[s].lifecycle = "none" => profile'[s].lifecycle = "none"
    BY <1>1, <2>1 DEF Revision
  <2> QED
    BY <2>1, <2>2, RequestBegins
<1> QED
  BY <1>2, <1>3, <1>4, <1>5, <1>6, <1>7, <1>8, <1>9 DEF Arrives

\* The next statement of a request that is under way.
LEMMA ProceedsControlled ==
    ASSUME Controlled, NEW r \in Requests, Proceeds(r)
    PROVE  Controlled'
<1> USE DEF Operations, Places, Documents
<1>1. profile \in [Profiles -> Revision]
  BY DEF Controlled, Shaped
<1>2. PICK Caps : req \in [Requests -> Request(Caps)]
  BY DEF Controlled, Shaped
<1>3. req[r] \in Request(Caps)
  BY <1>2
<1>4. req[r].late => host = "revoked" /\ req[r].at \in {"check", "list", "read", "replace", "idle"}
  BY DEF Controlled, LateIsBlocked
<1>5. ASSUME UNCHANGED <<host, profile>>, Ends(r)
      PROVE  Controlled'
  BY <1>5, KeepsRevisions, RequestEnds
<1>6. CASE CreateDraft(r)
  <2>1. /\ req[r].at = "create" /\ Ends(r) /\ host' = host
        /\ profile' = [profile EXCEPT ![req[r].p] = [lifecycle |-> "draft", doc |-> "partial"]]
    BY <1>6 DEF CreateDraft
  <2>2. /\ profile' \in [Profiles -> Revision]
        /\ \A p \in Profiles : p # req[r].p => profile'[p] = profile[p]
    BY <1>1, <2>1 DEF Revision
  <2> QED
    BY <2>1, <2>2, RequestEnds
<1>7. CASE UpdateDraft(r)
  <2>1. /\ profile' \in [Profiles -> Revision]
        /\ \A p \in Profiles : profile'[p].lifecycle = profile[p].lifecycle
    BY <1>1, <1>3, <1>7 DEF UpdateDraft, Revision, Request
  <2>2. (GoesTo(r, "validate") \/ Ends(r)) /\ host' = host /\ ~req[r].late
    BY <1>4, <1>7 DEF UpdateDraft
  <2> QED
    BY <2>1, <2>2, RequestEnds, RequestGoesOn
<1>8. CASE Validate(r)
  <2>1. (GoesTo(r, "verify") \/ Ends(r)) /\ UNCHANGED <<host, profile>> /\ ~req[r].late
    BY <1>4, <1>8 DEF Validate
  <2> QED
    BY <1>5, <2>1, KeepsRevisions, RequestGoesOn
<1>9. CASE Verify(r)
  <2>1. /\ profile' \in [Profiles -> Revision]
        /\ \A p \in Profiles : profile[p].lifecycle = "none" => profile'[p].lifecycle = "none"
    BY <1>1, <1>9 DEF Verify, Revision
  <2>2. Ends(r) /\ host' = host
    BY <1>9 DEF Verify
  <2> QED
    BY <2>1, <2>2, RequestEnds
<1>10. CASE ApproveInDB(r)
  <2>1. /\ GoesTo(r, "cache") \/ Ends(r)
        /\ profile' = profile /\ (host = "revoked" => host' = host) /\ ~req[r].late
    BY <1>4, <1>10 DEF ApproveInDB
  <2> QED
    BY <1>1, <2>1, RequestEnds, RequestGoesOn
<1>11. CASE CacheApproval(r) \/ ReplaceParsers(r)
  BY <1>5, <1>11 DEF CacheApproval, ReplaceParsers
<1>12. CASE Uncache(r)
  <2> DEFINE x == [req[r] EXCEPT !.at = "cancel", !.cap = cached]
  <2>1. x \in Request(Caps \cup {cached}) /\ x.at = "cancel" /\ x.p = req[r].p /\ x.late = req[r].late
    BY <1>3 DEF Request
  <2>2. req' = [req EXCEPT ![r] = x] /\ UNCHANGED <<host, profile>> /\ ~req[r].late
    BY <1>2, <1>4, <1>12 DEF Uncache
  <2> HIDE DEF x
  <2> QED
    BY <2>1, <2>2, KeepsRevisions, OneRequestMoves
<1>13. CASE CancelRequests(r)
  <2>1. GoesTo(r, "list") /\ UNCHANGED <<host, profile>>
    BY <1>13 DEF CancelRequests
  <2> QED
    BY <2>1, KeepsRevisions, RequestGoesOn
<1>14. CASE ActivateInDB(r)
  <2>1. /\ profile' \in [Profiles -> Revision]
        /\ \A p \in Profiles : profile[p].lifecycle = "none" => profile'[p].lifecycle = "none"
    BY <1>1, <1>14 DEF ActivateInDB, Active, Revision
  <2>2. (GoesTo(r, "list") \/ Ends(r)) /\ host' = host
    BY <1>14 DEF ActivateInDB
  <2> QED
    BY <2>1, <2>2, RequestEnds, RequestGoesOn
<1>15. CASE ListHosts(r)
  <2>1. (GoesTo(r, "read") \/ GoesTo(r, "replace")) /\ UNCHANGED <<host, profile>>
    BY <1>15 DEF ListHosts
  <2> QED
    BY <2>1, KeepsRevisions, RequestGoesOn
<1>16. CASE ReadActive(r)
  <2> DEFINE x == [req[r] EXCEPT !.at = "replace", !.found = Active]
  <2>1. x \in Request(Caps) /\ x.at = "replace" /\ x.p = req[r].p /\ x.late = req[r].late
    BY <1>3 DEF Request, Active
  <2>2. req' = [req EXCEPT ![r] = x] /\ UNCHANGED <<host, profile>>
    BY <1>2, <1>16 DEF ReadActive
  <2> HIDE DEF x
  <2> QED
    BY <1>4, <2>1, <2>2, KeepsRevisions, OneRequestMoves
<1>17. CASE CheckHost(r)
  <2>1. req[r].op \in {"probe", "lookup", "activate"}
    BY <1>17 DEF CheckHost, Controlled, ChecksAreKnown
  <2>2. UNCHANGED <<host, profile>>
    BY <1>17 DEF CheckHost
  <2>3. CASE host = "approved"
    <3>1. GoesTo(r, "capability") \/ GoesTo(r, "profile") \/ GoesTo(r, "activate")
      BY <1>17, <2>1, <2>3 DEF CheckHost
    <3>2. ~req[r].late
      BY <1>4, <2>3
    <3> QED
      BY <2>2, <3>1, <3>2, KeepsRevisions, RequestGoesOn
  <2>4. CASE host # "approved"
    BY <1>5, <1>17, <2>2, <2>4 DEF CheckHost
  <2> QED
    BY <2>3, <2>4
<1>18. CASE ChooseProfile(r)
  <2>1. UNCHANGED <<host, profile>> /\ ~req[r].late
    BY <1>4, <1>18 DEF ChooseProfile
  <2>2. ASSUME NEW p \in Active, req' = [req EXCEPT ![r].at = "capability", ![r].p = p]
        PROVE  Controlled'
    <3> DEFINE x == [req[r] EXCEPT !.at = "capability", !.p = p]
    <3>1. p \in Profiles /\ profile[p].lifecycle # "none"
      BY DEF Active
    <3>2. x \in Request(Caps) /\ x.at = "capability" /\ x.p = p /\ x.late = req[r].late
      BY <1>3, <3>1 DEF Request
    <3>3. req' = [req EXCEPT ![r] = x]
      BY <1>2, <2>2
    <3> HIDE DEF x
    <3> QED
      BY <2>1, <3>1, <3>2, <3>3, KeepsRevisions, OneRequestMoves
  <2> QED
    BY <1>5, <1>18, <2>1, <2>2 DEF ChooseProfile
<1>19. CASE TakeCapability(r)
  <2> DEFINE cap == IF cached # NoCap THEN cached ELSE Fresh
             x == [req[r] EXCEPT !.at = "contact", !.cap = cap]
  <2>1. x \in Request(Caps \cup {cap}) /\ x.at = "contact" /\ x.p = req[r].p /\ x.late = req[r].late
    BY <1>3 DEF Request
  <2>2. UNCHANGED <<host, profile>> /\ ~req[r].late
    BY <1>4, <1>19 DEF TakeCapability
  <2>3. req' = [req EXCEPT ![r] = x] \/ Ends(r)
    BY <1>2, <1>19 DEF TakeCapability
  <2> HIDE DEF cap, x
  <2> QED
    BY <1>5, <2>1, <2>2, <2>3, KeepsRevisions, OneRequestMoves
<1>20. ASSUME Refused(r), UNCHANGED <<host, profile>>, ~req[r].late
       PROVE  Controlled'
  <2> DEFINE x == [req[r] EXCEPT !.at = "update", !.doc = "partial"]
  <2>1. x \in Request(Caps) /\ x.at = "update" /\ x.p = req[r].p /\ x.late = req[r].late
    BY <1>3 DEF Request
  <2>2. Ends(r) \/ req' = [req EXCEPT ![r] = x]
    BY <1>2, <1>20 DEF Refused
  <2> HIDE DEF x
  <2> QED
    BY <1>5, <1>20, <2>1, <2>2, KeepsRevisions, OneRequestMoves
<1>21. CASE Contact(r)
  <2>1. (GoesTo(r, "contacting") \/ Refused(r)) /\ UNCHANGED <<host, profile>> /\ ~req[r].late
    BY <1>4, <1>21 DEF Contact
  <2> QED
    BY <1>20, <2>1, KeepsRevisions, RequestGoesOn
<1>22. CASE ContactFails(r)
  BY <1>4, <1>20, <1>22 DEF ContactFails
<1>23. CASE Contacted(r)
  <2>1. UNCHANGED <<host, profile>> /\ ~req[r].late
    BY <1>4, <1>23 DEF Contacted
  <2>2. ASSUME NEW doc \in {"partial", "complete"},
               req' = [req EXCEPT ![r].at = "update", ![r].doc = doc]
        PROVE  Controlled'
    <3> DEFINE x == [req[r] EXCEPT !.at = "update", !.doc = doc]
    <3>1. x \in Request(Caps) /\ x.at = "update" /\ x.p = req[r].p /\ x.late = req[r].late
      BY <1>3 DEF Request
    <3>2. req' = [req EXCEPT ![r] = x]
      BY <1>2, <2>2
    <3> HIDE DEF x
    <3> QED
      BY <2>1, <3>1, <3>2, KeepsRevisions, OneRequestMoves
  <2>3. CASE GoesTo(r, "degrade") \/ GoesTo(r, "contact")
    BY <2>1, <2>3, KeepsRevisions, RequestGoesOn
  <2> QED
    BY <1>5, <1>23, <2>1, <2>2, <2>3 DEF Contacted
<1>24. CASE Degrade(r)
  <2>1. /\ profile' \in [Profiles -> Revision]
        /\ \A p \in Profiles : profile[p].lifecycle = "none" => profile'[p].lifecycle = "none"
    BY <1>1, <1>24 DEF Degrade, Active, Revision
  <2>2. Ends(r) /\ host' = host
    BY <1>24 DEF Degrade
  <2> QED
    BY <2>1, <2>2, RequestEnds
<1> QED
  BY <1>6, <1>7, <1>8, <1>9, <1>10, <1>11, <1>12, <1>13, <1>14, <1>15, <1>16, <1>17, <1>18,
     <1>19, <1>21, <1>22, <1>23, <1>24 DEF Proceeds

\* Every step keeps the requests under control.
LEMMA ControlledNext == Controlled /\ [HostsNext]_hostsVars => Controlled'
<1> SUFFICES ASSUME Controlled, [HostsNext]_hostsVars
             PROVE  Controlled'
  OBVIOUS
<1>1. CASE Restart
  <2>1. req' \in [Requests -> Request({} \cup {NoCap})]
    BY <1>1, IdleIsRequest DEF Restart
  <2>2. Shaped'
    BY <1>1, <2>1 DEF Restart, Controlled, Shaped
  <2> QED
    BY <1>1, <2>2 DEF Restart, Controlled, LateIsBlocked, ImportsAlone, ChecksAreKnown, Idle
<1>2. CASE UNCHANGED hostsVars
  BY <1>2 DEF hostsVars, Controlled, Shaped, LateIsBlocked, ImportsAlone, ChecksAreKnown
<1> QED
  BY <1>1, <1>2, ArrivesControlled, ProceedsControlled DEF HostsNext

\* The requests are always under control.
LEMMA ControlledAlways == HostsSpec => []Controlled
<1>1. Controlled /\ [HostsNext]_hostsVars => Controlled'
  BY ControlledNext
<1> QED
  BY <1>1, ControlledInit, PTL DEF HostsSpec

\* A request that comes in after the revocation never reaches the host.
THEOREM HostsRevocationHolds == HostsSpec => []RevocationHolds
<1>1. Controlled => RevocationHolds
  BY DEF Controlled, LateIsBlocked, RevocationHolds
<1> QED
  BY <1>1, ControlledAlways, PTL

\* No step edits the document of a revision that has been verified.
LEMMA StepKeepsDocuments ==
    Controlled /\ [HostsNext]_hostsVars =>
        \A p \in Profiles :
            profile[p].lifecycle \notin {"none", "draft"} => profile'[p].doc = profile[p].doc
<1> SUFFICES ASSUME Controlled, [HostsNext]_hostsVars, NEW p \in Profiles,
                    profile[p].lifecycle \notin {"none", "draft"}
             PROVE  profile'[p].doc = profile[p].doc
  OBVIOUS
<1>1. profile \in [Profiles -> Revision]
  BY DEF Controlled, Shaped
<1>2. CASE profile' = profile
  BY <1>2
<1>3. ASSUME NEW r \in Requests, CreateDraft(r)
      PROVE  profile'[p].doc = profile[p].doc
  BY <1>1, <1>3 DEF CreateDraft, Controlled, ImportsAlone
<1>4. ASSUME NEW r \in Requests, UpdateDraft(r)
      PROVE  profile'[p].doc = profile[p].doc
  BY <1>1, <1>4 DEF UpdateDraft, Revision
<1>5. ASSUME NEW r \in Requests, Verify(r) \/ ActivateInDB(r) \/ Degrade(r)
      PROVE  profile'[p].doc = profile[p].doc
  BY <1>1, <1>5 DEF Verify, ActivateInDB, Degrade, Active, Revision
<1>6. ASSUME NEW r \in Requests, NEW s \in Profiles, RevokeProfile(r, s)
      PROVE  profile'[p].doc = profile[p].doc
  BY <1>1, <1>6 DEF RevokeProfile, Revision
<1> QED
  BY <1>2, <1>3, <1>4, <1>5, <1>6
     DEF HostsNext, hostsVars, Arrives, Proceeds, Restart, Approve, RevokeHost, Lookup, Import, Probe,
         Patch, Activate, Validate, ApproveInDB, CacheApproval, Uncache, CancelRequests,
         ListHosts, ReadActive, ReplaceParsers, CheckHost, ChooseProfile, TakeCapability,
         Contact, ContactFails, Contacted

\* A verified revision is never edited, whatever was read before it was verified.
THEOREM HostsRevisionsImmutable == HostsSpec => RevisionsImmutable
<1>1. Controlled /\ [HostsNext]_hostsVars =>
        [\A p \in Profiles :
            profile[p].lifecycle \notin {"none", "draft"} => profile'[p].doc = profile[p].doc]_hostsVars
  BY StepKeepsDocuments
<1> QED
  BY <1>1, ControlledAlways, PTL DEF HostsSpec, RevisionsImmutable

-----------------------------------------------------------------------------
(* Types. A token is free whenever one is needed: at that moment a request or *)
(* the cache holds none, so that fewer are held than there are. And a step    *)
(* adds to the active revisions only by demoting the others.                  *)

\* What the server holds: no more than one active revision, and tokens.
OneActive == \A p, q \in Active : p = q
Holdings ==
    /\ host \in {"absent", "preview", "approved", "revoked"}
    /\ parsers \subseteq Profiles
    /\ cached \in Tokens \cup {NoCap}
    /\ alive \subseteq Tokens
    /\ \A r \in Requests : req[r].cap \in Tokens \cup {NoCap}

\* As many holders as there are requests leave a token free.
LEMMA SomeTokenIsFree ==
    ASSUME NEW g, g = [r \in Requests |-> g[r]]
    PROVE  \E t \in Tokens : \A r \in Requests : g[r] # t
<1> DEFINE T == {g[r] : r \in Requests}
<1>1. g \in Surjection(Requests, T)
  BY DEF Surjection
<1>2. IsFiniteSet(T) /\ Cardinality(T) <= Cardinality(Requests)
  BY <1>1, FS_Surjection, RequestsAssumption
<1>3. Cardinality(Requests) \in Nat
  BY FS_CardinalityType, RequestsAssumption
<1>4. Cardinality(Tokens) = Cardinality(Requests) + 1
  BY <1>3, FS_Interval DEF Tokens
<1>5. Cardinality(T) \in Nat
  BY <1>2, FS_CardinalityType
<1>6. ~ (Tokens \subseteq T)
  <2> HIDE DEF T
  <2> SUFFICES ASSUME Tokens \subseteq T PROVE FALSE
    OBVIOUS
  <2>1. Cardinality(Tokens) <= Cardinality(T)
    BY <1>2, FS_Subset
  <2> QED
    BY <1>2, <1>3, <1>4, <1>5, <2>1
<1> QED
  BY <1>6

\* A token that neither the cache nor a request holds is fresh.
LEMMA FreshIsToken ==
    ASSUME NEW t \in Tokens, t # cached, \A r \in Requests : req[r].cap # t
    PROVE  Fresh \in Tokens
<1> DEFINE F == Tokens \ ({cached} \cup {req[r].cap : r \in Requests})
<1>1. Cardinality(Requests) \in Nat
  BY FS_CardinalityType, RequestsAssumption
<1>2. F \in SUBSET Nat /\ t \in F
  BY <1>1 DEF Tokens
<1>3. Fresh = CHOOSE n \in F : \A m \in F : n <= m
  BY DEF Fresh, Min
<1> HIDE DEF F
<1>4. \E n \in F : \A m \in F : n <= m
  BY <1>2, LeastMember
<1>5. Fresh \in F
  BY <1>3, <1>4
<1> QED
  BY <1>5 DEF F

\* An approval finds a fresh token: its request holds none yet.
LEMMA ApprovalIsFresh ==
    ASSUME NEW r \in Requests, Approve(r)
    PROVE  Fresh \in Tokens
<1> DEFINE g == [q \in Requests |-> IF q = r THEN cached ELSE req[q].cap]
<1>1. PICK t \in Tokens : \A q \in Requests : g[q] # t
  <2>1. g = [q \in Requests |-> g[q]]
    OBVIOUS
  <2> HIDE DEF g
  <2> QED
    BY <2>1, SomeTokenIsFree
<1>2. t # cached /\ \A q \in Requests \ {r} : req[q].cap # t
  BY <1>1
<1>3. req[r].cap = NoCap
  BY DEF Approve, Idle
<1>4. t # NoCap
  BY FS_CardinalityType, RequestsAssumption DEF Tokens, NoCap
<1> QED
  BY <1>2, <1>3, <1>4, FreshIsToken

\* So does a request that finds the cache without a capability.
LEMMA CapabilityIsFresh ==
    ASSUME NEW r \in Requests, cached = NoCap
    PROVE  Fresh \in Tokens
<1> DEFINE g == [q \in Requests |-> req[q].cap]
<1>1. PICK t \in Tokens : \A q \in Requests : g[q] # t
  <2>1. g = [q \in Requests |-> g[q]]
    OBVIOUS
  <2> HIDE DEF g
  <2> QED
    BY <2>1, SomeTokenIsFree
<1>2. \A q \in Requests : req[q].cap # t
  BY <1>1
<1>3. t # cached
  BY FS_CardinalityType, RequestsAssumption DEF Tokens, NoCap
<1> QED
  BY <1>2, <1>3, FreshIsToken

\* Every step keeps what the server holds in its bounds.
LEMMA HoldingsNext == Controlled /\ Holdings /\ [HostsNext]_hostsVars => Holdings'
<1> SUFFICES ASSUME Controlled, Holdings, [HostsNext]_hostsVars
             PROVE  Holdings'
  OBVIOUS
<1>1. PICK Caps : req \in [Requests -> Request(Caps)]
  BY DEF Controlled, Shaped
<1>2. \A r \in Requests : req[r].found \subseteq Profiles
  BY <1>1 DEF Request
<1>3. Active \subseteq Profiles
  BY DEF Active
<1> USE DEF Holdings
<1>4. ASSUME NEW r \in Requests, NEW x, req' = [req EXCEPT ![r] = x], x.cap \in Tokens \cup {NoCap}
      PROVE  \A q \in Requests : req'[q].cap \in Tokens \cup {NoCap}
  BY <1>1, <1>4
<1>5. Idle.cap = NoCap
  BY DEF Idle
<1>6. ASSUME NEW r \in Requests, Ends(r)
      PROVE  \A q \in Requests : req'[q].cap \in Tokens \cup {NoCap}
  BY <1>4, <1>5, <1>6 DEF Ends
<1>7. ASSUME NEW r \in Requests, NEW at, GoesTo(r, at)
      PROVE  \A q \in Requests : req'[q].cap \in Tokens \cup {NoCap}
  BY <1>1, <1>7 DEF GoesTo, Request
<1>8. ASSUME NEW r \in Requests, NEW op, NEW at, NEW p, Begins(r, op, at, p)
      PROVE  \A q \in Requests : req'[q].cap \in Tokens \cup {NoCap}
  BY <1>1, <1>8 DEF Begins, Idle
<1>9. ASSUME NEW r \in Requests, Refused(r)
      PROVE  \A q \in Requests : req'[q].cap \in Tokens \cup {NoCap}
  BY <1>1, <1>6, <1>9 DEF Refused, Request
<1>10. ASSUME NEW r \in Requests, Approve(r)
       PROVE  Holdings'
  BY <1>1, <1>10, ApprovalIsFresh DEF Approve, Idle
<1>11. ASSUME NEW r \in Requests, RevokeHost(r) \/ Lookup(r)
       PROVE  Holdings'
  BY <1>8, <1>11 DEF RevokeHost, Lookup, Tokens
<1>12. ASSUME NEW r \in Requests, NEW p \in Profiles,
              Import(r, p) \/ Probe(r, p) \/ Activate(r, p) \/ RevokeProfile(r, p)
       PROVE  Holdings'
  BY <1>8, <1>12 DEF Import, Probe, Activate, RevokeProfile, Tokens
<1>13. ASSUME NEW r \in Requests, NEW p \in Profiles, Patch(r, p)
       PROVE  Holdings'
  BY <1>1, <1>13 DEF Patch, Idle, Tokens
<1>14. ASSUME NEW r \in Requests,
              CreateDraft(r) \/ UpdateDraft(r) \/ Validate(r) \/ Verify(r) \/ ListHosts(r)
                \/ ActivateInDB(r) \/ CheckHost(r) \/ Degrade(r)
       PROVE  Holdings'
  BY <1>6, <1>7, <1>14
     DEF CreateDraft, UpdateDraft, Validate, Verify, ListHosts, ActivateInDB, CheckHost, Degrade, Tokens
<1>15. ASSUME NEW r \in Requests, ApproveInDB(r) \/ CancelRequests(r)
       PROVE  Holdings'
  BY <1>6, <1>7, <1>15 DEF ApproveInDB, CancelRequests, Tokens
<1>16. ASSUME NEW r \in Requests, CacheApproval(r) \/ ReplaceParsers(r)
       PROVE  Holdings'
  BY <1>2, <1>6, <1>16 DEF CacheApproval, ReplaceParsers, Tokens
<1>17. ASSUME NEW r \in Requests, Uncache(r)
       PROVE  Holdings'
  BY <1>1, <1>17 DEF Uncache, Request, Tokens
<1>18. ASSUME NEW r \in Requests, ReadActive(r)
       PROVE  Holdings'
  BY <1>1, <1>18 DEF ReadActive, Request, Tokens
<1>19. ASSUME NEW r \in Requests, ChooseProfile(r)
       PROVE  Holdings'
  <2>1. \A q \in Requests : req'[q].cap \in Tokens \cup {NoCap}
    BY <1>1, <1>6, <1>19 DEF ChooseProfile, Request
  <2> QED
    BY <1>19, <2>1 DEF ChooseProfile, Tokens
<1>20. ASSUME NEW r \in Requests, TakeCapability(r)
       PROVE  Holdings'
  <2> DEFINE cap == IF cached # NoCap THEN cached ELSE Fresh
  <2>1. cap \in Tokens
    BY CapabilityIsFresh
  <2>2. CASE /\ req' = [req EXCEPT ![r].at = "contact", ![r].cap = cap]
             /\ cached' = cap
             /\ alive' \subseteq alive \cup {cap}
             /\ UNCHANGED <<host, parsers>>
    <3> HIDE DEF cap
    <3>1. \A q \in Requests : req'[q].cap \in Tokens \cup {NoCap}
      BY <1>1, <2>1, <2>2 DEF Request
    <3> QED
      BY <2>1, <2>2, <3>1 DEF Tokens
  <2>3. CASE Ends(r) /\ UNCHANGED <<host, parsers, cached, alive>>
    BY <1>6, <1>7, <2>3 DEF Tokens
  <2> QED
    BY <1>20, <2>2, <2>3 DEF TakeCapability
<1>21. ASSUME NEW r \in Requests, Contact(r) \/ ContactFails(r)
       PROVE  Holdings'
  BY <1>7, <1>9, <1>21 DEF Contact, ContactFails, Tokens
<1>22. ASSUME NEW r \in Requests, Contacted(r)
       PROVE  Holdings'
  <2>1. \A q \in Requests : req'[q].cap \in Tokens \cup {NoCap}
    BY <1>1, <1>6, <1>7, <1>22 DEF Contacted, Request
  <2> QED
    BY <1>22, <2>1 DEF Contacted, Tokens
<1>23. CASE Restart
  BY <1>3, <1>5, <1>23 DEF Restart, Tokens
<1>24. CASE UNCHANGED hostsVars
  BY <1>24 DEF hostsVars, Tokens
<1>25. ASSUME NEW r \in Requests, Arrives(r)
       PROVE  Holdings'
  BY <1>10, <1>11, <1>12, <1>13, <1>25 DEF Arrives
<1>26. ASSUME NEW r \in Requests, Proceeds(r)
       PROVE  Holdings'
  BY <1>14, <1>15, <1>16, <1>17, <1>18, <1>19, <1>20, <1>21, <1>22, <1>26 DEF Proceeds
<1> HIDE DEF Holdings
<1> QED
  BY <1>23, <1>24, <1>25, <1>26 DEF HostsNext

\* Only an activation adds to the active revisions, and it demotes the one before.
LEMMA OneActiveNext == Controlled /\ OneActive /\ [HostsNext]_hostsVars => OneActive'
<1> SUFFICES ASSUME Controlled, OneActive, [HostsNext]_hostsVars
             PROVE  OneActive'
  OBVIOUS
<1>1. profile \in [Profiles -> Revision]
  BY DEF Controlled, Shaped
<1>2. ASSUME Active' \subseteq Active
      PROVE  OneActive'
  BY <1>2 DEF OneActive
<1>3. ASSUME NEW r \in Requests, ActivateInDB(r)
      PROVE  OneActive'
  <2>1. CASE profile' = profile
    BY <1>2, <2>1 DEF Active
  <2>2. CASE profile' # profile
    <3>1. \A p \in Profiles : p # req[r].p => profile'[p].lifecycle # "active"
      BY <1>1, <1>3, <2>2 DEF ActivateInDB, Active, Revision
    <3> QED
      BY <3>1 DEF OneActive, Active
  <2> QED
    BY <2>1, <2>2
<1>4. ASSUME NEW r \in Requests, CreateDraft(r) \/ UpdateDraft(r) \/ Verify(r) \/ Degrade(r)
      PROVE  OneActive'
  <2>1. Active' \subseteq Active
    BY <1>1, <1>4 DEF CreateDraft, UpdateDraft, Verify, Degrade, Active, Revision
  <2> QED
    BY <1>2, <2>1
<1>5. ASSUME NEW r \in Requests, NEW p \in Profiles, RevokeProfile(r, p)
      PROVE  OneActive'
  <2>1. Active' \subseteq Active
    BY <1>1, <1>5 DEF RevokeProfile, Active, Revision
  <2> QED
    BY <1>2, <2>1
<1>6. CASE profile' = profile
  BY <1>2, <1>6 DEF Active
<1> QED
  BY <1>3, <1>4, <1>5, <1>6
     DEF HostsNext, hostsVars, Arrives, Proceeds, Restart, Approve, RevokeHost, Lookup, Import, Probe,
         Patch, Activate, Validate, ApproveInDB, CacheApproval, Uncache, CancelRequests,
         ListHosts, ReadActive, ReplaceParsers, CheckHost, ChooseProfile, TakeCapability,
         Contact, ContactFails, Contacted

\* Nothing is held at first.
LEMMA HoldingsInit == HostsInit => Holdings /\ OneActive
BY DEF HostsInit, Holdings, OneActive, Active, Idle

\* The authority over the host keeps its types: in particular no two revisions are
\* active, whatever activations, demotions and revocations overlap.
THEOREM HostsTypeCorrect == HostsSpec => []HostsTypeOK
<1>1. Controlled /\ Holdings /\ OneActive => HostsTypeOK
  <2> SUFFICES ASSUME Controlled, Holdings, OneActive
               PROVE  HostsTypeOK
    OBVIOUS
  <2>1. PICK Caps : req \in [Requests -> Request(Caps)]
    BY DEF Controlled, Shaped
  <2>2. \A r \in Requests : req[r].late \in BOOLEAN
    BY <2>1 DEF Request
  <2>3. Cardinality(Active) <= 1
    <3>1. CASE Active = {}
      BY <3>1, FS_EmptySet
    <3>2. CASE Active # {}
      <4>1. PICK p : p \in Active
        BY <3>2
      <4>2. Active = {p}
        BY <4>1 DEF OneActive
      <4>3. Cardinality({p}) = 1
        BY FS_Singleton
      <4> QED
        BY <4>2, <4>3
    <3> QED
      BY <3>1, <3>2
  <2>4. profile \in [Profiles -> Revision]
    BY DEF Controlled, Shaped
  <2> QED
    BY <2>2, <2>3, <2>4 DEF HostsTypeOK, Holdings, Revision, Documents
<1>2. Controlled /\ [HostsNext]_hostsVars => Controlled'
  BY ControlledNext
<1>3. Controlled /\ Holdings /\ [HostsNext]_hostsVars => Holdings'
  BY HoldingsNext
<1>4. Controlled /\ OneActive /\ [HostsNext]_hostsVars => OneActive'
  BY OneActiveNext
<1> QED
  BY <1>1, <1>2, <1>3, <1>4, ControlledInit, HoldingsInit, PTL DEF HostsSpec

(*******************************************************************************)
(* TerminalResume.                                                             *)
(*******************************************************************************)

Launching(r) == resume[r].at \in {"launch", "save"}

\* resumeInFlight is set exactly while one request launches.
FlagGuards ==
    /\ \A r \in Resumes : Launching(r) => inFlight
    /\ \A r, q \in Resumes : Launching(r) /\ Launching(q) => r = q

\* An idle request is well typed.
LEMMA NoResumeType == NoResume \in Attempts
<1>1. {} \in SUBSET (Elsewhere .. MaxLaunches)
  OBVIOUS
<1>2. NoRecord \in {NoRecord} \cup Bindings
  OBVIOUS
<1> QED
  BY <1>1, <1>2 DEF NoResume, Attempts, Positions

\* Types hold when the server starts.
LEMMA InitResumeType == ResumeInit => ResumeTypeOK
<1> SUFFICES ASSUME ResumeInit PROVE ResumeTypeOK
  OBVIOUS
<1>1. \A r \in Resumes : resume[r] = NoResume
  BY DEF ResumeInit
<1>2. resume \in [Resumes -> Attempts]
  BY NoResumeType DEF ResumeInit
<1>3. NoResume.at = "idle"
  BY DEF NoResume
<1>4. launches \in 0 .. MaxLaunches
  BY LaunchesAssumption DEF ResumeInit
<1> QED
  BY <1>1, <1>2, <1>3, <1>4 DEF ResumeInit, ResumeTypeOK

\* What a status rests on: only a binding can be active, launching or stopped.
LEMMA StatusNeedsBinding ==
    ASSUME NEW live \in BOOLEAN, NEW saw, NEW rec \in {NoRecord} \cup Bindings,
           NEW answer \in Statuses(live, saw, rec)
    PROVE  /\ answer \in BindingStates \cup {"none", "unknown", "detected"}
           /\ answer \in BindingStates => rec \in Bindings
<1>1. NoRecord.state = "none"
  BY DEF NoRecord
<1>2. CASE live /\ rec.state \in {"none", "stopped"}
  BY <1>2 DEF Statuses, BindingStates
<1>3. CASE live /\ rec.state \notin {"none", "stopped"}
  BY <1>1, <1>3 DEF Statuses, BindingStates
<1>4. CASE ~live
  BY <1>1, <1>4 DEF Statuses, BindingStates
<1> QED
  BY <1>2, <1>3, <1>4

\* A step of the world around the requests leaves them, the flag and the binding.
LEMMA WorldResumeType ==
    ASSUME ResumeTypeOK,
           NEW k \in Elsewhere .. MaxLaunches,
           \/ k \in 1 .. MaxLaunches /\ (AgentStarts(k) \/ GraceEnds(k))
           \/ AgentEnds(k) \/ StartedOutside
    PROVE  ResumeTypeOK'
<1>1. UNCHANGED <<record, inFlight, launches, resume, ended>>
  BY DEF AgentStarts, GraceEnds, AgentEnds, StartedOutside
<1>2. Elsewhere \in Elsewhere .. MaxLaunches
  BY LaunchesAssumption DEF Elsewhere
<1>3. running' \subseteq running \cup {k, Elsewhere}
  BY DEF AgentStarts, GraceEnds, AgentEnds, StartedOutside
<1>4. opened' \subseteq opened /\ recent' \subseteq recent /\ launches' = launches
  BY DEF AgentStarts, GraceEnds, AgentEnds, StartedOutside
<1> QED
  BY <1>1, <1>2, <1>3, <1>4 DEF ResumeTypeOK

\* What a request does keeps the types.
LEMMA RequestResumeType ==
    ASSUME ResumeTypeOK,
           NEW r \in Resumes,
           \/ LookForProcess(r, "poll") \/ LookForProcess(r, "resume")
           \/ ReadBinding(r) \/ WriteBinding(r) \/ NoWrite(r) \/ AnswerStatus(r)
           \/ BeginResume(r) \/ Launch(r) \/ LaunchFails(r) \/ SaveBinding(r)
    PROVE  ResumeTypeOK'
<1> USE DEF ResumeTypeOK
<1>1. resume[r] \in Attempts
  OBVIOUS
<1>2. ASSUME NEW op \in {"poll", "resume"}, LookForProcess(r, op) PROVE ResumeTypeOK'
  <2>1. PICK live \in BOOLEAN, saw \in {{}, running} :
            resume' = [resume EXCEPT ![r] =
                [NoResume EXCEPT !.op = op, !.at = "record", !.live = live, !.saw = saw]]
    BY <1>2 DEF LookForProcess
  <2> DEFINE new == [NoResume EXCEPT !.op = op, !.at = "record", !.live = live, !.saw = saw]
  <2>2. saw \subseteq Elsewhere .. MaxLaunches
    BY <2>1
  <2>3. new \in Attempts /\ new.at = "record"
    BY <2>2, NoResumeType DEF Attempts, Positions
  <2> HIDE DEF new
  <2>4. resume' \in [Resumes -> Attempts]
    BY <2>1, <2>3 DEF new
  <2> QED
    BY <1>2, <2>1, <2>3, <2>4 DEF LookForProcess, world, new
<1>3. CASE ReadBinding(r)
  <2> DEFINE read(rec, answer) == [resume EXCEPT ![r].at = "write", ![r].rec = rec, ![r].answer = answer]
  <2>0. PICK rec \in {record, NoRecord} :
            \E answer \in Statuses(resume[r].live, resume[r].saw, rec) : resume' = read(rec, answer)
    BY <1>3 DEF ReadBinding
  <2>1. PICK answer \in Statuses(resume[r].live, resume[r].saw, rec) : resume' = read(rec, answer)
    BY <2>0
  <2> DEFINE new == [resume[r] EXCEPT !.at = "write", !.rec = rec, !.answer = answer]
  <2>2. resume[r].live \in BOOLEAN
    BY <1>1 DEF Attempts
  <2>3. /\ answer \in BindingStates \cup {"none", "unknown", "detected"}
        /\ answer \in BindingStates => rec \in Bindings
    BY <2>0, <2>2, StatusNeedsBinding
  <2>4. new \in Attempts /\ new.rec = rec /\ new.answer = answer
    BY <1>1, <2>3 DEF Attempts, Positions
  <2>5. resume' = [resume EXCEPT ![r] = new]
    BY <2>1
  <2> HIDE DEF new
  <2>6. resume' \in [Resumes -> Attempts]
    BY <2>4, <2>5
  <2> QED
    BY <1>3, <2>3, <2>4, <2>5, <2>6 DEF ReadBinding, world
<1>4. CASE WriteBinding(r)
  <2>1. resume[r].rec \in Bindings /\ resume[r].answer \in BindingStates
    BY <1>4 DEF WriteBinding, BindingStates
  <2>2. [resume[r].rec EXCEPT !.state = resume[r].answer] \in Bindings /\ resume[r].rec.tab \in Tabs
    BY <2>1 DEF Bindings
  <2>3. record' \in {NoRecord} \cup Bindings /\ ended' \subseteq Tabs
    BY <1>4, <2>2 DEF WriteBinding
  <2>4. [resume[r] EXCEPT !.at = "answer"] \in Attempts /\ [resume[r] EXCEPT !.at = "answer"].at = "answer"
    BY <1>1 DEF Attempts, Positions
  <2>5. resume' = [resume EXCEPT ![r] = [resume[r] EXCEPT !.at = "answer"]]
    BY <1>4 DEF WriteBinding
  <2> QED
    BY <1>4, <2>3, <2>4, <2>5 DEF WriteBinding, world
<1>5. ASSUME NEW at \in {"answer", "launch"}, resume' = [resume EXCEPT ![r].at = at],
             UNCHANGED <<running, opened, recent, record, launches, ended>>, inFlight' \in BOOLEAN
      PROVE  ResumeTypeOK'
  <2>1. [resume[r] EXCEPT !.at = at] \in Attempts /\ [resume[r] EXCEPT !.at = at].at # "write"
    BY <1>1 DEF Attempts, Positions
  <2>2. resume' = [resume EXCEPT ![r] = [resume[r] EXCEPT !.at = at]]
    BY <1>5
  <2> QED
    BY <1>5, <2>1, <2>2
<1>6. CASE NoWrite(r)
  BY <1>5, <1>6 DEF NoWrite, world
<1>7. ASSUME resume' = [resume EXCEPT ![r] = NoResume], record' \in {NoRecord} \cup Bindings,
             UNCHANGED <<running, opened, recent, launches, ended>>, inFlight' \in BOOLEAN
      PROVE  ResumeTypeOK'
  <2>1. NoResume \in Attempts /\ NoResume.at # "write"
    BY NoResumeType DEF NoResume
  <2> HIDE DEF NoResume
  <2> QED
    BY <1>7, <2>1
<1>8. CASE AnswerStatus(r)
  BY <1>7, <1>8 DEF AnswerStatus, world
<1>9. CASE BeginResume(r)
  BY <1>5, <1>7, <1>9 DEF BeginResume, world
<1>10. CASE Launch(r)
  <2> DEFINE tab == [tab |-> launches + 1, state |-> "launching"]
             new == [resume[r] EXCEPT !.at = "save", !.rec = tab]
  <2>1. launches + 1 \in Tabs /\ launches' \in 0 .. MaxLaunches
    BY <1>10, LaunchesAssumption DEF Launch, Tabs
  <2>2. tab \in Bindings
    BY <2>1 DEF Bindings, BindingStates
  <2>3. new \in Attempts /\ new.at = "save"
    BY <1>1, <2>2 DEF Attempts, Positions
  <2>4. resume' = [resume EXCEPT ![r] = new]
    BY <1>10 DEF Launch
  <2> HIDE DEF new
  <2> QED
    BY <1>10, <2>1, <2>3, <2>4 DEF Launch
<1>11. CASE LaunchFails(r)
  BY <1>7, <1>11 DEF LaunchFails, world
<1>12. CASE SaveBinding(r)
  <2>1. record' \in {NoRecord} \cup Bindings
    BY <1>1, <1>12 DEF SaveBinding, Attempts
  <2> QED
    BY <1>7, <1>12, <2>1 DEF SaveBinding, world
<1> QED
  BY <1>2, <1>3, <1>4, <1>6, <1>8, <1>9, <1>10, <1>11, <1>12

\* A restart and a step of nobody keep the types.
LEMMA NextResumeType == ResumeTypeOK /\ [ResumeNext]_resumeVars => ResumeTypeOK'
<1> SUFFICES ASSUME ResumeTypeOK, [ResumeNext]_resumeVars PROVE ResumeTypeOK'
  OBVIOUS
<1>1. ASSUME NEW k \in 1 .. MaxLaunches, AgentStarts(k) \/ GraceEnds(k) PROVE ResumeTypeOK'
  <2>1. k \in Elsewhere .. MaxLaunches
    BY DEF Elsewhere
  <2> QED
    BY <1>1, <2>1, WorldResumeType
<1>2. ASSUME NEW k \in Elsewhere .. MaxLaunches, AgentEnds(k) PROVE ResumeTypeOK'
  BY <1>2, WorldResumeType
<1>3. CASE StartedOutside
  <2>1. Elsewhere \in Elsewhere .. MaxLaunches
    BY LaunchesAssumption DEF Elsewhere
  <2> QED
    BY <1>3, <2>1, WorldResumeType
<1>4. CASE ServerRestarts
  <2>1. NoResume.at = "idle"
    BY DEF NoResume
  <2> QED
    BY <1>4, <2>1, NoResumeType DEF ServerRestarts, world, ResumeTypeOK
<1>5. CASE UNCHANGED resumeVars
  BY <1>5 DEF resumeVars, ResumeTypeOK
<1> QED
  BY <1>1, <1>2, <1>3, <1>4, <1>5, RequestResumeType DEF ResumeNext

(*******************************************************************************)
(* The state of a resumed session, its binding and the requests about it keep  *)
(* their types: what is written back is always a binding of some launch.       *)
(*******************************************************************************)
THEOREM ResumeTypeCorrect == ResumeSpec => []ResumeTypeOK
BY InitResumeType, NextResumeType, PTL DEF ResumeSpec

\* Beside the start, the end and the saving of a launch no step touches the flag.
LEMMA NextFlagGuards == ResumeTypeOK /\ FlagGuards /\ [ResumeNext]_resumeVars => FlagGuards'
<1> SUFFICES ASSUME ResumeTypeOK, FlagGuards, [ResumeNext]_resumeVars PROVE FlagGuards'
  OBVIOUS
<1> USE DEF FlagGuards, Launching
<1>1. \A q \in Resumes : resume[q] \in Attempts
  BY DEF ResumeTypeOK
<1>2. NoResume.at = "idle"
  BY DEF NoResume
<1>3. ASSUME NEW r \in Resumes, UNCHANGED inFlight,
             \A q \in Resumes \ {r} : resume'[q] = resume[q],
             resume'[r].at \in {"launch", "save"} => Launching(r)
      PROVE  FlagGuards'
  BY <1>3
<1>4. ASSUME NEW r \in Resumes, Launching(r),
             \A q \in Resumes \ {r} : resume'[q] = resume[q],
             ~Launching(r)'
      PROVE  FlagGuards'
  BY <1>4
<1>5. ASSUME NEW r \in Resumes, NEW op \in {"poll", "resume"}, LookForProcess(r, op) PROVE FlagGuards'
  BY <1>3, <1>5, <1>2, <1>1 DEF LookForProcess, ResumeTypeOK
<1>6. ASSUME NEW r \in Resumes, ReadBinding(r) \/ WriteBinding(r) \/ NoWrite(r) PROVE FlagGuards'
  BY <1>3, <1>6, <1>1 DEF ReadBinding, WriteBinding, NoWrite, ResumeTypeOK, Attempts
<1>7. ASSUME NEW r \in Resumes, AnswerStatus(r) PROVE FlagGuards'
  BY <1>3, <1>7, <1>2, <1>1 DEF AnswerStatus, ResumeTypeOK
<1>8. ASSUME NEW r \in Resumes, BeginResume(r) PROVE FlagGuards'
  <2>1. CASE inFlight
    BY <1>3, <1>8, <2>1, <1>2, <1>1 DEF BeginResume, ResumeTypeOK
  <2>2. CASE ~inFlight
    <3>1. \A q \in Resumes : ~Launching(q)
      BY <2>2
    <3>2. inFlight' /\ \A q \in Resumes \ {r} : resume'[q] = resume[q]
      BY <1>8, <2>2 DEF BeginResume, ResumeTypeOK
    <3> QED
      BY <3>1, <3>2
  <2> QED
    BY <2>1, <2>2
<1>9. ASSUME NEW r \in Resumes, Launch(r) PROVE FlagGuards'
  BY <1>3, <1>9, <1>1 DEF Launch, ResumeTypeOK, Attempts
<1>10. ASSUME NEW r \in Resumes, LaunchFails(r) \/ SaveBinding(r) PROVE FlagGuards'
  <2>1. Launching(r) /\ resume' = [resume EXCEPT ![r] = NoResume]
    BY <1>10 DEF LaunchFails, SaveBinding
  <2> QED
    BY <1>4, <1>2, <2>1 DEF ResumeTypeOK
<1>11. CASE ServerRestarts
  BY <1>2, <1>11 DEF ServerRestarts
<1>12. CASE UNCHANGED <<inFlight, resume>>
  BY <1>12
<1>13. CASE \/ \E k \in 1 .. MaxLaunches : AgentStarts(k) \/ GraceEnds(k)
            \/ \E k \in Elsewhere .. MaxLaunches : AgentEnds(k)
            \/ StartedOutside
  BY <1>12, <1>13 DEF AgentStarts, GraceEnds, AgentEnds, StartedOutside
<1> QED
  BY <1>5, <1>6, <1>7, <1>8, <1>9, <1>10, <1>11, <1>12, <1>13 DEF ResumeNext, resumeVars

(*******************************************************************************)
(* Two resumes of one session are never in the terminal at the same time, for  *)
(* any number of requests and launches and however the server restarts.        *)
(*******************************************************************************)
THEOREM ResumeLaunchesExclusive == ResumeSpec => []LaunchesExclusive
<1>1. ResumeInit => FlagGuards
  BY DEF ResumeInit, FlagGuards, Launching, NoResume
<1>2. FlagGuards => LaunchesExclusive
  <2> SUFFICES ASSUME FlagGuards PROVE LaunchesExclusive
    OBVIOUS
  <2> DEFINE L == {r \in Resumes : resume[r].at \in {"launch", "save"}}
  <2>1. CASE L = {}
    BY <2>1, FS_EmptySet DEF LaunchesExclusive
  <2>2. CASE L # {}
    <3>1. PICK r : r \in L
      BY <2>2
    <3>2. L = {r}
      BY <3>1 DEF FlagGuards, Launching
    <3>3. Cardinality(L) = 1
      BY <3>2, FS_Singleton
    <3> QED
      BY <3>3 DEF LaunchesExclusive
  <2> QED
    BY <2>1, <2>2
<1> QED
  BY <1>1, <1>2, InitResumeType, NextResumeType, NextFlagGuards, PTL DEF ResumeSpec

(*******************************************************************************)
(* CollaborationGraph, for any graph over any sets of identifiers.             *)
(* The argument needs no induction along the chain: that createsCycle answers   *)
(* "no" means that some set is closed under climbing, holds the parent and lacks *)
(* the child; intersecting it with a counterexample after the step gives one    *)
(* before the step.                                                             *)
(*******************************************************************************)

-----------------------------------------------------------------------------
(* Types.                                                                  *)

\* The loop starts with every map empty.
LEMMA GraphInitTypeOK == GraphInit => GraphTypeOK
<1> SUFFICES ASSUME GraphInit
             PROVE  GraphTypeOK
  OBVIOUS
<1>1. PICK n \in 0 .. MaxDelegations :
         delegations \in {s \in [1 .. n -> Delegation] : Sorted(s)}
  BY DEF GraphInit
<1>2. delegations \in Seq(Delegation) /\ Len(delegations) \in Nat
  <2>1. n \in Nat /\ delegations \in [1 .. n -> Delegation]
    BY <1>1
  <2> QED
    BY <2>1
<1>3. next \in 1 .. Len(delegations) + 1
  BY <1>2 DEF GraphInit
<1> QED
  BY <1>2, <1>3 DEF GraphInit, GraphTypeOK

\* One iteration keeps the maps' types.
LEMMA GraphNextTypeOK == GraphTypeOK /\ [GraphNext]_graphVars => GraphTypeOK'
<1> SUFFICES ASSUME GraphTypeOK, [GraphNext]_graphVars
             PROVE  GraphTypeOK'
  OBVIOUS
<1>1. CASE GraphNext
  <2> DEFINE d == delegations[next]
  <2>1. d \in Delegation /\ Len(delegations) \in Nat
    BY <1>1 DEF GraphNext, GraphTypeOK
  <2>2. d.id \in Ids /\ d.parent \in Names /\ d.child \in Names
    BY <2>1 DEF Delegation
  <2>3. PICK finding : finding = Finding(d)
    OBVIOUS
  <2>4. Examine(d, finding)
    BY <1>1, <2>3 DEF GraphNext
  <2> HIDE DEF d
  <2>5. seenIds' \subseteq Ids /\ quarantined' \subseteq Ids
    BY <2>2, <2>4 DEF Examine, GraphTypeOK
  <2>6. seenPairs' \subseteq Names \X Names
    BY <2>2, <2>4 DEF Examine, GraphTypeOK
  <2>7. up' \in [Names -> Names \cup {None}] /\ canonical' \in [Names -> Ids \cup {None}]
    BY <2>2, <2>4 DEF Examine, GraphTypeOK
  <2>8. next' \in 1 .. Len(delegations) + 1
    BY <1>1, <2>1 DEF GraphNext, GraphTypeOK
  <2> QED
    BY <1>1, <2>5, <2>6, <2>7, <2>8 DEF GraphNext, graph, GraphTypeOK
<1>2. CASE UNCHANGED graphVars
  BY <1>2 DEF graphVars, graph, GraphTypeOK
<1> QED
  BY <1>1, <1>2

\* The maps of Validate's loop always have their types.
THEOREM GraphTypeCorrect == GraphSpec => []GraphTypeOK
<1> QED
  BY GraphInitTypeOK, GraphNextTypeOK, PTL DEF GraphSpec

-----------------------------------------------------------------------------
(* The forest.                                                             *)

\* What the loop's tests have established of a delegation that becomes canonical.
LEMMA CanonicalIsSound ==
    ASSUME NEW d, Finding(d) = "canonical"
    PROVE  /\ d.child \in invocations \ {root}
           /\ d.parent \in invocations
           /\ up[d.child] = None
           /\ ~CreatesCycle(d.parent, d.child)
BY DEF Finding

\* An accepted delegation closes no circle: createsCycle has looked at the whole chain.
LEMMA EdgeKeepsAcyclic ==
    ASSUME GraphTypeOK, Acyclic,
           NEW parent \in Names, NEW child \in Names,
           ~CreatesCycle(parent, child),
           up' = [up EXCEPT ![child] = parent]
    PROVE  Acyclic'
<1> USE DEF GraphTypeOK
<1> SUFFICES ASSUME NEW S \in SUBSET Names, S # {},
                    \A n \in S : up'[n] \in S
             PROVE  FALSE
  BY DEF Acyclic
<1>1. PICK T \in SUBSET Names : parent \in T /\ Closed(T) /\ child \notin T
  BY DEF CreatesCycle
<1>2. \A n \in S : n # child => up[n] \in S
  OBVIOUS
<1>3. child \in S
  <2> SUFFICES ASSUME child \notin S
               PROVE  FALSE
    OBVIOUS
  <2>1. \A n \in S : up[n] \in S
    BY <1>2
  <2> QED
    BY <2>1 DEF Acyclic
<1>4. parent \in S
  BY <1>3
<1> DEFINE U == S \cap T
<1>5. U # {} /\ U \in SUBSET Names
  BY <1>1, <1>4
<1>6. \A n \in U : up[n] \in U
  <2> SUFFICES ASSUME NEW n \in U
               PROVE  up[n] \in U
    OBVIOUS
  <2>1. up[n] \in S
    BY <1>1, <1>2
  <2>2. up[n] # None
    <3>1. up[n] \in Names
      BY <2>1
    <3>2. None \notin Names
      BY GraphAssumption
    <3> QED
      BY <3>1, <3>2
  <2>3. up[n] \in T
    BY <1>1, <2>2 DEF Closed
  <2> QED
    BY <2>1, <2>3
<1> QED
  BY <1>5, <1>6 DEF Acyclic

\* The empty projection is a forest.
LEMMA ForestInit == GraphInit => ProjectionIsForest
<1> SUFFICES ASSUME GraphInit
             PROVE  ProjectionIsForest
  OBVIOUS
<1>1. \A n \in Names : up[n] = None
  BY DEF GraphInit
<1>2. Acyclic
  BY <1>1, GraphAssumption DEF Acyclic
<1> QED
  BY <1>1, <1>2 DEF ProjectionIsForest

\* One iteration keeps the forest.
LEMMA ForestNext ==
    GraphTypeOK /\ ProjectionIsForest /\ [GraphNext]_graphVars => ProjectionIsForest'
<1> SUFFICES ASSUME GraphTypeOK, ProjectionIsForest, [GraphNext]_graphVars
             PROVE  ProjectionIsForest'
  OBVIOUS
<1>1. CASE up' = up /\ UNCHANGED graph
  BY <1>1 DEF ProjectionIsForest, Acyclic, graph
<1>2. CASE GraphNext
  <2>1. PICK d : /\ d = delegations[next]
                 /\ Examine(d, Finding(d))
    BY <1>2 DEF GraphNext
  <2>2. UNCHANGED graph
    BY <1>2 DEF GraphNext
  <2>3. CASE Finding(d) # "canonical"
    BY <1>1, <2>1, <2>2, <2>3 DEF Examine
  <2>4. CASE Finding(d) = "canonical"
    <3>1. d.parent \in Names /\ d.child \in Names
      <4>1. next \in 1 .. Len(delegations) /\ delegations \in Seq(Delegation)
        BY <1>2 DEF GraphNext, GraphTypeOK
      <4>2. d \in Delegation
        BY <2>1, <4>1
      <4> QED
        BY <4>2 DEF Delegation
    <3>2. up' = [up EXCEPT ![d.child] = d.parent]
      BY <2>1, <2>4 DEF Examine
    <3>3. Acyclic'
      BY <2>4, <3>1, <3>2, CanonicalIsSound, EdgeKeepsAcyclic DEF ProjectionIsForest
    <3>4. \A n \in Names : up'[n] # None =>
             n \in invocations' \ {root'} /\ up'[n] \in invocations'
      BY <2>2, <2>4, <3>1, <3>2, CanonicalIsSound DEF ProjectionIsForest, GraphTypeOK, graph
    <3> QED
      BY <3>3, <3>4 DEF ProjectionIsForest
  <2> QED
    BY <2>3, <2>4
<1>3. CASE UNCHANGED graphVars
  BY <1>1, <1>3 DEF graphVars
<1> QED
  BY <1>2, <1>3

\* However delegations run, the canonical parents are a forest of existing invocations
\* with the root at a top: createsCycle, which climbs without a bound, always ends.
THEOREM GraphIsForest == GraphSpec => []ProjectionIsForest
<1>1. GraphInit => GraphTypeOK /\ ProjectionIsForest
  BY GraphInitTypeOK, ForestInit
<1>2. GraphTypeOK /\ ProjectionIsForest /\ [GraphNext]_graphVars => (GraphTypeOK /\ ProjectionIsForest)'
  BY GraphNextTypeOK, ForestNext
<1> QED
  BY <1>1, <1>2, PTL DEF GraphSpec


(*******************************************************************************)
(* The five parts side by side.                                                *)
(*******************************************************************************)

\* Each part's share of a behaviour is a behaviour of that part (fairness apart, which
\* only the throttle is given on its own), so that what is proved safe of a part is
\* safe in the whole.
LEMMA PartsAreThemselves ==
    HandlersSpec =>
        /\ ThrottleInit /\ [][ThrottleNext]_throttleVars
        /\ CacheSpec /\ HostsSpec /\ ResumeSpec /\ GraphSpec
<1>1. HandlersInit => ThrottleInit /\ CacheInit /\ HostsInit /\ ResumeInit /\ GraphInit
  BY DEF HandlersInit
<1> USE DEF HandlersNext, handlersVars, Watching, Replaying, Hosting, Resuming, Validating
<1>2. [HandlersNext]_handlersVars => [ThrottleNext]_throttleVars
  OBVIOUS
<1>3. [HandlersNext]_handlersVars => [CacheNext]_cacheVars
  OBVIOUS
<1>4. [HandlersNext]_handlersVars => [HostsNext]_hostsVars
  OBVIOUS
<1>5. [HandlersNext]_handlersVars => [ResumeNext]_resumeVars
  OBVIOUS
<1>6. [HandlersNext]_handlersVars => [GraphNext]_graphVars
  OBVIOUS
<1> QED
  BY <1>1, <1>2, <1>3, <1>4, <1>5, <1>6, PTL
     DEF HandlersSpec, CacheSpec, HostsSpec, ResumeSpec, GraphSpec

\* Every part keeps its types.
THEOREM HandlersTypesCorrect == HandlersSpec => []HandlersTypeOK
<1>1. ThrottleInit /\ [][ThrottleNext]_throttleVars => []ThrottleTypeOK
  <2>1. Fired => ThrottleTypeOK
    BY DEF Fired
  <2> QED
    BY <2>1, InitFired, NextFired, PTL
<1>2. HandlersTypeOK <=> ThrottleTypeOK /\ CacheTypeOK /\ HostsTypeOK /\ ResumeTypeOK /\ GraphTypeOK
  BY DEF HandlersTypeOK
<1> QED
  BY <1>1, <1>2, CacheTypeCorrect, HostsTypeCorrect, ResumeTypeCorrect, GraphTypeCorrect,
     PartsAreThemselves, PTL
===============================================================================
