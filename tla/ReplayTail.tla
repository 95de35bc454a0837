------------------------------- MODULE ReplayTail -------------------------------
(* The live tail of an open replay (frontend/src/components/ReplayView.tsx and   *)
(* TerminalPanel.tsx) over the server's ReplayCache: the browser polls the live  *)
(* revision of one session, refetches the render when it changed, and once more  *)
(* when the session has been quiet for the live window. The page is still being  *)
(* opened meanwhile: its first render is under way, and the details of the       *)
(* session come in, which start the loop anew when they bring another time of    *)
(* the last update. A loop that is left behind may still have a refetch under    *)
(* way. Reading a transcript succeeds here, and the first render is answered.    *)
EXTENDS ReplayCache

CONSTANTS
    Session,        \* the session of the page
    Load,           \* the request that renders it for the first time
    Refreshes       \* bound: the requests of refreshContent that may be under way at once

VARIABLES
    screen,         \* what is on the screen, Failed before the first render is written
    live,           \* the transcript was written less than a live window ago
    page,           \* the first render was asked for, details under way, the update they told of
    sent,           \* the refetches that have not reached the server
    tail            \* the loop, see NewLoop

tailVars == <<cacheVars, screen, live, page, sent, tail>>

\* lastRev === null, and a session whose details are not there yet.
NoRevision == 0

\* What the effect starts with. Its window counts from a moment the page has seen
\* ("seen": it opened, or a poll found a change) or from the session's own
\* timestamp, which may be of any age ("told"). The one-shot cleanup is not
\* "made"; or it is "spent" without effect, or it is "made" when it should.
NewLoop(anchor) ==
    [at |-> "poll", last |-> NoRevision, polled |-> NoRevision, anchor |-> anchor,
     cleanup |-> "due", cleaning |-> "due", awaits |-> {}]

TailInit ==
    /\ CacheInit
    /\ screen = Failed
    /\ live \in BOOLEAN
    /\ page = [opened |-> FALSE, fetches |-> 1, known |-> NoRevision]
    /\ sent = {}
    /\ tail = NewLoop("seen")

(*******************************************************************************)
(* The session.                                                                *)
(*******************************************************************************)

Written == Grow(Session) /\ live' = TRUE /\ UNCHANGED <<screen, page, sent, tail>>

\* Nothing was written for five minutes: the row of a turn in progress goes, if
\* there is one.
WindowEnds ==
    /\ live
    /\ live' = FALSE
    /\ Drift(Session) \/ UNCHANGED cacheVars
    /\ UNCHANGED <<screen, page, sent, tail>>

(*******************************************************************************)
(* The page.                                                                   *)
(*******************************************************************************)

Open ==
    /\ ~page.opened
    /\ Arrive(Load, Session)
    /\ page' = [page EXCEPT !.opened = TRUE]
    /\ UNCHANGED <<screen, live, sent, tail>>

\* hasWrittenOnce: the first render is on the screen.
FirstShown ==
    /\ render[Load].at = "done"
    /\ screen' = render[Load].content
    /\ RenderAnswered(Load)
    /\ UNCHANGED <<live, page, sent, tail>>

\* fetchSession is answered with the update it found. Another one than before
\* ends the effect, which does not look any more at what it waits for, and starts
\* it anew. (One that fails is like one that never comes.)
DetailArrives ==
    /\ page.fetches > 0
    /\ \E v \in 1 .. LiveRevision(Session) :
        /\ page' = [page EXCEPT !.fetches = @ - 1, !.known = v]
        /\ tail' = IF v = page.known THEN tail ELSE NewLoop("told")
    /\ UNCHANGED <<cacheVars, screen, live, sent>>

(*******************************************************************************)
(* The loop.                                                                   *)
(*******************************************************************************)

\* refreshContent does nothing before the first render is written. (Which of the
\* free requests it is makes no difference.)
RefreshContent(t, cleaning) ==
    LET free == {f \in Refreshes \ sent : render[f] = NoRender}
        f == CHOOSE g \in free : TRUE
    IN  /\ IF screen = Failed
           THEN /\ tail' = [t EXCEPT !.last = LiveRevision(Session), !.cleanup = cleaning]
                /\ UNCHANGED sent
           ELSE /\ free # {}
                /\ sent' = sent \cup {f}
                /\ tail' = [t EXCEPT !.at = "await", !.awaits = {f}, !.polled = LiveRevision(Session),
                                     !.cleaning = cleaning]
        /\ UNCHANGED <<cacheVars, screen, live, page>>

\* The revision is another one than at the last poll.
PollChanged ==
    /\ tail.at = "poll"
    /\ tail.last \notin {NoRevision, LiveRevision(Session)}
    /\ RefreshContent([tail EXCEPT !.anchor = "seen", !.cleanup = "due"], "due")

\* Five minutes after the last write what was asked for before it is answered.
Settled ==
    /\ ~live
    /\ screen # Failed
    /\ \A r \in Renders : render[r] # NoRender => render[r].rev = LiveRevision(Session)

\* The one-shot cleanup. A window that counts from a moment the page has seen ends
\* after the server's, and after the first poll; one that counts from a timestamp
\* may have ended before.
PollQuiet ==
    /\ tail.at = "poll"
    /\ tail.last \in {NoRevision, LiveRevision(Session)}
    /\ tail.cleanup = "due"
    /\ tail.anchor = "told" \/ (Settled /\ tail.last # NoRevision)
    /\ RefreshContent(tail, IF Settled THEN "made" ELSE "spent")

\* The first poll finds nothing to do, or the panel is not loaded yet.
PollFirst ==
    /\ tail.at = "poll"
    /\ tail.last = NoRevision
    /\ tail' = [tail EXCEPT !.last = LiveRevision(Session)]
    /\ UNCHANGED <<cacheVars, screen, live, page, sent>>

\* A poll without an answer is the last one of its loop.
PollFails ==
    /\ tail.at = "poll"
    /\ tail' = [tail EXCEPT !.at = "ended"]
    /\ UNCHANGED <<cacheVars, screen, live, page, sent>>

RefreshArrives(f) ==
    /\ f \in sent
    /\ Arrive(f, Session)
    /\ sent' = sent \ {f}
    /\ UNCHANGED <<screen, live, page, tail>>

\* Seeded fault: the last revision is taken when the answer is in.
ContinueWithLatest(cleanup) ==
    [tail EXCEPT !.at = "poll", !.awaits = {}, !.last = LiveRevision(Session), !.polled = NoRevision,
                 !.cleanup = cleanup, !.cleaning = "due"]

\* The revision polled before the refetch is the last one.
Continue(cleanup) ==
    [tail EXCEPT !.at = "poll", !.awaits = {}, !.last = tail.polled, !.polled = NoRevision,
                 !.cleanup = cleanup, !.cleaning = "due"]

\* What came is shown, also when the loop that asked for it is gone; the loop
\* fetches the details when it is something new.
Refreshed(f) ==
    /\ render[f].at = "done"
    /\ screen' = render[f].content
    /\ RenderAnswered(f)
    /\ tail' = IF f \in tail.awaits THEN Continue(tail.cleaning) ELSE tail
    /\ page' = IF f \in tail.awaits /\ render[f].content # screen
               THEN [page EXCEPT !.fetches = @ + 1] ELSE page
    /\ UNCHANGED <<live, sent>>

\* A refetch that fails counts as one without news, and as the cleanup.
RefreshFails(f) ==
    /\ render[f].at = "done"
    /\ RenderAnswered(f)
    /\ tail' = IF f \notin tail.awaits THEN tail
               ELSE Continue(IF tail.cleaning = "due" THEN "due" ELSE "spent")
    /\ UNCHANGED <<screen, live, page, sent>>

Poll == PollFirst \/ PollChanged \/ PollQuiet

(*******************************************************************************)
(* The server.                                                                 *)
(*******************************************************************************)

\* The renders of the page are answered with rendered text.
ServePage(r) ==
    /\ \/ EventsHit(r) \/ Join(r) \/ Lead(r) \/ Parse(r) \/ Store(r)
       \/ AnsiHit(r) \/ AnsiMissed(r) \/ StoreAnsi(r)
    /\ render[r].at = "parse" => render'[r].content # Failed
    /\ UNCHANGED <<screen, live, page, sent, tail>>

TailNext ==
    \/ Written \/ WindowEnds
    \/ Open \/ FirstShown \/ DetailArrives
    \/ Poll \/ PollFails
    \/ \E f \in Refreshes : RefreshArrives(f) \/ Refreshed(f) \/ RefreshFails(f)
    \/ \E r \in Renders : ServePage(r)

\* Time passes, the page goes on polling, and each request goes on, to the server and back.
TailFairness ==
    /\ WF_tailVars(WindowEnds) /\ WF_tailVars(Poll)
    /\ WF_tailVars(Open \/ ServePage(Load) \/ FirstShown)
    /\ \A f \in Refreshes : WF_tailVars(RefreshArrives(f) \/ ServePage(f) \/ Refreshed(f))

TailSpec == TailInit /\ [][TailNext]_tailVars /\ TailFairness

(*******************************************************************************)
(* Properties.                                                                 *)
(*******************************************************************************)

\* Once the session is written no more, its replay shows all of its transcript,
\* whichever request parsed it, whichever parse the refetch had to wait for and
\* however often the loop was started anew; unless a poll failed, or the one-shot
\* cleanup was used up when it could not help.
CaughtUp ==
    \/ tail.at = "ended"
    \/ tail.cleanup = "spent"
    \/ screen.main = LiveRevision(Session)

TailCatchesUp == <>[]CaughtUp

\* The comment on staleRowCleaned says that the cleanup makes the row of a turn in
\* progress disappear without a reload: when it was made after the window had
\* passed, and nothing was written since, the page shows what a parse returns.
StaleRowCleared ==
    tail.at = "poll" /\ tail.cleanup = "made" /\ tail.last = LiveRevision(Session) /\ ~live =>
        screen = source[Session]
=============================================================================
