------------------------------ MODULE TerminalResume ------------------------------
(* Resuming one session in a terminal (internal/server/resume.go) and the        *)
(* binding that remembers the tab (internal/db/terminal_binding.go). Every poll  *)
(* of the terminal's status looks for the agent's process, reads the binding and *)
(* may write it back; a resume request does the same first, and then launches.   *)
(* None of this is one step, and nothing but resumeInFlight excludes anything.   *)
(*                                                                               *)
(* A tab is the number of the launch that opened it. An agent that somebody      *)
(* starts in a terminal of their own runs in no such tab: Elsewhere.             *)
EXTENDS Integers, FiniteSets

CONSTANTS
    Resumes,        \* the HTTP requests that may be under way at once
    MaxLaunches,    \* bound: the launches
    MaxOutside      \* bound: the runs somebody else starts

ASSUME LaunchesAssumption == MaxLaunches \in Nat

VARIABLES
    running,        \* the tabs with a live agent, Elsewhere among them
    opened,         \* the tabs whose agent has not started yet
    recent,         \* the launches within the verification grace
    record,         \* the binding: a tab and a state
    inFlight,       \* resumeInFlight
    launches,       \* the launches so far
    resume,         \* what each request is doing
    ended,          \* history: the tabs whose end a poll has answered with
    outside         \* history: runs Elsewhere so far, and the tabs that had ended before
                    \* the last one began

resumeVars == <<running, opened, recent, record, inFlight, launches, resume, ended, outside>>

Elsewhere == 0
NoTab == -1
NoRecord == [tab |-> NoTab, state |-> "none"]
NoResume == [op |-> "none", at |-> "idle", live |-> FALSE, saw |-> {}, rec |-> NoRecord, answer |-> "none"]

ResumeInit ==
    /\ running = {} /\ opened = {} /\ recent = {}
    /\ record = NoRecord
    /\ inFlight = FALSE
    /\ launches = 0
    /\ resume = [r \in Resumes |-> NoResume]
    /\ ended = {}
    /\ outside = [runs |-> 0, after |-> {}]

world == <<running, opened, recent, launches, outside>>

(*******************************************************************************)
(* The agents.                                                                 *)
(*******************************************************************************)

AgentStarts(k) ==
    /\ k \in opened
    /\ opened' = opened \ {k}
    /\ running' = running \cup {k}
    /\ UNCHANGED <<recent, record, inFlight, launches, resume, ended, outside>>

\* A tab may also be closed before its agent has started.
AgentEnds(k) ==
    /\ k \in running \cup opened
    /\ running' = running \ {k}
    /\ opened' = opened \ {k}
    /\ UNCHANGED <<recent, record, inFlight, launches, resume, ended, outside>>

StartedOutside ==
    /\ Elsewhere \notin running
    /\ outside.runs < MaxOutside
    /\ running' = running \cup {Elsewhere}
    /\ outside' = [runs |-> outside.runs + 1, after |-> ended]
    /\ UNCHANGED <<opened, recent, record, inFlight, launches, resume, ended>>

GraceEnds(k) ==
    /\ k \in recent
    /\ recent' = recent \ {k}
    /\ UNCHANGED <<running, opened, record, inFlight, launches, resume, ended, outside>>

(*******************************************************************************)
(* resolveTerminalStatus.                                                      *)
(*******************************************************************************)

\* processEvidenceLiveness: a process that is found is live, and so may be a session
\* without one, or with one that nobody can find, whose transcript was written a
\* moment ago.
LookForProcess(r, op) ==
    /\ resume[r] = NoResume
    /\ \E live \in BOOLEAN, saw \in {{}, running} :
        /\ saw # {} => live
        /\ resume' = [resume EXCEPT ![r] = [NoResume EXCEPT !.op = op, !.at = "record", !.live = live, !.saw = saw]]
    /\ UNCHANGED <<world, record, inFlight, ended>>

\* The statuses this request may answer with, from what it saw and read. Without a
\* binding to go by, the process itself may tell its terminal: "detected".
Statuses(live, saw, rec) ==
    CASE live /\ rec.state \in {"none", "stopped"} ->
            {"unknown"} \cup (IF saw # {} THEN {"detected"} ELSE {})
      [] live /\ rec.state \notin {"none", "stopped"} -> {"active"}
      [] ~live /\ rec = NoRecord -> {"none"}
      [] ~live /\ rec.state = "launching" /\ rec.tab \in recent -> {"launching"}
      [] OTHER -> {"stopped"}

Refusals == {"active", "launching", "detected"}

\* A binding that cannot be read counts as none.
ReadBinding(r) ==
    /\ resume[r].at = "record"
    /\ \E rec \in {record, NoRecord} :
        \E answer \in Statuses(resume[r].live, resume[r].saw, rec) :
            resume' = [resume EXCEPT ![r].at = "write", ![r].rec = rec, ![r].answer = answer]
    /\ UNCHANGED <<world, record, inFlight, ended>>

\* A changed state is written back with the whole row that was read; so is a changed
\* process, and every few seconds a live one. A write that fails is only logged.
WriteBinding(r) ==
    LET rec == resume[r].rec IN
    /\ resume[r].at = "write"
    /\ resume[r].answer \in {"active", "launching", "stopped"}
    /\ \/ /\ rec.state # resume[r].answer \/ resume[r].live
          /\ record' = [rec EXCEPT !.state = resume[r].answer]
       \/ UNCHANGED record
    /\ resume' = [resume EXCEPT ![r].at = "answer"]
    /\ ended' = IF resume[r].answer = "stopped" THEN ended \cup {rec.tab} ELSE ended
    /\ UNCHANGED <<world, inFlight>>

\* No binding, or one whose end was seen: nothing is written.
NoWrite(r) ==
    /\ resume[r].at = "write"
    /\ resume[r].answer \in {"detected", "unknown", "none"}
    /\ resume' = [resume EXCEPT ![r].at = "answer"]
    /\ UNCHANGED <<world, record, inFlight, ended>>

\* A poll is answered, and a resume of a session that runs in a known tab is refused.
AnswerStatus(r) ==
    /\ resume[r].at = "answer"
    /\ resume[r].op = "poll" \/ resume[r].answer \in Refusals
    /\ resume' = [resume EXCEPT ![r] = NoResume]
    /\ UNCHANGED <<world, record, inFlight, ended>>

(*******************************************************************************)
(* handleResumeSession, after the status.                                      *)
(*******************************************************************************)

MayLaunch(r) ==
    /\ resume[r].at = "answer"
    /\ resume[r].op = "resume"
    /\ resume[r].answer \notin Refusals

\* Seeded fault: a launch in progress is not looked for.
BeginResumeAnyway(r) ==
    /\ MayLaunch(r)
    /\ resume' = [resume EXCEPT ![r].at = "launch"]
    /\ inFlight' = TRUE
    /\ UNCHANGED <<world, record, ended>>

\* beginResume: another launch in progress refuses this one.
BeginResume(r) ==
    /\ MayLaunch(r)
    /\ IF inFlight
       THEN resume' = [resume EXCEPT ![r] = NoResume] /\ UNCHANGED inFlight
       ELSE resume' = [resume EXCEPT ![r].at = "launch"] /\ inFlight' = TRUE
    /\ UNCHANGED <<world, record, ended>>

Launch(r) ==
    /\ resume[r].at = "launch"
    /\ launches < MaxLaunches
    /\ launches' = launches + 1
    /\ opened' = opened \cup {launches + 1}
    /\ recent' = recent \cup {launches + 1}
    /\ resume' = [resume EXCEPT ![r].at = "save", ![r].rec = [tab |-> launches + 1, state |-> "launching"]]
    /\ UNCHANGED <<running, record, inFlight, ended, outside>>

LaunchFails(r) ==
    /\ resume[r].at = "launch"
    /\ inFlight' = FALSE
    /\ resume' = [resume EXCEPT ![r] = NoResume]
    /\ UNCHANGED <<world, record, ended>>

\* The upsert, or its failure; endResume either way.
SaveBinding(r) ==
    /\ resume[r].at = "save"
    /\ record' = resume[r].rec \/ UNCHANGED record
    /\ inFlight' = FALSE
    /\ resume' = [resume EXCEPT ![r] = NoResume]
    /\ UNCHANGED <<world, ended>>

\* The binding outlives the process; everything in memory is gone.
ServerRestarts ==
    /\ inFlight' = FALSE
    /\ resume' = [r \in Resumes |-> NoResume]
    /\ UNCHANGED <<world, record, ended>>

ResumeNext ==
    \/ \E k \in 1 .. MaxLaunches : AgentStarts(k) \/ GraceEnds(k)
    \/ \E k \in Elsewhere .. MaxLaunches : AgentEnds(k)
    \/ StartedOutside \/ ServerRestarts
    \/ \E r \in Resumes :
        \/ LookForProcess(r, "poll") \/ LookForProcess(r, "resume")
        \/ ReadBinding(r) \/ WriteBinding(r) \/ NoWrite(r) \/ AnswerStatus(r)
        \/ BeginResume(r) \/ Launch(r) \/ LaunchFails(r) \/ SaveBinding(r)

ResumeSpec == ResumeInit /\ [][ResumeNext]_resumeVars

(*******************************************************************************)
(* Properties.                                                                 *)
(*******************************************************************************)

Tabs == 1 .. MaxLaunches
BindingStates == {"launching", "active", "stopped"}
Bindings == [tab : Tabs, state : BindingStates]
Positions == {"idle", "record", "write", "answer", "launch", "save"}
Attempts ==
    [op : {"none", "poll", "resume"}, at : Positions, live : BOOLEAN,
     saw : SUBSET (Elsewhere .. MaxLaunches), rec : {NoRecord} \cup Bindings,
     answer : BindingStates \cup {"none", "unknown", "detected"}]

\* The shape of the state: tabs are launches, and a binding names one; one that is
\* about to be written back is a binding.
ResumeTypeOK ==
    /\ running \subseteq Elsewhere .. MaxLaunches
    /\ opened \subseteq Tabs /\ recent \subseteq Tabs /\ ended \subseteq Tabs
    /\ record \in {NoRecord} \cup Bindings
    /\ inFlight \in BOOLEAN
    /\ launches \in 0 .. MaxLaunches
    /\ resume \in [Resumes -> Attempts]
    /\ \A r \in Resumes :
        resume[r].at = "write" /\ resume[r].answer \in BindingStates => resume[r].rec \in Bindings

\* Two resumes of one session are never in the terminal at the same time, and the
\* tab of a launch is saved before the next launch begins.
LaunchesExclusive == Cardinality({r \in Resumes : resume[r].at \in {"launch", "save"}}) <= 1

\* The comment in resolveTerminalStatus: a later externally started run must not
\* inherit a stale exact tab from a launch that was already observed stopped.
TabNotInherited ==
    \A r \in Resumes :
        resume[r].at = "answer" /\ resume[r].answer = "active" /\ resume[r].saw = {Elsewhere}
            => resume[r].rec.tab \notin outside.after
=============================================================================
