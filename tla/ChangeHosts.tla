------------------------------- MODULE ChangeHosts -------------------------------
(* The authority over one OpenAPI change host: its approval and revocation       *)
(* (internal/server/change_hosts.go, internal/db/change_host_store.go), the      *)
(* revisions of its mapping profile (internal/server/change_host_profiles.go,    *)
(* internal/db/change_host_profile_store.go), the parsers registered for them    *)
(* (internal/server/change_host_profile_runtime.go) and the capability that HTTP *)
(* requests run under (internal/changehost/host_policy.go, httpclient.go).       *)
(*                                                                               *)
(* Each handler is a sequence of statements on the database, sections under      *)
(* hostMu and network calls, and handlers overlap. Of a profile's document only  *)
(* this is kept: whether it passes ValidateProfile.                              *)
EXTENDS Integers, FiniteSets, FiniteSetsExt

CONSTANTS
    Profiles,       \* the profile revisions that can be imported
    Requests        \* the HTTP requests that may be under way at once

\* No profile has the name that stands for none.
ASSUME ProfilesAssumption == "none" \notin Profiles

\* A server has finitely many requests under way.
ASSUME RequestsAssumption == IsFiniteSet(Requests)

VARIABLES
    host,           \* the host's lifecycle, "absent" before its first preview
    profile,        \* each revision's lifecycle, and its document
    parsers,        \* the revisions whose references the registry parses
    cached,         \* approvedHosts: the capability in the cache, or none
    alive,          \* the capabilities that are not revoked
    req             \* what each request is doing

hostsVars == <<host, profile, parsers, cached, alive, req>>

\* Capabilities are told apart by a token; a token nobody holds is used again.
NoCap == 0
Tokens == 1 .. Cardinality(Requests) + 1
Fresh == Min(Tokens \ ({cached} \cup {req[r].cap : r \in Requests}))

Idle == [op |-> "none", at |-> "idle", p |-> "none", cap |-> NoCap, doc |-> "none",
         found |-> {}, late |-> FALSE]

HostsInit ==
    /\ host = "absent"
    /\ profile = [p \in Profiles |-> [lifecycle |-> "none", doc |-> "none"]]
    /\ parsers = {}
    /\ cached = NoCap
    /\ alive = {}
    /\ req = [r \in Requests |-> Idle]

Active == {p \in Profiles : profile[p].lifecycle = "active"}

\* A request begins; late, when the host is revoked already.
Begins(r, op, at, p) ==
    /\ req[r] = Idle
    /\ req' = [req EXCEPT ![r] = [Idle EXCEPT !.op = op, !.at = at, !.p = p, !.late = (host = "revoked")]]

GoesTo(r, at) == req' = [req EXCEPT ![r].at = at]
Ends(r) == req' = [req EXCEPT ![r] = Idle]

(*******************************************************************************)
(* Import, probe and mapping of a profile.                                     *)
(*******************************************************************************)

\* StoreChangeHostPreview leaves an approved host as it is; a revoked one is refused.
Import(r, p) ==
    /\ profile[p].lifecycle = "none"
    /\ \A q \in Requests : req[q].p # p
    /\ host # "revoked"
    /\ Begins(r, "import", "create", p)
    /\ host' = IF host = "absent" THEN "preview" ELSE host
    /\ UNCHANGED <<profile, parsers, cached, alive>>

CreateDraft(r) ==
    /\ req[r].at = "create"
    /\ profile' = [profile EXCEPT ![req[r].p] = [lifecycle |-> "draft", doc |-> "partial"]]
    /\ Ends(r)
    /\ UNCHANGED <<host, parsers, cached, alive>>

\* runChangeHostProfileProbe, up to the load of the draft.
Probe(r, p) ==
    /\ profile[p].lifecycle = "draft"
    /\ Begins(r, "probe", "check", p)
    /\ UNCHANGED <<host, profile, parsers, cached, alive>>

\* The mapping of the draft that was read, with some or all of the open fields chosen.
Patch(r, p) ==
    /\ profile[p] = [lifecycle |-> "draft", doc |-> "partial"]
    /\ req[r] = Idle
    /\ \E doc \in {"partial", "complete"} :
        req' = [req EXCEPT ![r] = [Idle EXCEPT !.op = "patch", !.at = "update", !.p = p, !.doc = doc]]
    /\ UNCHANGED <<host, profile, parsers, cached, alive>>

\* Seeded fault: the update of a draft trusts the lifecycle it read before.
UpdateAnyway(r) ==
    /\ req[r].at = "update"
    /\ profile' = [profile EXCEPT ![req[r].p].doc = req[r].doc]
    /\ IF req[r].op = "probe" /\ req[r].doc = "complete" THEN GoesTo(r, "validate") ELSE Ends(r)
    /\ UNCHANGED <<host, parsers, cached, alive>>

\* UpdateChangeHostProfileDraft: only a draft is replaced, whatever was read before.
UpdateDraft(r) ==
    /\ req[r].at = "update"
    /\ IF profile[req[r].p].lifecycle = "draft"
       THEN /\ profile' = [profile EXCEPT ![req[r].p].doc = req[r].doc]
            /\ IF req[r].op = "probe" /\ req[r].doc = "complete" THEN GoesTo(r, "validate") ELSE Ends(r)
       ELSE Ends(r) /\ UNCHANGED profile
    /\ UNCHANGED <<host, parsers, cached, alive>>

\* MarkChangeHostProfileVerified reads the row and validates its document ...
Validate(r) ==
    /\ req[r].at = "validate"
    /\ IF profile[req[r].p] = [lifecycle |-> "draft", doc |-> "complete"]
       THEN GoesTo(r, "verify") ELSE Ends(r)
    /\ UNCHANGED <<host, profile, parsers, cached, alive>>

\* ... and updates the lifecycle of a draft, in a statement of its own.
Verify(r) ==
    /\ req[r].at = "verify"
    /\ profile' = IF profile[req[r].p].lifecycle = "draft"
                  THEN [profile EXCEPT ![req[r].p].lifecycle = "verified"] ELSE profile
    /\ Ends(r)
    /\ UNCHANGED <<host, parsers, cached, alive>>

(*******************************************************************************)
(* Approval and revocation.                                                    *)
(*******************************************************************************)

Approve(r) ==
    /\ host = "preview"
    /\ req[r] = Idle
    /\ req' = [req EXCEPT ![r] = [Idle EXCEPT !.op = "approve", !.at = "approve", !.cap = Fresh]]
    /\ alive' = alive \cup {Fresh}
    /\ UNCHANGED <<host, profile, parsers, cached>>

\* ApproveChangeHost: one of two approvals of a preview finds it approved already.
ApproveInDB(r) ==
    /\ req[r].at = "approve"
    /\ IF host = "preview"
       THEN host' = "approved" /\ GoesTo(r, "cache") /\ UNCHANGED alive
       ELSE alive' = alive \ {req[r].cap} /\ Ends(r) /\ UNCHANGED host
    /\ UNCHANGED <<profile, parsers, cached>>

CacheApproval(r) ==
    /\ req[r].at = "cache"
    /\ cached' = req[r].cap
    /\ Ends(r)
    /\ UNCHANGED <<host, profile, parsers, alive>>

RevokeHost(r) ==
    /\ host = "approved"
    /\ Begins(r, "revoke", "uncache", "none")
    /\ host' = "revoked"
    /\ UNCHANGED <<profile, parsers, cached, alive>>

Uncache(r) ==
    /\ req[r].at = "uncache"
    /\ req' = [req EXCEPT ![r].at = "cancel", ![r].cap = cached]
    /\ cached' = NoCap
    /\ UNCHANGED <<host, profile, parsers, alive>>

CancelRequests(r) ==
    /\ req[r].at = "cancel"
    /\ alive' = alive \ {req[r].cap}
    /\ GoesTo(r, "list")
    /\ UNCHANGED <<host, profile, parsers, cached>>

(*******************************************************************************)
(* Activation and revocation of a profile, and the parsers.                    *)
(*******************************************************************************)

Activate(r, p) ==
    /\ profile[p].lifecycle = "verified"
    /\ Begins(r, "activate", "check", p)
    /\ UNCHANGED <<host, profile, parsers, cached, alive>>

\* ActivateChangeHostProfile, one transaction: the active revision is demoted.
ActivateInDB(r) ==
    /\ req[r].at = "activate"
    /\ IF profile[req[r].p].lifecycle = "verified" /\ host = "approved"
       THEN /\ profile' = [p \in Profiles |->
                  IF p = req[r].p THEN [profile[p] EXCEPT !.lifecycle = "active"]
                  ELSE IF p \in Active THEN [profile[p] EXCEPT !.lifecycle = "revoked"]
                  ELSE profile[p]]
            /\ GoesTo(r, "list")
       ELSE Ends(r) /\ UNCHANGED profile
    /\ UNCHANGED <<host, parsers, cached, alive>>

RevokeProfile(r, p) ==
    /\ profile[p].lifecycle \notin {"none", "revoked"}
    /\ Begins(r, "revokeProfile", "list", p)
    /\ profile' = [profile EXCEPT ![p].lifecycle = "revoked"]
    /\ UNCHANGED <<host, parsers, cached, alive>>

\* refreshOpenAPIHostParsers: the hosts, the host's active profile, the replacement.
ListHosts(r) ==
    /\ req[r].at = "list"
    /\ GoesTo(r, IF host = "approved" THEN "read" ELSE "replace")
    /\ UNCHANGED <<host, profile, parsers, cached, alive>>

ReadActive(r) ==
    /\ req[r].at = "read"
    /\ req' = [req EXCEPT ![r].at = "replace", ![r].found = Active]
    /\ UNCHANGED <<host, profile, parsers, cached, alive>>

ReplaceParsers(r) ==
    /\ req[r].at = "replace"
    /\ parsers' = req[r].found
    /\ Ends(r)
    /\ UNCHANGED <<host, profile, cached, alive>>

(*******************************************************************************)
(* Requests that talk to the host: a lookup of a change, and a probe.          *)
(*******************************************************************************)

\* ResolveReference finds the host through one of its registered profiles.
Lookup(r) ==
    /\ parsers # {}
    /\ Begins(r, "lookup", "check", "none")
    /\ UNCHANGED <<host, profile, parsers, cached, alive>>

\* Seeded fault: a host whose approval is cached is taken for approved.
CheckHostInCache(r) ==
    /\ req[r].at = "check"
    /\ IF host = "approved" \/ cached # NoCap
       THEN GoesTo(r, [probe |-> "capability", lookup |-> "profile", activate |-> "activate"][req[r].op])
       ELSE Ends(r)
    /\ UNCHANGED <<host, profile, parsers, cached, alive>>

\* The host has to be approved now.
CheckHost(r) ==
    /\ req[r].at = "check"
    /\ IF host = "approved"
       THEN GoesTo(r, [probe |-> "capability", lookup |-> "profile", activate |-> "activate"][req[r].op])
       ELSE Ends(r)
    /\ UNCHANGED <<host, profile, parsers, cached, alive>>

\* ActiveChangeHostProfile.
ChooseProfile(r) ==
    /\ req[r].at = "profile"
    /\ \/ \E p \in Active : req' = [req EXCEPT ![r].at = "capability", ![r].p = p]
       \/ Active = {} /\ Ends(r)
    /\ UNCHANGED <<host, profile, parsers, cached, alive>>

\* approvedHost, under hostMu: the cached capability, or one approved from the record
\* that was read before, unless the policy refuses it.
TakeCapability(r) ==
    LET cap == IF cached # NoCap THEN cached ELSE Fresh IN
    /\ req[r].at = "capability"
    /\ \/ /\ req' = [req EXCEPT ![r].at = "contact", ![r].cap = cap]
          /\ cached' = cap
          /\ alive' = IF cached # NoCap THEN alive ELSE alive \cup {cap}
       \/ cached = NoCap /\ Ends(r) /\ UNCHANGED <<cached, alive>>
    /\ UNCHANGED <<host, profile, parsers>>

\* A probe without an answer from the host still rewrites its draft.
Refused(r) ==
    IF req[r].op = "probe"
    THEN req' = [req EXCEPT ![r].at = "update", ![r].doc = "partial"]
    ELSE Ends(r)

\* HTTPClient.Do: a revoked capability is refused before a call is sent.
Contact(r) ==
    /\ req[r].at = "contact"
    /\ IF req[r].cap \in alive THEN GoesTo(r, "contacting") ELSE Refused(r)
    /\ UNCHANGED <<host, profile, parsers, cached, alive>>

\* The request under way is cancelled with its capability, or fails on its own.
ContactFails(r) ==
    /\ req[r].at = "contacting"
    /\ Refused(r)
    /\ UNCHANGED <<host, profile, parsers, cached, alive>>

\* An answer, which may have come in before its capability was revoked: there is
\* another call to make, or it was the last one and leaves the sample's fields for a
\* probe, a change or a drifted schema for a lookup.
Contacted(r) ==
    /\ req[r].at = "contacting"
    /\ \/ GoesTo(r, "contact")
       \/ /\ req[r].op = "probe"
          /\ \E doc \in {"partial", "complete"} :
                req' = [req EXCEPT ![r].at = "update", ![r].doc = doc]
       \/ req[r].op = "lookup" /\ Ends(r)
       \/ req[r].op = "lookup" /\ GoesTo(r, "degrade")
    /\ UNCHANGED <<host, profile, parsers, cached, alive>>

\* MarkChangeHostProfileDegraded: only what is active still; the parsers stay.
Degrade(r) ==
    /\ req[r].at = "degrade"
    /\ profile' = IF req[r].p \in Active
                  THEN [profile EXCEPT ![req[r].p].lifecycle = "degraded"] ELSE profile
    /\ Ends(r)
    /\ UNCHANGED <<host, parsers, cached, alive>>

(*******************************************************************************)
(* The whole.                                                                  *)
(*******************************************************************************)

\* The process starts again: restoreOpenAPIHostParsers.
Restart ==
    /\ req' = [r \in Requests |-> Idle]
    /\ cached' = NoCap
    /\ alive' = {}
    /\ parsers' = IF host = "approved" THEN Active ELSE {}
    /\ UNCHANGED <<host, profile>>

Arrives(r) ==
    \/ Approve(r) \/ RevokeHost(r) \/ Lookup(r)
    \/ \E p \in Profiles :
        Import(r, p) \/ Probe(r, p) \/ Patch(r, p) \/ Activate(r, p) \/ RevokeProfile(r, p)

Proceeds(r) ==
    \/ CreateDraft(r) \/ UpdateDraft(r) \/ Validate(r) \/ Verify(r)
    \/ ApproveInDB(r) \/ CacheApproval(r) \/ Uncache(r) \/ CancelRequests(r)
    \/ ActivateInDB(r) \/ ListHosts(r) \/ ReadActive(r) \/ ReplaceParsers(r)
    \/ CheckHost(r) \/ ChooseProfile(r) \/ TakeCapability(r)
    \/ Contact(r) \/ ContactFails(r) \/ Contacted(r) \/ Degrade(r)

HostsNext == Restart \/ \E r \in Requests : Arrives(r) \/ Proceeds(r)

HostsSpec == HostsInit /\ [][HostsNext]_hostsVars

(*******************************************************************************)
(* Properties.                                                                 *)
(*******************************************************************************)

\* The shape of the state; the partial index on active revisions allows one of them.
HostsTypeOK ==
    /\ host \in {"absent", "preview", "approved", "revoked"}
    /\ profile \in [Profiles ->
            [lifecycle : {"none", "draft", "verified", "active", "degraded", "revoked"},
             doc : {"none", "partial", "complete"}]]
    /\ Cardinality(Active) <= 1
    /\ parsers \subseteq Profiles
    /\ cached \in Tokens \cup {NoCap}
    /\ alive \subseteq Tokens
    /\ \A r \in Requests : req[r].cap \in Tokens \cup {NoCap} /\ req[r].late \in BOOLEAN

\* A request that comes in after the host was revoked is never sent to it, although
\* a slow approval or a slow lookup may have put a live capability back into the
\* cache, and a slow refresh the host's parsers back into the registry.
RevocationHolds == \A r \in Requests : req[r].late => req[r].at # "contacting"

\* A revision that has been verified is never edited, not by a probe or a mapping
\* edit that read it as a draft either.
RevisionsImmutable ==
    [][\A p \in Profiles :
        profile[p].lifecycle \notin {"none", "draft"} => profile'[p].doc = profile[p].doc]_hostsVars

\* The comment on MarkChangeHostProfileVerified: a draft whose mapping was edited
\* can never skip the full contract.
VerifiedIsValidated ==
    \A p \in Profiles :
        profile[p].lifecycle \in {"verified", "active", "degraded"} => profile[p].doc = "complete"

\* The comment in handleRevokeChangeHostProfile: a revoked profile stops parsing
\* immediately and atomically; at the latest when nothing is under way.
RevokedStopsParsing ==
    (\A r \in Requests : req[r] = Idle) => \A p \in parsers : profile[p].lifecycle # "revoked"
=============================================================================
