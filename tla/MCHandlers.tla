------------------------------ MODULE MCHandlers ------------------------------
(* Five parts of the server that share no state, for TLC: a watcher's throttle,  *)
(* the replay cache, the authority over change hosts, the resuming of a session  *)
(* and the validation of a collaboration graph. A behaviour moves one of them    *)
(* and leaves the others where they began: a property of one part sees no more   *)
(* of a behaviour that moves several.                                            *)
EXTENDS WatchThrottle, ReplayCache, ChangeHosts, TerminalResume, CollaborationGraph

VARIABLE part       \* the part that moves

handlersVars == <<part, throttleVars, cacheVars, hostsVars, resumeVars, graphVars>>

Watching ==
    /\ part = "watch" /\ ThrottleNext
    /\ UNCHANGED <<part, cacheVars, hostsVars, resumeVars, graphVars>>
Replaying ==
    /\ part = "cache" /\ CacheNext
    /\ UNCHANGED <<part, throttleVars, hostsVars, resumeVars, graphVars>>
Hosting ==
    /\ part = "hosts" /\ HostsNext
    /\ UNCHANGED <<part, throttleVars, cacheVars, resumeVars, graphVars>>
Resuming ==
    /\ part = "resume" /\ ResumeNext
    /\ UNCHANGED <<part, throttleVars, cacheVars, hostsVars, graphVars>>
Validating ==
    /\ part = "graph" /\ GraphNext
    /\ UNCHANGED <<part, throttleVars, cacheVars, hostsVars, resumeVars>>

HandlersInit ==
    /\ ThrottleInit /\ CacheInit /\ HostsInit /\ ResumeInit /\ GraphInit
    /\ \/ part = "graph"
       \/ /\ part \in {"watch", "cache", "hosts", "resume"}
          /\ invocations = {} /\ delegations = <<>>

HandlersNext == Watching \/ Replaying \/ Hosting \/ Resuming \/ Validating

HandlersSpec == HandlersInit /\ [][HandlersNext]_handlersVars

\* Every part's state has the shape its module gives it.
HandlersTypeOK == ThrottleTypeOK /\ CacheTypeOK /\ HostsTypeOK /\ ResumeTypeOK /\ GraphTypeOK
=============================================================================
