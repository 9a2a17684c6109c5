------------------------------- MODULE Portal -------------------------------
(***************************************************************************)
(* The figures of the portal's pages together: the cached ones and the     *)
(* live speeds.  They share the machine's time and nothing else (each has  *)
(* a lock of its own, the cached ones a file of their own), so a behaviour *)
(* follows one of them and every interleaving of two is one of each.       *)
(***************************************************************************)
EXTENDS TrafficCache, VersionChecks, ProviderUsage, UsageHistory, SpeedLeases

cached     == <<traffic, versions, provider, history>>
portalVars == <<time, cached, speeds>>

PortalInit == /\ ClockInit /\ TrafficInit /\ VersionsInit /\ ProviderInit /\ HistoryInit
              /\ SpeedsInit

\* The live speeds count seconds (Second), the cached figures ages of hours.
ClockStep == watched # "speeds" /\ (Tick \/ SetBack) /\ UNCHANGED <<cached, speeds>>

SpeedStep(step) == watched = "speeds" /\ step /\ UNCHANGED <<time, cached>>

PortalNext == \/ ClockStep
              \/ TrafficNext /\ UNCHANGED <<versions, provider, history, speeds>>
              \/ VersionsNext /\ UNCHANGED <<traffic, provider, history, speeds>>
              \/ ProviderNext /\ UNCHANGED <<traffic, versions, history, speeds>>
              \/ record_sample /\ UNCHANGED <<traffic, versions, provider, speeds>>
              \/ SpeedStep(SpeedsNext)

PortalSpec == PortalInit /\ [][PortalNext]_portalVars

(* The worker and the reader are threads of the portal, and so is every     *)
(* request: a thread that can run does (what they wait for has timeouts),   *)
(* and time passes.                                                         *)
PortalFairSpec ==
    /\ PortalSpec
    /\ WF_portalVars(_refresh /\ UNCHANGED <<traffic, provider, history, speeds>>)
    /\ WF_portalVars(SpeedStep(Reader))
    /\ WF_portalVars(SpeedStep(Requests))
    /\ WF_portalVars(SpeedStep(Second))

(* The page that says "checking" stops saying so: whatever fails, a check   *)
(* that was started ends (software_updates.py:198).                         *)
ChecksEnd == thread # "off" ~> thread = "off"
=============================================================================
