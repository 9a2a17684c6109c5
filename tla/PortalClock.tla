----------------------------- MODULE PortalClock -----------------------------
(***************************************************************************)
(* What the cached figures of the portal share: the wall clock they all    *)
(* take their ages from (time.time), and the troubles of the machine.      *)
(* Nothing else is shared, so a behaviour follows one of the figures.      *)
(***************************************************************************)
EXTENDS Integers, Sequences, FiniteSets

CONSTANTS MaxTime,      \* bound: when time ends
          MaxTroubles,  \* bound: failed reads and writes, restarts, clock steps
          Figures       \* the figures looked at

VARIABLES now,          \* true time
          skew,         \* what the wall clock differs by: 0, or -1 once it was set back
          troubles,     \* how many troubles there were
          watched       \* the figure this behaviour follows

time == <<now, skew, troubles, watched>>

None  == <<>>
clock == now + skew

ClockTypeOK == /\ now \in 1 .. MaxTime /\ skew \in {0, -1}
               /\ troubles \in 0 .. MaxTroubles /\ watched \in Figures

ClockInit == now = 1 /\ skew = 0 /\ troubles = 0 /\ watched \in Figures

Tick    == now < MaxTime /\ now' = now + 1 /\ UNCHANGED <<skew, troubles, watched>>
Trouble == /\ troubles < MaxTroubles /\ troubles' = troubles + 1
           /\ UNCHANGED <<now, skew, watched>>
SetBack == /\ skew = 0 /\ skew' = -1
           /\ troubles < MaxTroubles /\ troubles' = troubles + 1
           /\ UNCHANGED <<now, watched>>
=============================================================================
