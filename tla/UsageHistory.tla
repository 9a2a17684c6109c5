---------------------------- MODULE UsageHistory ----------------------------
(***************************************************************************)
(* airport_usage: every successful refresh of the airport subscription adds*)
(* the provider's cumulative counter to a history file.  A drop around the *)
(* monthly reset day starts a new cycle and prunes the old one; any other  *)
(* drop is an anomaly, and stays.  A tick is a day.                        *)
(***************************************************************************)
EXTENDS PortalClock, SequencesExt

CONSTANTS MonthLength,  \* days of a month
          ResetDays,    \* 19 .. 21: the days a reset is recognised
          MaxGap,       \* 3 days (72 hours)
          MaxSamples,   \* 10000 in the code
          MaxUsed       \* bound: of the counter

ASSUME MonthAssumption == /\ MonthLength \in Nat \ {0} /\ MaxSamples \in Nat \ {0}
                          /\ ResetDays # {} /\ ResetDays \subseteq 1 .. MonthLength

VARIABLES history       \* airport-usage.json: samples and reset_window

Samples == [at : 0 .. MaxTime, used : 0 .. MaxUsed]

HistoryTypeOK == /\ history.samples \in Seq(Samples)
                 /\ history.reset_window \in {None} \cup (0 .. MaxTime) \X (0 .. MaxTime)

HistoryInit == history = [samples |-> <<>>, reset_window |-> None]

day(t)    == ((t - 1) % MonthLength) + 1
FirstDay  == CHOOSE d \in ResetDays : \A e \in ResetDays : d <= e
(* The cycle a day belongs to, counted from the start. *)
cycle_start(t) == (t - 1 + MonthLength - FirstDay + 1) \div MonthLength

_decreased(previous, current) == current.used < previous.used

IsAnyReset(previous, current, window) ==
    /\ day(current.at) \in ResetDays
    /\ current.at - previous.at <= MaxGap
    /\ _decreased(previous, current)
IsReset(previous, current, window) ==
    /\ day(current.at) \in ResetDays
    /\ current.at - previous.at <= MaxGap
    /\ _decreased(previous, current)
    /\ window = None \/ cycle_start(current.at) > cycle_start(window[2])

\* What the observations up to one make of those before it
Observed(samples, found, i) ==
    IF i > 1 /\ IsReset(samples[i-1], samples[i], found.window)
    THEN [first |-> i, window |-> <<samples[i-1].at, samples[i].at>>]
    ELSE found

_current_observations(samples, window) ==
    LET found[i \in 0 .. Len(samples)] ==
            IF i = 0 THEN [first |-> 1, window |-> window] ELSE Observed(samples, found[i-1], i)
        last == found[Len(samples)]
    IN [samples |-> SubSeq(samples, last.first, Len(samples)), reset_window |-> last.window]

Latest(samples) == SubSeq(samples, IF Len(samples) > MaxSamples
                                   THEN Len(samples) - MaxSamples + 1 ELSE 1, Len(samples))

(* _read_history accepts a file in order, whose window ends before it starts. *)
Readable(h) ==
    /\ Len(h.samples) <= MaxSamples
    /\ IsSorted(h.samples, LAMBDA a, b : a.at <= b.at)
    /\ h.reset_window # None =>
          /\ h.reset_window[1] <= h.reset_window[2]
          /\ h.samples # <<>> /\ h.reset_window[2] <= h.samples[1].at

(* An observation that is older than the newest one is dropped. *)
Delayed(at) == history.samples # <<>> /\ at < Last(history.samples).at

Grown(used) == Append(history.samples, [at |-> clock, used |-> used])
Sampled(used) == _current_observations(Grown(used), history.reset_window)

(* The command that refreshes ignores a history it cannot read or write. *)
record_sample ==
    /\ watched = "history"
    /\ \E used \in 0 .. MaxUsed :
          \/ /\ Readable(history) /\ ~Delayed(clock)
             /\ history' = [Sampled(used) EXCEPT !.samples = Latest(@)]
             /\ UNCHANGED time
          \/ /\ Trouble /\ UNCHANGED history

(* What is written can be read: otherwise the first record that reads it    *)
(* back fails, and every later one (airport_usage.py:93).                   *)
HistoryIsReadable == Readable(history)

(* "A persisted reset window prevents a second correction in the same month *)
(* from discarding the newly started cycle again" (airport_usage.py:150):   *)
(* of the samples taken since the reset of a cycle, none is pruned by a     *)
(* second drop of that cycle, unless the file is full.                      *)
CycleIsCorrectedOnce ==
    [][history.reset_window # None /\ Len(history.samples) < MaxSamples
        => LET reset == cycle_start(history.reset_window[2])
           IN cycle_start(clock) = reset => IsPrefix(history.samples, history'.samples)]_history
=============================================================================
