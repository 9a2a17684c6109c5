---------------------------- MODULE TrafficCache ----------------------------
(***************************************************************************)
(* metadata.TrafficMetadataStore: the users' traffic, read from 3x-ui's    *)
(* database at most once per TTL.  Two services hold a store of their own  *)
(* (web_server.Portal, and metadata_server behind nginx) and share one     *)
(* cache file, without a lock between them.                                *)
(***************************************************************************)
EXTENDS PortalClock

CONSTANTS TrafficTtl    \* 300 seconds

ASSUME TrafficTtlAssumption == TrafficTtl \in Nat \ {0}

Services == {"portal", "metadata"}

VARIABLES memory,     \* service -> the entries it holds: when read, what refreshed_at says
          saving,     \* service -> the entries it is writing to the file, under its lock
          cacheFile,  \* traffic-cache.json
          answer      \* the last answer: how old its figures, and whether a read failed

traffic == <<memory, saving, cacheFile, answer>>

Entries == [asOf : 1 .. MaxTime, at : 0 .. MaxTime] \cup {None}

TrafficTypeOK == /\ memory \in [Services -> Entries] /\ saving \in [Services -> Entries]
                 /\ cacheFile \in Entries
                 /\ answer \in [age : Nat, failed : BOOLEAN] \cup {None}

TrafficInit == /\ memory = [s \in Services |-> None] /\ saving = [s \in Services |-> None]
               /\ cacheFile = None /\ answer = None

(* The file is looked at as long as there is nothing in memory. *)
_load_as_new(s) == IF memory[s] = None /\ cacheFile # None
                   THEN [cacheFile EXCEPT !.at = clock] ELSE memory[s]
_load_cached(s) == IF memory[s] = None THEN cacheFile ELSE memory[s]

Idle(s)   == saving[s] = None
_fresh(e) == e # None /\ clock - e.at < TrafficTtl

Answered(e, failed) ==
    answer' = IF e = None THEN None ELSE [age |-> now - e.asOf, failed |-> failed]

traffic_for(s) ==
    LET held == _load_cached(s)
    IN /\ Idle(s) /\ _fresh(held)
       /\ memory' = [memory EXCEPT ![s] = held]
       /\ Answered(held, FALSE)
       /\ UNCHANGED <<time, saving, cacheFile>>

(* _refresh of a stale store, or of the portal's refresh() after a task. *)
Due(s) == Idle(s) /\ (s = "portal" \/ ~_fresh(_load_cached(s)))

Reread(s) ==
    LET read == [asOf |-> now, at |-> clock]
    IN /\ Due(s)
       /\ memory' = [memory EXCEPT ![s] = read]
       /\ saving' = [saving EXCEPT ![s] = read]
       /\ Answered(read, FALSE)
       /\ UNCHANGED <<time, cacheFile>>

RereadFails(s) ==
    /\ Due(s) /\ Trouble
    /\ memory' = [memory EXCEPT ![s] = _load_cached(s)]
    /\ Answered(_load_cached(s), TRUE)
    /\ UNCHANGED <<saving, cacheFile>>

_persist(s) ==
    /\ ~Idle(s) /\ saving' = [saving EXCEPT ![s] = None]
    /\ \/ cacheFile' = saving[s] /\ UNCHANGED time
       \/ Trouble /\ UNCHANGED cacheFile
    /\ UNCHANGED <<memory, answer>>

TrafficRestart(s) ==
    /\ Trouble
    /\ memory' = [memory EXCEPT ![s] = None]
    /\ saving' = [saving EXCEPT ![s] = None]
    /\ UNCHANGED <<cacheFile, answer>>

TrafficNext ==
    /\ watched = "traffic"
    /\ \E s \in Services : \/ traffic_for(s) \/ Reread(s) \/ RereadFails(s)
                           \/ _persist(s) \/ TrafficRestart(s)

(* Figures are never shown for longer than the TTL after they were read     *)
(* (metadata.py:119), whichever service read them, whatever restarts and    *)
(* failed writes came between, unless a newer read failed (then the stale   *)
(* ones are kept on purpose) or the clock was set back.                     *)
AnswersAreRecent ==
    answer # None /\ ~answer.failed /\ skew = 0 => answer.age < TrafficTtl
=============================================================================
