--------------------------- MODULE CaptureLedger ---------------------------
(***************************************************************************)
(* What the project memory jobs promise, without workers, leases, attempts *)
(* or sweeps: contents are captured once each, a job that was asked for is *)
(* given one outcome and keeps it, and the candidates of a content are     *)
(* claimed by one job.                                                     *)
(***************************************************************************)
CONSTANTS
    Jobs,
    Digests,
    Signals         \* digests whose content forms candidates

VARIABLES
    outcome,        \* of each job: "none", "open" or what it was given
    named,          \* the digest an outcome names, or "none"
    captured        \* the digests captured so far

ledgerVars == <<outcome, named, captured>>

Init ==
    /\ outcome = [j \in Jobs |-> "none"]
    /\ named = [j \in Jobs |-> "none"]
    /\ captured = {}

Ask(j) ==
    /\ outcome[j] = "none"
    /\ outcome' = [outcome EXCEPT ![j] = "open"]
    /\ UNCHANGED <<named, captured>>

Capture(d) ==
    /\ d \notin captured
    /\ captured' = captured \cup {d}
    /\ UNCHANGED <<outcome, named>>

Unclaimed(d) == \A j \in Jobs : ~(outcome[j] = "completed" /\ named[j] = d)

Give(j, d, o) ==
    /\ o = "completed" => d \in Signals /\ Unclaimed(d)
    /\ outcome' = [outcome EXCEPT ![j] = o]
    /\ named' = [named EXCEPT ![j] = d]

\* A job of the schedule reports a content that was captured before.
Report(j, d, o) ==
    /\ outcome[j] = "open"
    /\ d \in captured
    /\ Give(j, d, o)
    /\ UNCHANGED captured

\* A member's scan is asked for, captures and reports at once.
Scan(j, d, o) ==
    /\ outcome[j] = "none"
    /\ o = "completed" => d \notin captured
    /\ Give(j, d, o)
    /\ captured' = captured \cup {d}

Bury(js) ==
    /\ js # {}
    /\ \A j \in js : outcome[j] = "open"
    /\ outcome' = [j \in Jobs |-> IF j \in js THEN "dead-letter" ELSE outcome[j]]
    /\ UNCHANGED <<named, captured>>

Next ==
    \/ \E j \in Jobs : Ask(j)
    \/ \E d \in Digests : Capture(d)
    \/ \E j \in Jobs, d \in Digests, o \in {"completed", "no-signal"} :
        Report(j, d, o) \/ Scan(j, d, o)
    \/ \E js \in SUBSET Jobs : Bury(js)

Spec == Init /\ [][Next]_ledgerVars

=============================================================================
