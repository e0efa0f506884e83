----------------------------- MODULE WorkLedger -----------------------------
(***************************************************************************)
(* What the control-plane queue promises, without leases, workers or       *)
(* retries.  An event is accepted once, together with the jobs it asks for;*)
(* each job is evaluated at most once; an event is published only when all *)
(* its jobs have been evaluated, and a late failure may withdraw it again. *)
(***************************************************************************)
EXTENDS Naturals

CONSTANTS Policies, Events

VARIABLES
    accepted,       \* events recorded so far
    requested,      \* jobs recorded with them
    evaluations,    \* evaluations[j]: how often job j took durable effect
    published       \* events whose work is announced as done

ledgerVars == <<accepted, requested, evaluations, published>>

Jobs == Policies \X Events

Init ==
    /\ accepted = {}
    /\ requested = {}
    /\ evaluations = [j \in Jobs |-> 0]
    /\ published = {}

\* An event arrives with the jobs of the policies it concerns, possibly none.
Accept(e, ps) ==
    /\ e \notin accepted
    /\ accepted' = accepted \cup {e}
    /\ requested' = requested \cup (ps \X {e})
    /\ UNCHANGED <<evaluations, published>>

Evaluate(j) ==
    /\ j \in requested
    /\ evaluations[j] = 0
    /\ evaluations' = [evaluations EXCEPT ![j] = 1]
    /\ UNCHANGED <<accepted, requested, published>>

Publish(e) ==
    /\ \E j \in requested : j[2] = e
    /\ \A j \in requested : j[2] = e => evaluations[j] = 1
    /\ published' = published \cup {e}
    /\ UNCHANGED <<accepted, requested, evaluations>>

Withdraw(e) ==
    /\ e \in published
    /\ published' = published \ {e}
    /\ UNCHANGED <<accepted, requested, evaluations>>

Next ==
    \/ \E e \in Events, ps \in SUBSET Policies : Accept(e, ps)
    \/ \E j \in Jobs : Evaluate(j)
    \/ \E e \in Events : Publish(e) \/ Withdraw(e)

Spec == Init /\ [][Next]_ledgerVars

=============================================================================
