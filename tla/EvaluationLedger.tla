-------------------------- MODULE EvaluationLedger --------------------------
(***************************************************************************)
(* What the monitor of one hypothesis promises, without processes, locks,  *)
(* failures or retries: a first checkpoint is established, and then        *)
(* evaluations follow one another, each comparing a packet with the        *)
(* checkpoint and leaving it as the next one, once for every event.  The   *)
(* hypothesis shows the state of the newest checkpoint, or that the        *)
(* evidence has become stale.                                              *)
(***************************************************************************)
EXTENDS Naturals, Sequences

CONSTANTS
    Events,
    Packets,
    NoPacket,       \* what there is before the first checkpoint
    StateOf         \* the evidence state of each packet

VARIABLES
    established,    \* the first checkpoint
    checkpoint,     \* the newest one
    log,            \* the evaluations, in order
    shown,          \* the epistemic state of the hypothesis
    path            \* the states it has moved to

ledgerVars == <<established, checkpoint, log, shown, path>>

Init ==
    /\ established = NoPacket
    /\ checkpoint = NoPacket
    /\ log = <<>>
    /\ shown = "untested"
    /\ path = <<>>

Establish ==
    /\ checkpoint = NoPacket
    /\ checkpoint' \in Packets
    /\ established' = checkpoint'
    /\ UNCHANGED <<log, shown, path>>

MoveTo(state) ==
    /\ shown' = state
    /\ path' = IF shown = state THEN path ELSE Append(path, state)

Evaluate(e) ==
    /\ checkpoint # NoPacket
    /\ \A i \in DOMAIN log : log[i].event # e
    /\ checkpoint' \in Packets
    /\ log' = Append(log, [event |-> e, before |-> checkpoint, after |-> checkpoint'])
    /\ MoveTo(StateOf[checkpoint'])
    /\ UNCHANGED established

TurnStale ==
    /\ log # <<>>
    /\ shown # "stale"
    /\ MoveTo("stale")
    /\ UNCHANGED <<established, checkpoint, log>>

Next ==
    \/ Establish
    \/ \E e \in Events : Evaluate(e)
    \/ TurnStale

Spec == Init /\ [][Next]_ledgerVars

=============================================================================
