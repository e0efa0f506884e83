---------------------- MODULE HypothesisMonitorProofs ----------------------
(***************************************************************************)
(* Proofs of HypothesisMonitor's invariants, for any evidence, processes   *)
(* and bounds, and of what ControlPlane makes of them and of the queue's.  *)
(*                                                                         *)
(* Shape types what the processes hold.  Chained is the lock's work: one   *)
(* evaluator compares at a time, with the checkpoint that is still there   *)
(* when it commits.  Path and Shown follow the hypothesis.  Fresh is about *)
(* the packets processes hold: whenever one of them is out of date there   *)
(* is an event that whoever read it committed nothing after, so a run that *)
(* is the only one since its read leaves that event without a run.         *)
(***************************************************************************)
EXTENDS ControlPlane, TLAPS, WellFoundedInduction

Values == Stances \cup {"absent"}
Deltas == [evidence: Evidence, from: Values, to: Values]
RunRows == [event: Events, before: Packets, after: Packets, deltas: SUBSET Deltas,
            late: BOOLEAN]

InEvaluation == {"reading", "assembled", "comparing"}
Holds(w) == process[w].pc \in {"assembled", "comparing"}

Shape ==
    /\ process = [w \in Processes |-> process[w]]
    /\ \A w \in Processes :
        /\ process[w].pc \in InEvaluation =>
            w \in Evaluators /\ process[w].event \in 1..changes
        /\ Holds(w) =>
            /\ process[w].seen \in Packets
            /\ process[w].known \in Nat /\ process[w].known <= Len(runs)
        /\ At(w, "initializing") => process[w].seen \in Packets
    /\ runs \in Seq(RunRows)
    /\ \A i \in DOMAIN runs : runs[i].event \in 1..changes
    \* One catch-up event at most is recorded beside the bounded ones.
    /\ \A w \in Processes : At(w, "catching-up") =>
        /\ checkpoint # NoPacket /\ changes <= MaxEvents
        /\ \A v \in Processes : At(v, "catching-up") => v = w
    /\ checkpoint = NoPacket => changes <= MaxEvents

Chained ==
    /\ \A w \in Processes : At(w, "comparing") =>
        /\ process[w].before = checkpoint /\ checkpoint \in Packets
        /\ \A v \in Processes : At(v, "comparing") => v = w
    /\ runs = <<>> => checkpoint = baseline
    /\ runs # <<>> => checkpoint \in Packets
    /\ CheckpointsChain
    /\ \A i \in DOMAIN runs : runs[i].after = ApplyDeltas(runs[i].before, runs[i].deltas)

Path ==
    /\ transitions \in Seq([from: EpistemicStatus, to: EpistemicStatus, run: Nat])
    /\ \A n \in DOMAIN transitions :
        transitions[n].from = IF n = 1 THEN "untested" ELSE transitions[n - 1].to
    /\ epistemic = IF transitions = <<>> THEN "untested"
                   ELSE transitions[Len(transitions)].to

Shown ==
    /\ due => runs # <<>>
    /\ EpistemicMatchesCheckpoint

\* Event e came with the packet that is current, and no run of it is among the
\* first k: it was recorded after whoever knew k runs read its packet.
Pending(e, k) ==
    /\ e \in 1..changes
    /\ \A i \in DOMAIN runs : runs[i].event = e => i > k /\ runs[i].after = packet
    /\ \A v \in Processes : Holds(v) /\ process[v].event = e => process[v].seen = packet

Fresh ==
    /\ \A w \in Processes :
        Holds(w) /\ process[w].seen # packet => \E e \in Nat : Pending(e, process[w].known)
    /\ runs # <<>> /\ runs[Len(runs)].after # packet /\ ~runs[Len(runs)].late =>
        \E e \in Nat : Pending(e, Len(runs) - 1)
    /\ changes = 0 =>
        /\ \A w \in Processes : At(w, "initializing") => process[w].seen = packet
        /\ checkpoint \in {NoPacket, packet, projectionWithoutPreparedMutation(packet)}

IInv == TypeOK /\ Shape /\ Chained /\ Path /\ Shown /\ Fresh

-----------------------------------------------------------------------------
(* The pure parts *)

LEMMA NoPacketIsNone == NoPacket \notin Packets
    BY MonitorAssumption DEF NoPacket, Packets

\* The deltas of a comparison, applied to what was compared, give what it was
\* compared with.
LEMMA CompareThenApply ==
    ASSUME NEW before \in Packets, NEW after \in Packets
    PROVE  /\ compareSnapshots(before, after) \in SUBSET Deltas
           /\ after = ApplyDeltas(before, compareSnapshots(before, after))
<1> DEFINE deltas == compareSnapshots(before, after)
           D(x) == [evidence |-> x, from |-> before[x], to |-> after[x]]
<1>1. deltas = {D(x) : x \in {y \in Evidence : before[y] # after[y]}}
    BY DEF compareSnapshots
<1>2. \A x \in Evidence : D(x) \in Deltas
    BY DEF Packets, Deltas, Values
<1>3. \A d \in deltas : d.evidence \in Evidence /\ d.to = after[d.evidence]
                        /\ before[d.evidence] # after[d.evidence]
    BY <1>1
<1>4. \A x \in Evidence : before[x] # after[x] => D(x) \in deltas /\ D(x).evidence = x
    BY <1>1
<1>5. \A x \in Evidence : after[x] = ApplyDeltas(before, deltas)[x]
  <2> TAKE x \in Evidence
  <2> HIDE DEF deltas
  <2>1. ApplyDeltas(before, deltas)[x] =
            IF \E d \in deltas : d.evidence = x
            THEN (CHOOSE d \in deltas : d.evidence = x).to ELSE before[x]
    BY DEF ApplyDeltas
  <2>2. CASE \E d \in deltas : d.evidence = x
    <3> DEFINE c == CHOOSE d \in deltas : d.evidence = x
    <3>1. c \in deltas /\ c.evidence = x
      BY <2>2
    <3> QED
      BY <1>3, <2>1, <2>2, <3>1
  <2>3. CASE ~\E d \in deltas : d.evidence = x
    BY <1>4, <2>1, <2>3
  <2> QED
    BY <2>2, <2>3
<1>6. after = [x \in Evidence |-> after[x]]
    BY DEF Packets
<1>7. ApplyDeltas(before, deltas) = [x \in Evidence |-> ApplyDeltas(before, deltas)[x]]
    BY DEF ApplyDeltas
<1> QED
    BY <1>1, <1>2, <1>5, <1>6, <1>7

LEMMA EvidenceStatusType ==
    \A p \in Packets :
        evidenceStatus(p) \in {"insufficient", "supported", "contested", "refuted"}
    BY DEF evidenceStatus

-----------------------------------------------------------------------------
(* What keeps each part *)

LEMMA ProcessUpdate ==
    ASSUME Shape, NEW w \in Processes, NEW row, process' = [process EXCEPT ![w] = row]
    PROVE  /\ process'[w] = row
           /\ \A v \in Processes \ {w} : process'[v] = process[v]
           /\ process' = [v \in Processes |-> process'[v]]
    BY DEF Shape

\* A step that only moves processes, starts no comparison and reads no packet.
LEMMA ChainedKept ==
    ASSUME Chained, UNCHANGED <<baseline, checkpoint, runs>>,
           \A w \in Processes : At(w, "comparing")' =>
               At(w, "comparing") /\ process'[w].before = process[w].before
    PROVE  Chained'
    BY DEF Chained, CheckpointsChain, At

LEMMA ShownKept ==
    ASSUME Shown, UNCHANGED <<due, runs, epistemic, checkpoint>>
    PROVE  Shown'
    BY DEF Shown, EpistemicMatchesCheckpoint

LEMMA PathKept ==
    ASSUME Path, UNCHANGED <<transitions, epistemic>>
    PROVE  Path'
    BY DEF Path

LEMMA FreshKept ==
    ASSUME Fresh, UNCHANGED <<packet, changes, runs, checkpoint>>,
           \A w \in Processes : Holds(w)' =>
               /\ Holds(w) /\ process'[w].event = process[w].event
               /\ process'[w].seen = process[w].seen /\ process'[w].known = process[w].known,
           \A w \in Processes : At(w, "initializing")' =>
               process'[w].seen = packet \/ (At(w, "initializing") /\ process'[w] = process[w])
    PROVE  Fresh'
<1>1. \A e, k \in Nat : Pending(e, k) => Pending(e, k)'
    BY DEF Pending
<1>2. \A w \in Processes :
        (Holds(w) /\ process[w].seen # packet)' => \E e \in Nat : Pending(e, process'[w].known)
    BY DEF Fresh
<1> QED
    BY <1>1, <1>2 DEF Fresh, Pending, At

\* A process goes on, or gives up, without touching the database.
LEMMA ProcessStep ==
    ASSUME IInv, NEW w \in Processes,
           \/ evaluateReadsConfiguration(w)
           \/ evaluateLocksPolicy(w)
           \/ AttemptFails(w)
           \/ AttemptRefused(w)
           \/ initializeAssembles(w)
    PROVE  IInv'
<1>1. TypeOK /\ Shape /\ Chained /\ Path /\ Shown /\ Fresh
    BY DEF IInv
<1>2. UNCHANGED <<packet, changes, baseline, checkpoint, runs, candidate, epistemic,
                  due, transitions, sent, unread>>
    BY DEF evaluateReadsConfiguration, evaluateLocksPolicy, AttemptFails,
           AttemptRefused, initializeAssembles, UnchangedDurable
<1>3. throws' \in 0..MaxThrows
    BY <1>1, MonitorAssumption
       DEF TypeOK, evaluateReadsConfiguration, evaluateLocksPolicy, AttemptFails,
           AttemptRefused, initializeAssembles
<1> DEFINE row == process'[w]
<1>4. /\ \A v \in Processes \ {w} : process'[v] = process[v]
      /\ process' = [v \in Processes |-> process'[v]]
      /\ \/ row.pc = "idle"
         \/ /\ row.pc = "reading" /\ row.event \in 1..changes /\ w \in Evaluators
         \/ /\ row.pc = "comparing" /\ process[w].pc = "assembled"
            /\ row.event = process[w].event /\ row.seen = process[w].seen
            /\ row.known = process[w].known /\ row.before = checkpoint
            /\ ~PolicyLocked /\ checkpoint # NoPacket
         \/ row.pc = "initializing" /\ row.seen = packet
  <2>1. CASE evaluateReadsConfiguration(w)
    <3>1. PICK e \in 1..changes :
            process' = [process EXCEPT ![w] = [pc |-> "reading", event |-> e]]
      BY <2>1 DEF evaluateReadsConfiguration
    <3>2. w \in Evaluators
      BY <2>1 DEF evaluateReadsConfiguration
    <3> QED
      BY <1>1, <3>1, <3>2, ProcessUpdate
  <2>2. CASE evaluateLocksPolicy(w)
    BY <1>1, <2>2, ProcessUpdate DEF evaluateLocksPolicy, At
  <2>3. CASE AttemptFails(w) \/ AttemptRefused(w)
    BY <1>1, <2>3, ProcessUpdate DEF AttemptFails, AttemptRefused, Idle
  <2>4. CASE initializeAssembles(w)
    BY <1>1, <2>4, ProcessUpdate DEF initializeAssembles
  <2> QED
    BY <2>1, <2>2, <2>3, <2>4
<1> HIDE DEF row
<1>0. process'[w] = row
    BY DEF row
<1>5. /\ row.pc \in {"idle", "reading", "comparing", "initializing"}
      /\ \A v \in Processes : Holds(v)' =>
            /\ Holds(v) /\ process'[v].event = process[v].event
            /\ process'[v].seen = process[v].seen /\ process'[v].known = process[v].known
      /\ \A v \in Processes : At(v, "initializing")' =>
            process'[v].seen = packet \/ (At(v, "initializing") /\ process'[v] = process[v])
    BY <1>0, <1>4 DEF Holds, At
<1>6. TypeOK'
  <2>1. \A v \in Processes : process'[v].pc \in
            {"idle", "reading", "assembled", "comparing", "initializing", "catching-up"}
    BY <1>0, <1>1, <1>4, <1>5 DEF TypeOK
  <2> QED
    BY <1>1, <1>2, <1>3, <2>1 DEF TypeOK
<1>7. Shape'
  <2>1. ASSUME NEW v \in Processes
        PROVE  /\ process'[v].pc \in InEvaluation =>
                    v \in Evaluators /\ process'[v].event \in 1..changes
               /\ Holds(v)' =>
                    /\ process'[v].seen \in Packets
                    /\ process'[v].known \in Nat /\ process'[v].known <= Len(runs)
               /\ At(v, "initializing")' => process'[v].seen \in Packets
               /\ At(v, "catching-up")' => At(v, "catching-up")
    <3>1. packet \in Packets
      BY <1>1 DEF TypeOK
    <3>2. CASE v = w
      BY <1>0, <1>1, <1>4, <1>5, <3>1, <3>2 DEF Shape, InEvaluation, Holds, At
    <3>3. CASE v # w
      BY <1>1, <1>4, <3>3 DEF Shape, InEvaluation, Holds, At
    <3> QED
      BY <3>2, <3>3
  <2> QED
    BY <1>1, <1>2, <1>4, <2>1 DEF Shape, At
<1>8. Chained'
  <2>1. CASE row.pc = "comparing"
    <3>1. \A v \in Processes : ~At(v, "comparing")
      BY <1>4, <2>1 DEF PolicyLocked
    <3>2. row.before = checkpoint /\ checkpoint \in Packets
      BY <1>1, <1>4, <2>1 DEF TypeOK
    <3>3. \A v \in Processes : At(v, "comparing")' => v = w
      BY <1>4, <3>1 DEF At
    <3> QED
      BY <1>0, <1>1, <1>2, <3>2, <3>3 DEF Chained, CheckpointsChain
  <2>2. CASE row.pc # "comparing"
    <3>1. \A v \in Processes : At(v, "comparing")' =>
            At(v, "comparing") /\ process'[v].before = process[v].before
      BY <1>0, <1>4, <2>2 DEF At
    <3> QED
      BY <1>1, <1>2, <3>1, ChainedKept
  <2> QED
    BY <2>1, <2>2
<1>9. Fresh'
    BY <1>1, <1>2, <1>5, FreshKept
<1>10. Path' /\ Shown'
    BY <1>1, <1>2, PathKept, ShownKept
<1> QED
    BY <1>6, <1>7, <1>8, <1>9, <1>10 DEF IInv

\* The packet is read: it is current, and all runs so far are known.
LEMMA AssembleStep ==
    ASSUME IInv, NEW w \in Processes, assembleContext(w)
    PROVE  IInv'
<1> DEFINE row == [pc |-> "assembled", event |-> process[w].event, seen |-> packet,
                   known |-> Len(runs)]
<1>1. TypeOK /\ Shape /\ Chained /\ Path /\ Shown /\ Fresh
    BY DEF IInv
<1>2. /\ UNCHANGED <<packet, changes, baseline, checkpoint, runs, candidate, epistemic,
                     due, transitions, sent, unread, throws>>
      /\ process[w].pc = "reading" /\ process' = [process EXCEPT ![w] = row]
    BY DEF assembleContext, UnchangedDurable, At
<1>3. /\ process'[w] = row
      /\ \A v \in Processes \ {w} : process'[v] = process[v]
      /\ process' = [v \in Processes |-> process'[v]]
    BY <1>1, <1>2, ProcessUpdate
<1>4. /\ row.pc = "assembled" /\ row.event = process[w].event /\ row.seen = packet
      /\ row.known = Len(runs) /\ packet \in Packets /\ Len(runs) \in Nat
      /\ w \in Evaluators /\ process[w].event \in 1..changes
    BY <1>1, <1>2 DEF TypeOK, Shape, InEvaluation
<1> HIDE DEF row
<1>5. TypeOK'
    BY <1>1, <1>2, <1>3, <1>4 DEF TypeOK
<1>6. Shape'
  <2>1. ASSUME NEW v \in Processes
        PROVE  /\ process'[v].pc \in InEvaluation =>
                    v \in Evaluators /\ process'[v].event \in 1..changes
               /\ Holds(v)' =>
                    /\ process'[v].seen \in Packets
                    /\ process'[v].known \in Nat /\ process'[v].known <= Len(runs)
               /\ At(v, "initializing")' => process'[v].seen \in Packets
               /\ At(v, "catching-up")' => At(v, "catching-up")
    <3>1. CASE v = w
      BY <1>3, <1>4, <3>1 DEF Holds, At
    <3>2. CASE v # w
      BY <1>1, <1>3, <3>2 DEF Shape, InEvaluation, Holds, At
    <3> QED
      BY <3>1, <3>2
  <2> QED
    BY <1>1, <1>2, <1>3, <2>1 DEF Shape, At
<1>7. Chained'
  <2>1. \A v \in Processes : At(v, "comparing")' =>
            At(v, "comparing") /\ process'[v].before = process[v].before
    BY <1>3, <1>4 DEF At
  <2> QED
    BY <1>1, <1>2, <2>1, ChainedKept
<1>8. Fresh'
  <2>1. \A e, k \in Nat : Pending(e, k) => Pending(e, k)'
    BY <1>2, <1>3, <1>4 DEF Pending, Holds
  <2>2. ASSUME NEW v \in Processes, Holds(v)', process'[v].seen # packet
        PROVE  (\E e \in Nat : Pending(e, process[v].known))'
    <3>1. v # w
      BY <1>3, <1>4, <2>2
    <3>2. /\ Holds(v) /\ process[v].seen # packet /\ process'[v].known = process[v].known
          /\ process[v].known \in Nat
      BY <1>1, <1>3, <2>2, <3>1 DEF Holds, Shape
    <3>3. PICK k \in Nat : k = process[v].known
      BY <3>2
    <3>4. PICK e \in Nat : Pending(e, k)
      BY <1>1, <3>2, <3>3 DEF Fresh
    <3>5. Pending(e, k)' /\ process'[v].known = k
      BY <2>1, <3>2, <3>3, <3>4
    <3> QED
      BY <3>5 DEF Pending
  <2>3. ASSUME runs # <<>>, runs[Len(runs)].after # packet, ~runs[Len(runs)].late
        PROVE  (\E e \in Nat : Pending(e, Len(runs) - 1))'
    <3>1. PICK k \in Nat : k = Len(runs) - 1
      BY <1>1, <2>3 DEF Shape
    <3>2. PICK e \in Nat : Pending(e, k)
      BY <1>1, <2>3, <3>1 DEF Fresh
    <3>3. Pending(e, k)'
      BY <2>1, <3>2
    <3> QED
      BY <1>2, <3>1, <3>3 DEF Pending
  <2>4. \A v \in Processes : At(v, "initializing")' =>
            At(v, "initializing") /\ process'[v] = process[v]
    BY <1>3, <1>4 DEF At
  <2> QED
    BY <1>1, <1>2, <2>2, <2>3, <2>4 DEF Fresh, At
<1>9. Path' /\ Shown'
    BY <1>1, <1>2, PathKept, ShownKept
<1> QED
    BY <1>5, <1>6, <1>7, <1>8, <1>9 DEF IInv

\* A change of the sources makes an event nobody has taken: it is the witness
\* for every packet and every run that is now out of date.
LEMMA SourceStep ==
    ASSUME IInv, SourceChanges
    PROVE  IInv'
<1>1. TypeOK /\ Shape /\ Chained /\ Path /\ Shown /\ Fresh
    BY DEF IInv
<1>0. PICK e \in Nat : e = changes + 1
    BY <1>1 DEF TypeOK
<1>2. /\ changes < MaxEvents /\ changes' = e
      /\ UNCHANGED <<process, baseline, checkpoint, runs, candidate, epistemic, due,
                     transitions, sent, unread, throws>>
    BY <1>0 DEF SourceChanges
<1>3. packet' \in Packets
  <2>1. PICK x \in Evidence, v \in Stances \cup {"absent"} :
            packet' = [packet EXCEPT ![x] = v]
    BY DEF SourceChanges
  <2> QED
    BY <1>1, <2>1 DEF TypeOK, Packets
<1>4. changes \in Nat /\ e \in Nat /\ e \in 0..(MaxEvents + 1) /\ e <= MaxEvents
    BY <1>0, <1>1, <1>2, MonitorAssumption DEF TypeOK
<1>5. TypeOK'
    BY <1>1, <1>2, <1>3, <1>4 DEF TypeOK, At
<1>6. \A x \in 1..changes : x \in 1..e /\ x # e
    BY <1>0, <1>4
<1>7. Shape'
    BY <1>1, <1>2, <1>4, <1>6 DEF Shape, Holds, At
<1>8. Chained'
    BY <1>1, <1>2, ChainedKept DEF At
<1>9. Fresh'
  <2>1. \A k \in Nat : Pending(e, k)'
    <3>1. \A i \in DOMAIN runs : runs[i].event # e
      BY <1>1, <1>6 DEF Shape
    <3>2. \A v \in Processes : Holds(v) => process[v].event # e
      BY <1>1, <1>6 DEF Shape, Holds, InEvaluation
    <3>3. \A v \in Processes : Holds(v)' => process'[v].event # e
      BY <1>2, <3>2 DEF Holds
    <3>4. /\ e \in 1..changes' /\ runs' = runs
      BY <1>0, <1>2, <1>4
    <3> QED
      BY <3>1, <3>3, <3>4 DEF Pending
  <2>2. /\ \A v \in Processes : Holds(v) => process[v].known \in Nat
        /\ runs # <<>> => Len(runs) - 1 \in Nat
    BY <1>1 DEF Shape
  <2>3. changes' # 0
    BY <1>0, <1>2, <1>4
  <2> QED
    BY <1>2, <1>4, <2>1, <2>2, <2>3 DEF Fresh, Holds
<1>10. Path' /\ Shown'
    BY <1>1, <1>2, PathKept, ShownKept
<1> QED
    BY <1>5, <1>7, <1>8, <1>9, <1>10 DEF IInv

\* The transition a run or a staleness scan appends goes on from the last one.
LEMMA PathExtended ==
    ASSUME Path, epistemic \in EpistemicStatus,
           NEW shown \in EpistemicStatus, NEW run \in Nat, epistemic' = shown,
           \/ transitions' = transitions /\ epistemic = shown
           \/ transitions' = Append(transitions,
                [from |-> epistemic, to |-> shown, run |-> run])
    PROVE  Path'
<1> DEFINE row == [from |-> epistemic, to |-> shown, run |-> run]
           L == Len(transitions)
           Rows == [from: EpistemicStatus, to: EpistemicStatus, run: Nat]
<1>1. CASE transitions' = transitions /\ epistemic = shown
    BY <1>1 DEF Path
<1>2. CASE transitions' = Append(transitions, row)
  <2>1. L \in Nat /\ transitions \in Seq(Rows)
    BY DEF Path
  <2>3. row \in Rows /\ row.from = epistemic /\ row.to = shown
    OBVIOUS
  <2> HIDE DEF row
  <2>4. /\ transitions' \in Seq(Rows) /\ Len(transitions') = L + 1
        /\ DOMAIN transitions' = 1..(L + 1) /\ transitions'[L + 1] = row
        /\ \A n \in 1..L : transitions'[n] = transitions[n]
    BY <1>2, <2>1, <2>3
  <2>5. ASSUME NEW n \in 1..(L + 1)
        PROVE  transitions'[n].from = IF n = 1 THEN "untested" ELSE transitions'[n - 1].to
    <3>1. CASE n = L + 1
      <4>1. CASE L = 0
        BY <2>1, <2>3, <2>4, <3>1, <4>1 DEF Path
      <4>2. CASE L # 0
        <5>1. L \in 1..L /\ n # 1 /\ n - 1 = L /\ transitions # <<>>
          BY <2>1, <3>1, <4>2
        <5> QED
          BY <2>3, <2>4, <3>1, <5>1 DEF Path
      <4> QED
        BY <4>1, <4>2
    <3>2. CASE n \in 1..L
      <4>1. n = 1 \/ n - 1 \in 1..L
        BY <2>1, <3>2
      <4>2. transitions[n].from = IF n = 1 THEN "untested" ELSE transitions[n - 1].to
        BY <2>1, <3>2 DEF Path
      <4>3. /\ transitions'[n] = transitions[n]
            /\ n # 1 => transitions'[n - 1] = transitions[n - 1]
        BY <2>4, <3>2, <4>1
      <4> QED
        BY <4>2, <4>3
    <3> QED
      BY <2>1, <3>1, <3>2
  <2>6. epistemic' = transitions'[Len(transitions')].to /\ transitions' # <<>>
    BY <2>1, <2>3, <2>4
  <2> QED
    BY <2>4, <2>5, <2>6 DEF Path
<1> QED
    BY <1>1, <1>2

\* The commit of a run: it compared with the checkpoint that is still there.
LEMMA CommitStep ==
    ASSUME IInv, NEW w \in Processes, evaluateCommitsRun(w)
    PROVE  IInv'
<1> DEFINE e == process[w].event
           seen == process[w].seen
           before == process[w].before
           deltas == compareSnapshots(before, seen)
           late == process[w].known # Len(runs)
           row == [event |-> e, before |-> before, after |-> seen, deltas |-> deltas,
                   late |-> late]
           L == Len(runs)
<1>1. TypeOK /\ Shape /\ Chained /\ Path /\ Shown /\ Fresh
    BY DEF IInv
<1>2. /\ process[w].pc = "comparing" /\ ~Evaluated(e)
      /\ runs' = Append(runs, row) /\ checkpoint' = seen
      /\ process' = [process EXCEPT ![w] = Idle]
      /\ UNCHANGED <<packet, changes, baseline, throws>>
      /\ epistemic' = evidenceStatus(seen) /\ due' = FALSE
      /\ \/ transitions' = transitions /\ epistemic = evidenceStatus(seen)
         \/ transitions' = Append(transitions,
                [from |-> epistemic, to |-> evidenceStatus(seen), run |-> e])
    BY DEF evaluateCommitsRun, recordHypothesisEvaluation, At
<1>3. /\ w \in Evaluators /\ e \in 1..changes /\ changes \in 0..(MaxEvents + 1)
      /\ seen \in Packets /\ before = checkpoint /\ before \in Packets
      /\ process[w].known \in Nat /\ process[w].known <= L
    BY <1>1, <1>2 DEF TypeOK, Shape, InEvaluation, Holds, Chained, At
<1>4. e \in Events /\ e \in Nat
    BY <1>3, MonitorAssumption DEF Events
<1>5. /\ process'[w] = Idle
      /\ \A v \in Processes \ {w} : process'[v] = process[v]
      /\ process' = [v \in Processes |-> process'[v]]
    BY <1>1, <1>2, ProcessUpdate
<1>6. /\ deltas \in SUBSET Deltas /\ seen = ApplyDeltas(before, deltas)
    BY <1>3, CompareThenApply
<1>7. /\ row \in RunRows /\ row.event = e /\ row.before = before /\ row.after = seen
      /\ row.deltas = deltas /\ row.late = late
  <2> HIDE DEF deltas, late
  <2>1. late \in BOOLEAN
    BY DEF late
  <2> QED
    BY <1>3, <1>4, <1>6, <2>1 DEF RunRows
<1> HIDE DEF row, deltas
<1>8. /\ L \in Nat /\ runs' \in Seq(RunRows) /\ Len(runs') = L + 1
      /\ DOMAIN runs' = 1..(L + 1) /\ runs'[L + 1] = row /\ runs' # <<>>
      /\ DOMAIN runs = 1..L
      /\ \A i \in 1..L : runs'[i] = runs[i]
    BY <1>1, <1>2, <1>7 DEF Shape
<1>9. TypeOK'
  <2>1. evidenceStatus(seen) \in EpistemicStatus
    BY <1>3, EvidenceStatusType DEF EpistemicStatus
  <2>2. \A v \in Processes : process'[v].pc \in
            {"idle", "reading", "assembled", "comparing", "initializing", "catching-up"}
    BY <1>1, <1>5 DEF TypeOK, Idle
  <2>3. candidate' \in [Candidates -> {"none", "proposed", "accepted", "dismissed"}]
    BY <1>1 DEF TypeOK, evaluateCommitsRun
  <2>4. unread' \subseteq sent'
    BY <1>1 DEF TypeOK, evaluateCommitsRun, Notify
  <2>5. UNCHANGED <<packet, changes, baseline, throws>> /\ checkpoint' \in Packets
    BY <1>2, <1>3
  <2> QED
    BY <1>1, <1>2, <2>1, <2>2, <2>3, <2>4, <2>5 DEF TypeOK
<1>10. Shape'
  <2>1. ASSUME NEW v \in Processes
        PROVE  /\ process'[v].pc \in InEvaluation =>
                    v \in Evaluators /\ process'[v].event \in 1..changes
               /\ Holds(v)' =>
                    /\ process'[v].seen \in Packets
                    /\ process'[v].known \in Nat /\ process'[v].known <= Len(runs')
               /\ At(v, "initializing")' => process'[v].seen \in Packets
               /\ At(v, "catching-up")' => At(v, "catching-up")
    <3>1. CASE v = w
      BY <1>5, <3>1 DEF Holds, At, InEvaluation, Idle
    <3>2. CASE v # w
      BY <1>1, <1>5, <1>8, <3>2 DEF Shape, InEvaluation, Holds, At
    <3> QED
      BY <3>1, <3>2
  <2>2. \A i \in DOMAIN runs' : runs'[i].event \in 1..changes
    BY <1>1, <1>3, <1>7, <1>8 DEF Shape
  <2>3. checkpoint' # NoPacket
    BY <1>2, <1>3, NoPacketIsNone
  <2> QED
    BY <1>1, <1>2, <1>5, <1>8, <2>1, <2>2, <2>3 DEF Shape, At
<1>11. Chained'
  <2>1. \A v \in Processes : ~At(v, "comparing")'
    BY <1>1, <1>2, <1>5 DEF Chained, At, Idle
  <2>2. ASSUME NEW i \in 1..(L + 1)
        PROVE  /\ runs'[i].before = IF i = 1 THEN baseline ELSE runs'[i - 1].after
               /\ i = L + 1 => checkpoint' = runs'[i].after
               /\ runs'[i].after = ApplyDeltas(runs'[i].before, runs'[i].deltas)
    <3>1. CASE i = L + 1
      <4>1. CASE L = 0
        BY <1>1, <1>2, <1>3, <1>6, <1>7, <1>8, <3>1, <4>1 DEF Chained
      <4>2. CASE L # 0
        <5>1. L \in 1..L /\ i # 1 /\ i - 1 = L /\ runs # <<>>
          BY <1>8, <3>1, <4>2
        <5>2. checkpoint = runs[L].after
          BY <1>1, <1>8, <5>1 DEF Chained, CheckpointsChain
        <5> QED
          BY <1>2, <1>3, <1>6, <1>7, <1>8, <3>1, <5>1, <5>2
      <4> QED
        BY <4>1, <4>2
    <3>2. CASE i \in 1..L
      <4>1. i # L + 1 /\ (i = 1 \/ i - 1 \in 1..L)
        BY <1>8, <3>2
      <4> QED
        BY <1>1, <1>8, <3>2, <4>1 DEF Chained, CheckpointsChain
    <3> QED
      BY <1>8, <3>1, <3>2
  <2> QED
    BY <1>2, <1>3, <1>8, <2>1, <2>2 DEF Chained, CheckpointsChain
<1>12. Path'
  <2>1. epistemic \in EpistemicStatus /\ evidenceStatus(seen) \in EpistemicStatus
    BY <1>1, <1>3, EvidenceStatusType DEF TypeOK, EpistemicStatus
  <2> QED
    BY <1>1, <1>2, <1>4, <2>1, PathExtended
<1>13. Shown'
    BY <1>2, <1>8 DEF Shown, EpistemicMatchesCheckpoint
<1>14. Fresh'
  <2>1. ASSUME NEW f \in Nat, NEW k \in Nat, Pending(f, k), k <= L
        PROVE  Pending(f, k)'
    <3>1. ASSUME NEW i \in DOMAIN runs', runs'[i].event = f
          PROVE  i > k /\ runs'[i].after = packet
      <4>1. CASE i = L + 1
        BY <1>2, <1>7, <1>8, <2>1, <3>1, <4>1 DEF Pending, Holds
      <4>2. CASE i \in 1..L
        BY <1>8, <2>1, <3>1, <4>2 DEF Pending
      <4> QED
        BY <1>8, <4>1, <4>2
    <3>2. \A v \in Processes : Holds(v)' => Holds(v) /\ process'[v] = process[v]
      BY <1>5 DEF Holds, Idle
    <3> QED
      BY <1>2, <2>1, <3>1, <3>2 DEF Pending
  <2>2. ASSUME NEW v \in Processes, Holds(v)', process'[v].seen # packet
        PROVE  (\E f \in Nat : Pending(f, process[v].known))'
    <3>1. /\ v # w /\ Holds(v) /\ process'[v] = process[v]
          /\ process[v].known \in Nat /\ process[v].known <= L
      BY <1>1, <1>5, <2>2 DEF Holds, Idle, Shape
    <3>2. PICK k \in Nat : k = process[v].known
      BY <3>1
    <3>3. PICK f \in Nat : Pending(f, k)
      BY <1>1, <2>2, <3>1, <3>2 DEF Fresh
    <3>4. Pending(f, k)' /\ process'[v].known = k
      BY <2>1, <3>1, <3>2, <3>3
    <3> QED
      BY <3>4 DEF Pending
  <2>3. ASSUME seen # packet, ~late
        PROVE  (\E f \in Nat : Pending(f, Len(runs) - 1))'
    <3>1. PICK k \in Nat : k = L
      BY <1>8
    <3>2. process[w].known = k
      BY <2>3, <3>1
    <3>3. PICK f \in Nat : Pending(f, k)
      BY <1>1, <1>2, <2>3, <3>2 DEF Fresh, Holds
    <3>4. Pending(f, k)' /\ Len(runs') - 1 = k
      BY <1>8, <2>1, <3>1, <3>3
    <3> QED
      BY <3>4 DEF Pending
  <2>4. changes # 0
    BY <1>3
  <2> QED
    BY <1>2, <1>7, <1>8, <2>2, <2>3, <2>4 DEF Fresh
<1> QED
    BY <1>9, <1>10, <1>11, <1>12, <1>13, <1>14 DEF IInv

\* Only a policy without a checkpoint, hence without runs, gets a baseline.
LEMMA InitializeStep ==
    ASSUME IInv, NEW w \in Processes, initializeCommits(w)
    PROVE  IInv'
<1> DEFINE seen == process[w].seen
           first == IF CatchUp THEN projectionWithoutPreparedMutation(seen) ELSE seen
           created == checkpoint = NoPacket /\ first # seen
           row == IF created THEN [pc |-> "catching-up"] ELSE Idle
<1>1. TypeOK /\ Shape /\ Chained /\ Path /\ Shown /\ Fresh
    BY DEF IInv
<1>2. /\ process[w].pc = "initializing" /\ ~PolicyLocked
      /\ IF checkpoint = NoPacket THEN baseline' = first /\ checkpoint' = first
         ELSE UNCHANGED <<baseline, checkpoint>>
      /\ process' = [process EXCEPT ![w] = row]
      /\ UNCHANGED <<packet, changes, runs, candidate, epistemic, due, transitions, throws>>
    BY DEF initializeCommits, At
<1>3. seen \in Packets /\ first \in Packets
  <2>1. seen \in Packets
    BY <1>1, <1>2 DEF Shape, At
  <2> QED
    BY <2>1, MonitorAssumption DEF projectionWithoutPreparedMutation, Packets
<1>4. /\ process'[w] = row
      /\ \A v \in Processes \ {w} : process'[v] = process[v]
      /\ process' = [v \in Processes |-> process'[v]]
    BY <1>1, <1>2, ProcessUpdate
<1>5. /\ row.pc \in {"idle", "catching-up"}
      /\ row.pc = "catching-up" => checkpoint = NoPacket
    BY DEF Idle
<1>6. checkpoint' \in Packets \cup {NoPacket} /\ checkpoint' # NoPacket
    BY <1>1, <1>2, <1>3, NoPacketIsNone DEF TypeOK
<1> HIDE DEF row, first
<1>7. TypeOK'
  <2>1. unread' \subseteq sent'
    BY <1>1 DEF TypeOK, initializeCommits, Notify
  <2>2. baseline' \in Packets \cup {NoPacket}
    BY <1>1, <1>2, <1>3 DEF TypeOK
  <2>3. \A v \in Processes : process'[v].pc \in
            {"idle", "reading", "assembled", "comparing", "initializing", "catching-up"}
    BY <1>1, <1>4, <1>5 DEF TypeOK
  <2> QED
    BY <1>1, <1>2, <1>6, <2>1, <2>2, <2>3 DEF TypeOK
<1>8. Shape'
  <2>1. ASSUME NEW v \in Processes
        PROVE  /\ process'[v].pc \in InEvaluation =>
                    v \in Evaluators /\ process'[v].event \in 1..changes
               /\ Holds(v)' =>
                    /\ process'[v].seen \in Packets
                    /\ process'[v].known \in Nat /\ process'[v].known <= Len(runs)
               /\ At(v, "initializing")' => process'[v].seen \in Packets
    <3>1. CASE v = w
      BY <1>4, <1>5, <3>1 DEF Holds, At, InEvaluation
    <3>2. CASE v # w
      BY <1>1, <1>4, <3>2 DEF Shape, InEvaluation, Holds, At
    <3> QED
      BY <3>1, <3>2
  <2>2. ASSUME NEW v \in Processes, At(v, "catching-up")'
        PROVE  /\ changes <= MaxEvents
               /\ \A u \in Processes : At(u, "catching-up")' => u = v
    <3>1. CASE checkpoint = NoPacket
      BY <1>1, <1>4, <2>2, <3>1 DEF Shape, At
    <3>2. CASE checkpoint # NoPacket
      BY <1>1, <1>4, <1>5, <2>2, <3>2 DEF Shape, At
    <3> QED
      BY <3>1, <3>2
  <2> QED
    BY <1>1, <1>2, <1>4, <1>6, <2>1, <2>2 DEF Shape
<1>9. Chained'
  <2>1. \A v \in Processes : ~At(v, "comparing")'
    BY <1>2, <1>4, <1>5 DEF PolicyLocked, At
  <2>2. CASE checkpoint = NoPacket
    <3>1. runs = <<>>
      BY <1>1, <2>2, NoPacketIsNone DEF Chained
    <3> QED
      BY <1>1, <1>2, <1>3, <2>1, <2>2, <3>1 DEF Chained, CheckpointsChain
  <2>3. CASE checkpoint # NoPacket
    BY <1>1, <1>2, <2>1, <2>3 DEF Chained, CheckpointsChain
  <2> QED
    BY <2>2, <2>3
<1>10. Path'
    BY <1>1, <1>2, PathKept
<1>11. Shown'
  <2>1. CASE checkpoint = NoPacket
    BY <1>1, <1>2, <2>1, NoPacketIsNone DEF Chained, Shown, EpistemicMatchesCheckpoint
  <2>2. CASE checkpoint # NoPacket
    BY <1>1, <1>2, <2>2 DEF Shown, EpistemicMatchesCheckpoint
  <2> QED
    BY <2>1, <2>2
<1>12. Fresh'
  <2>1. \A e, k \in Nat : Pending(e, k) => Pending(e, k)'
    BY <1>2, <1>4, <1>5 DEF Pending, Holds
  <2>2. ASSUME NEW v \in Processes, Holds(v)', process'[v].seen # packet
        PROVE  (\E e \in Nat : Pending(e, process[v].known))'
    <3>1. v # w
      BY <1>4, <1>5, <2>2 DEF Holds
    <3>2. /\ Holds(v) /\ process[v].seen # packet /\ process'[v].known = process[v].known
          /\ process[v].known \in Nat
      BY <1>1, <1>4, <2>2, <3>1 DEF Holds, Shape
    <3>3. PICK k \in Nat : k = process[v].known
      BY <3>2
    <3>4. PICK e \in Nat : Pending(e, k)
      BY <1>1, <3>2, <3>3 DEF Fresh
    <3>5. Pending(e, k)' /\ process'[v].known = k
      BY <2>1, <3>2, <3>3, <3>4
    <3> QED
      BY <3>5 DEF Pending
  <2>3. ASSUME runs # <<>>, runs[Len(runs)].after # packet, ~runs[Len(runs)].late
        PROVE  (\E e \in Nat : Pending(e, Len(runs) - 1))'
    <3>1. PICK k \in Nat : k = Len(runs) - 1
      BY <1>1, <2>3 DEF Shape
    <3>2. PICK e \in Nat : Pending(e, k)
      BY <1>1, <2>3, <3>1 DEF Fresh
    <3>3. Pending(e, k)'
      BY <2>1, <3>2
    <3> QED
      BY <1>2, <3>1, <3>3 DEF Pending
  <2>4. ASSUME changes = 0
        PROVE  /\ \A v \in Processes : At(v, "initializing")' => process'[v].seen = packet
               /\ checkpoint' \in {NoPacket, packet, projectionWithoutPreparedMutation(packet)}
    <3>1. \A v \in Processes : At(v, "initializing") => process[v].seen = packet
      BY <1>1, <2>4 DEF Fresh
    <3>2. \A v \in Processes : At(v, "initializing")' => process'[v].seen = packet
      BY <1>4, <1>5, <3>1 DEF At
    <3>3. first \in {packet, projectionWithoutPreparedMutation(packet)}
      BY <1>2, <3>1 DEF At, first
    <3> QED
      BY <1>1, <1>2, <2>4, <3>2, <3>3 DEF Fresh
  <2> QED
    BY <1>2, <2>2, <2>3, <2>4 DEF Fresh
<1> QED
    BY <1>7, <1>8, <1>9, <1>10, <1>11, <1>12 DEF IInv

\* The bootstrap's catch-up event uses the one number the bound left it.
LEMMA CatchUpStep ==
    ASSUME IInv, NEW w \in Processes, recordAndEvaluateSourceChange(w)
    PROVE  IInv'
<1>1. TypeOK /\ Shape /\ Chained /\ Path /\ Shown /\ Fresh
    BY DEF IInv
<1>0. PICK e \in Nat : e = changes + 1
    BY <1>1 DEF TypeOK
<1>2. /\ At(w, "catching-up") /\ changes' = e
      /\ process' = [process EXCEPT ![w] = Idle]
      /\ UNCHANGED <<packet, baseline, checkpoint, runs, candidate, epistemic, due,
                     transitions, throws>>
    BY <1>0 DEF recordAndEvaluateSourceChange
<1>3. /\ process'[w] = Idle
      /\ \A v \in Processes \ {w} : process'[v] = process[v]
      /\ process' = [v \in Processes |-> process'[v]]
    BY <1>1, <1>2, ProcessUpdate
<1>4. /\ changes <= MaxEvents /\ checkpoint # NoPacket /\ changes \in Nat
      /\ e \in 0..(MaxEvents + 1) /\ e # 0
      /\ \A v \in Processes : At(v, "catching-up") => v = w
    BY <1>0, <1>1, <1>2, MonitorAssumption DEF Shape, TypeOK
<1>5. \A x \in 1..changes : x \in 1..e
    BY <1>0, <1>4
<1>6. \A v \in Processes :
        /\ Holds(v)' => Holds(v) /\ process'[v] = process[v]
        /\ ~At(v, "catching-up")'
    BY <1>3, <1>4 DEF Holds, At, Idle
<1>7. TypeOK'
  <2>1. unread' \subseteq sent'
    BY <1>1 DEF TypeOK, recordAndEvaluateSourceChange, Notify
  <2>2. \A v \in Processes : process'[v].pc \in
            {"idle", "reading", "assembled", "comparing", "initializing", "catching-up"}
    BY <1>1, <1>3 DEF TypeOK, Idle
  <2> QED
    BY <1>1, <1>2, <1>4, <2>1, <2>2 DEF TypeOK
<1>8. Shape'
  <2>1. ASSUME NEW v \in Processes
        PROVE  /\ process'[v].pc \in InEvaluation =>
                    v \in Evaluators /\ process'[v].event \in 1..e
               /\ Holds(v)' =>
                    /\ process'[v].seen \in Packets
                    /\ process'[v].known \in Nat /\ process'[v].known <= Len(runs)
               /\ At(v, "initializing")' => process'[v].seen \in Packets
    <3>1. CASE v = w
      BY <1>3, <3>1 DEF Holds, At, InEvaluation, Idle
    <3>2. CASE v # w
      BY <1>1, <1>3, <1>5, <3>2 DEF Shape, InEvaluation, Holds, At
    <3> QED
      BY <3>1, <3>2
  <2>2. \A i \in DOMAIN runs : runs[i].event \in 1..e
    BY <1>1, <1>5 DEF Shape
  <2> QED
    BY <1>1, <1>2, <1>3, <1>4, <1>6, <2>1, <2>2 DEF Shape
<1>9. Chained'
  <2>1. \A v \in Processes : At(v, "comparing")' =>
            At(v, "comparing") /\ process'[v].before = process[v].before
    BY <1>3 DEF At, Idle
  <2> QED
    BY <1>1, <1>2, <2>1, ChainedKept
<1>10. Fresh'
  <2>1. \A f, k \in Nat : Pending(f, k) => Pending(f, k)'
    BY <1>2, <1>5, <1>6 DEF Pending
  <2>2. ASSUME NEW v \in Processes, Holds(v)', process'[v].seen # packet
        PROVE  (\E f \in Nat : Pending(f, process[v].known))'
    <3>1. /\ Holds(v) /\ process'[v] = process[v] /\ process[v].known \in Nat
      BY <1>1, <1>6, <2>2 DEF Shape
    <3>2. PICK k \in Nat : k = process[v].known
      BY <3>1
    <3>3. PICK f \in Nat : Pending(f, k)
      BY <1>1, <2>2, <3>1, <3>2 DEF Fresh
    <3>4. Pending(f, k)' /\ process'[v].known = k
      BY <2>1, <3>1, <3>2, <3>3
    <3> QED
      BY <3>4 DEF Pending
  <2>3. ASSUME runs # <<>>, runs[Len(runs)].after # packet, ~runs[Len(runs)].late
        PROVE  (\E f \in Nat : Pending(f, Len(runs) - 1))'
    <3>1. PICK k \in Nat : k = Len(runs) - 1
      BY <1>1, <2>3 DEF Shape
    <3>2. PICK f \in Nat : Pending(f, k)
      BY <1>1, <2>3, <3>1 DEF Fresh
    <3>3. Pending(f, k)'
      BY <2>1, <3>2
    <3> QED
      BY <1>2, <3>1, <3>3 DEF Pending
  <2> QED
    BY <1>2, <1>4, <2>2, <2>3 DEF Fresh
<1>11. Path' /\ Shown'
    BY <1>1, <1>2, PathKept, ShownKept
<1> QED
    BY <1>7, <1>8, <1>9, <1>10, <1>11 DEF IInv

\* Time, the staleness scan and the human review leave processes and runs alone.
LEMMA Elsewhere ==
    ASSUME IInv, UNCHANGED <<packet, changes, process, baseline, checkpoint, runs>>
    PROVE  Shape' /\ Chained' /\ Fresh'
<1>1. Shape /\ Chained /\ Fresh
    BY DEF IInv
<1>2. Shape'
    BY <1>1 DEF Shape, Holds, At
<1>3. Chained'
    BY <1>1, ChainedKept DEF At
<1>4. Fresh'
    BY <1>1, FreshKept DEF Holds, At
<1> QED
    BY <1>2, <1>3, <1>4

LEMMA WindowStep ==
    ASSUME IInv, WindowPasses
    PROVE  IInv'
<1>1. Shape' /\ Chained' /\ Fresh'
    BY Elsewhere DEF WindowPasses
<1>2. TypeOK'
    BY DEF IInv, TypeOK, WindowPasses
<1>3. Path'
    BY PathKept DEF IInv, WindowPasses
<1>4. Shown'
    BY DEF IInv, Shown, EpistemicMatchesCheckpoint, WindowPasses
<1> QED
    BY <1>1, <1>2, <1>3, <1>4 DEF IInv

LEMMA StaleStep ==
    ASSUME IInv, markStaleHypotheses
    PROVE  IInv'
<1>1. Shape' /\ Chained' /\ Fresh'
    BY Elsewhere DEF markStaleHypotheses
<1>2. TypeOK'
    BY DEF IInv, TypeOK, EpistemicStatus, markStaleHypotheses
<1>3. Path'
  <2>1. /\ Path /\ epistemic \in EpistemicStatus /\ "stale" \in EpistemicStatus
        /\ epistemic' = "stale" /\ 0 \in Nat
        /\ transitions' = Append(transitions,
                [from |-> epistemic, to |-> "stale", run |-> 0])
    BY DEF IInv, TypeOK, EpistemicStatus, markStaleHypotheses
  <2> QED
    BY <2>1, PathExtended
<1>4. Shown'
    BY DEF IInv, Shown, EpistemicMatchesCheckpoint, markStaleHypotheses
<1> QED
    BY <1>1, <1>2, <1>3, <1>4 DEF IInv

LEMMA ReviewStep ==
    ASSUME IInv, UNCHANGED <<packet, changes, process, baseline, checkpoint, runs,
                             epistemic, due, transitions, sent, throws>>,
           candidate' \in [Candidates -> {"none", "proposed", "accepted", "dismissed"}],
           unread' \subseteq unread
    PROVE  IInv'
<1>1. Shape' /\ Chained' /\ Fresh'
    BY Elsewhere
<1>2. TypeOK'
    BY DEF IInv, TypeOK
<1>3. Path' /\ Shown'
    BY PathKept, ShownKept DEF IInv
<1> QED
    BY <1>1, <1>2, <1>3 DEF IInv

-----------------------------------------------------------------------------
(* Replaying the deltas: what a fold over a sequence gives, by induction *)

\* Less is the order of the naturals as a relation: an induction over them is
\* done here by looking at the least counterexample.
Less == {p \in Nat \X Nat : p[1] < p[2]}

LEMMA LessWF == IsWellFoundedOn(Less, Nat)
  <1>1. OpToRel(<, Nat) = Less
    BY DEF OpToRel, Less
  <1>2. QED
    BY <1>1, NatLessThanWellFounded

\* Every nonempty set of naturals has a least element.
LEMMA LeastNat ==
  ASSUME NEW T \in SUBSET Nat, T # {}
  PROVE  \E n \in T : \A m \in T : n <= m
  <1>1. PICK n \in T : \A m \in T : <<m, n>> \notin Less
    BY LessWF, WFMin, Zenon
  <1>2. ASSUME NEW m \in T PROVE n <= m
    <2>1. m \in Nat /\ n \in Nat
      OBVIOUS
    <2>2. <<m, n>> \in Nat \X Nat /\ <<m, n>>[1] = m /\ <<m, n>>[2] = n
      BY <2>1
    <2>3. ~(m < n)
      BY <1>1, <2>2 DEF Less
    <2>4. QED
      BY <2>1, <2>3
  <1>3. QED
    BY <1>2

\* f gives the fold over each set of indices: the function FoldLeft chooses.
Folded(f, base, ds, D) ==
  f = [s \in SUBSET D |-> IF s = {} THEN base
                          ELSE LET x == Max(s) IN ApplyDeltas(f[s \ {x}], ds[x])]

Replayed(base, ds) == FoldLeft(ApplyDeltas, base, ds)

\* A first-order name for the fold, so that lemmas about it can be cited.
LEMMA ReplayUnfolded ==
  ASSUME NEW base, NEW ds
  PROVE  Replayed(base, ds) = (CHOOSE f : Folded(f, base, ds, DOMAIN ds))[DOMAIN ds]
  BY DEF Replayed, FoldLeft, MapThenFoldSet, Folded

LEMMA MaxOf ==
  /\ \A n \in Nat \ {0} : Max(1..n) = n
  /\ \A n \in Nat \ {0} : \A s \in SUBSET (1..n) : n \in s => Max(s) = n
  <1>1. ASSUME NEW n \in Nat \ {0}, NEW s \in SUBSET (1..n), n \in s
        PROVE  Max(s) = n
    <2>1. n \in s /\ \A y \in s : n >= y
      BY <1>1
    <2>2. \A x \in s : (\A y \in s : x >= y) => x = n
      BY <1>1, <2>1
    <2>3. QED
      BY <2>1, <2>2 DEF Max
  <1>2. QED
    BY <1>1

LEMMA MaxInside ==
  ASSUME NEW n \in Nat, NEW s \in SUBSET (1..n), s # {}
  PROVE  Max(s) \in s
  <1> DEFINE T == {k \in Nat : n - k \in s}
  <1>1. PICK x \in s : TRUE
    OBVIOUS
  <1>2. x \in 1..n /\ n - x \in T
    BY <1>1
  <1>3. PICK k \in T : \A m \in T : k <= m
    BY <1>2, LeastNat, T \in SUBSET Nat, T # {}
  <1>4. n - k \in s /\ \A y \in s : n - k >= y
    BY <1>3
  <1>5. QED
    BY <1>4 DEF Max

\* There is a function that gives the fold of every set of the first n indices.
LEMMA FoldExists ==
  ASSUME NEW base, NEW ds, NEW n \in Nat
  PROVE  \E f : Folded(f, base, ds, 1..n)
  <1> DEFINE T == {k \in Nat : ~\E f : Folded(f, base, ds, 1..k)}
  <1>1. SUFFICES ASSUME T # {} PROVE FALSE
    OBVIOUS
  <1>2. PICK k \in T : \A m \in T : k <= m
    BY <1>1, LeastNat, T \in SUBSET Nat
  <1>3. k \in Nat /\ ~\E f : Folded(f, base, ds, 1..k)
    BY <1>2
  <1>4. CASE k = 0
    <2> DEFINE f == [s \in SUBSET (1..0) |-> base]
    <2>1. \A s \in SUBSET (1..0) : s = {}
      OBVIOUS
    <2>2. f = [s \in SUBSET (1..0) |-> IF s = {} THEN base
                          ELSE LET x == Max(s) IN ApplyDeltas(f[s \ {x}], ds[x])]
      BY <2>1
    <2>3. Folded(f, base, ds, 1..0)
      BY <2>2 DEF Folded
    <2>4. QED
      BY <1>3, <1>4, <2>3
  <1>5. CASE k # 0
    <2>1. k - 1 \in Nat /\ k - 1 \notin T
      BY <1>2, <1>3, <1>5
    <2>2. PICK g : Folded(g, base, ds, 1..(k - 1))
      BY <2>1
    <2> DEFINE f == [s \in SUBSET (1..k) |->
                        IF k \in s THEN ApplyDeltas(g[s \ {k}], ds[k]) ELSE g[s]]
               R(s) == IF s = {} THEN base
                       ELSE LET x == Max(s) IN ApplyDeltas(f[s \ {x}], ds[x])
    <2>3. \A s \in SUBSET (1..k) : k \notin s => s \in SUBSET (1..(k - 1))
      BY <1>3, <1>5
    <2>4. \A s \in SUBSET (1..(k - 1)) :
            g[s] = IF s = {} THEN base
                   ELSE LET x == Max(s) IN ApplyDeltas(g[s \ {x}], ds[x])
      BY <2>2 DEF Folded
    <2>5. ASSUME NEW s \in SUBSET (1..k) PROVE f[s] = R(s)
      <3>1. CASE s = {}
        BY <2>3, <2>4, <3>1
      <3>2. CASE k \in s
        <4>1. Max(s) = k
          BY <1>3, <1>5, <3>2, MaxOf
        <4>2. s \ {k} \in SUBSET (1..k) /\ k \notin s \ {k}
          OBVIOUS
        <4>3. f[s \ {k}] = g[s \ {k}]
          BY <4>2
        <4>4. s # {} /\ f[s] = ApplyDeltas(g[s \ {k}], ds[k])
          BY <3>2
        <4>5. QED
          BY <4>1, <4>3, <4>4
      <3>3. CASE s # {} /\ k \notin s
        <4> DEFINE x == Max(s)
        <4>1. x \in s
          BY <1>3, <3>3, MaxInside
        <4>2. s \ {x} \in SUBSET (1..k) /\ k \notin s \ {x}
          BY <3>3
        <4>3. f[s \ {x}] = g[s \ {x}] /\ f[s] = g[s]
          BY <3>3, <4>2
        <4>4. g[s] = ApplyDeltas(g[s \ {x}], ds[x])
          BY <2>3, <2>4, <3>3
        <4>5. QED
          BY <3>3, <4>3, <4>4
      <3>4. QED
        BY <3>1, <3>2, <3>3
    <2>6. f = [s \in SUBSET (1..k) |-> f[s]]
      OBVIOUS
    <2>7. f = [s \in SUBSET (1..k) |-> R(s)]
      BY <2>5
    <2>8. Folded(f, base, ds, 1..k)
      BY <2>7 DEF Folded
    <2>9. QED
      BY <1>3, <2>8
  <1>6. QED
    BY <1>4, <1>5

\* Replaying the deltas of a chain of packets gives its last packet.
LEMMA ReplayOfChain ==
  ASSUME NEW base, NEW n \in Nat, NEW ds, DOMAIN ds = 1..n, NEW A, A[0] = base,
         \A i \in 1..n : A[i] = ApplyDeltas(A[i - 1], ds[i])
  PROVE  Replayed(base, ds) = A[n]
  <1>1. PICK f : /\ Folded(f, base, ds, 1..n)
                 /\ Replayed(base, ds) = f[1..n]
    <2> DEFINE f == CHOOSE g : Folded(g, base, ds, 1..n)
    <2>1. Folded(f, base, ds, 1..n)
      BY FoldExists
    <2>2. QED
      BY <2>1, ReplayUnfolded
  <1> DEFINE T == {m \in Nat : m <= n /\ f[1..m] # A[m]}
  <1>2. SUFFICES ASSUME T # {} PROVE FALSE
    BY <1>1
  <1>3. PICK m \in T : \A l \in T : m <= l
    BY <1>2, LeastNat, T \in SUBSET Nat
  <1>4. m \in Nat /\ m <= n /\ f[1..m] # A[m]
    BY <1>3
  <1>5. \A s \in SUBSET (1..n) :
            f[s] = IF s = {} THEN base
                   ELSE LET x == Max(s) IN ApplyDeltas(f[s \ {x}], ds[x])
    BY <1>1 DEF Folded
  <1>6. CASE m = 0
    <2>1. 1..m = {} /\ {} \in SUBSET (1..n)
      BY <1>6
    <2>2. f[{}] = base
      BY <1>5, <2>1
    <2>3. f[1..m] = f[{}]
      BY <2>1
    <2>4. A[m] = base
      BY <1>6
    <2>5. QED
      BY <1>4, <2>2, <2>3, <2>4
  <1>7. CASE m # 0
    <2>1. m - 1 \in Nat /\ m - 1 \notin T
      BY <1>3, <1>4, <1>7
    <2>2. f[1..(m - 1)] = A[m - 1]
      BY <1>4, <2>1
    <2>3. 1..m \in SUBSET (1..n) /\ 1..m # {} /\ (1..m) \ {m} = 1..(m - 1)
      <3>1. m \in Nat \ {0} /\ m <= n
        BY <1>4, <1>7
      <3> HIDE DEF T
      <3>2. m \in 1..m /\ \A i \in 1..m : i \in 1..n
        BY <3>1
      <3>3. \A i : i \in (1..m) \ {m} <=> i \in 1..(m - 1)
        BY <3>1
      <3>4. QED
        BY <3>2, <3>3
    <2>4. Max(1..m) = m
      BY <1>4, <1>7, MaxOf
    <2>5. f[1..m] = ApplyDeltas(f[1..(m - 1)], ds[m])
      BY <1>5, <2>3, <2>4
    <2>6. m \in 1..n
      BY <1>4, <1>7
    <2>7. QED
      BY <1>4, <2>2, <2>5, <2>6
  <1>8. QED
    BY <1>6, <1>7

-----------------------------------------------------------------------------

LEMMA InitIInv == Init => IInv
<1> SUFFICES ASSUME Init PROVE IInv
    OBVIOUS
<1>2. \A w \in Processes : process[w].pc = "idle"
    BY DEF Init, Idle
<1>1. TypeOK
  <2>1. /\ packet \in Packets /\ baseline = NoPacket /\ checkpoint = NoPacket
        /\ unread \subseteq sent /\ due \in BOOLEAN
    BY DEF Init
  <2>2. changes \in 0..(MaxEvents + 1) /\ throws \in 0..MaxThrows
    BY MonitorAssumption DEF Init
  <2>3. candidate \in [Candidates -> {"none", "proposed", "accepted", "dismissed"}]
    BY DEF Init
  <2>4. epistemic \in EpistemicStatus
    BY DEF Init, EpistemicStatus
  <2> QED
    BY <1>2, <2>1, <2>2, <2>3, <2>4 DEF TypeOK
<1>3. runs = <<>> /\ transitions = <<>> /\ Len(runs) = 0 /\ DOMAIN runs = {}
      /\ DOMAIN transitions = {} /\ runs \in Seq(RunRows)
      /\ transitions \in Seq([from: EpistemicStatus, to: EpistemicStatus, run: Nat])
    BY DEF Init
<1>4. Shape
    BY <1>2, <1>3, MonitorAssumption DEF Init, Shape, InEvaluation, Holds, At
<1>5. Chained
    BY <1>2, <1>3 DEF Init, Chained, CheckpointsChain, At
<1>6. Path /\ Shown
    BY <1>3 DEF Init, Path, Shown, EpistemicMatchesCheckpoint
<1>7. Fresh
    BY <1>2, <1>3 DEF Init, Fresh, Holds, At
<1> QED
    BY <1>1, <1>4, <1>5, <1>6, <1>7 DEF IInv

LEMMA NextIInv == IInv /\ [Next]_vars => IInv'
<1> SUFFICES ASSUME IInv, [Next]_vars PROVE IInv'
    OBVIOUS
<1>1. CASE SourceChanges
    BY <1>1, SourceStep
<1>2. ASSUME NEW w \in Processes,
             \/ evaluateReadsConfiguration(w)
             \/ evaluateLocksPolicy(w)
             \/ AttemptFails(w)
             \/ AttemptRefused(w)
             \/ initializeAssembles(w)
      PROVE  IInv'
    BY <1>2, ProcessStep
<1>3. ASSUME NEW w \in Processes,
             \/ assembleContext(w)
             \/ evaluateCommitsRun(w)
             \/ initializeCommits(w)
             \/ recordAndEvaluateSourceChange(w)
      PROVE  IInv'
    BY <1>3, AssembleStep, CommitStep, InitializeStep, CatchUpStep
<1>4. CASE WindowPasses \/ markStaleHypotheses
    BY <1>4, WindowStep, StaleStep
<1>5. ASSUME NEW c \in Candidates, NEW d \in {"accepted", "dismissed"}, NEW b \in BOOLEAN,
             reviewMemoryCandidate(c, d, b)
      PROVE  IInv'
  <2>1. candidate' \in [Candidates -> {"none", "proposed", "accepted", "dismissed"}]
    BY <1>5 DEF IInv, TypeOK, reviewMemoryCandidate
  <2>2. unread' \subseteq unread
    BY <1>5 DEF reviewMemoryCandidate
  <2> QED
    BY <1>5, <2>1, <2>2, ReviewStep DEF reviewMemoryCandidate
<1>6. CASE markRead
    BY <1>6, ReviewStep DEF markRead, IInv, TypeOK
<1>7. CASE UNCHANGED vars
    BY <1>7, ReviewStep DEF vars, IInv, TypeOK
<1> QED
    BY <1>1, <1>2, <1>3, <1>4, <1>5, <1>6, <1>7 DEF Next

\* The inductive invariant holds in every state of every behaviour.
THEOREM MonitorInvariant == Spec => []IInv
    BY InitIInv, NextIInv, PTL DEF Spec

\* Every variable keeps its type.
THEOREM TypeCorrect == Spec => []TypeOK
<1>1. IInv => TypeOK
    BY DEF IInv
<1> QED
    BY <1>1, MonitorInvariant, PTL

\* However many evaluators overlap, the runs of a policy form a chain.
THEOREM CheckpointsChainHolds == Spec => []CheckpointsChain
<1>1. IInv => CheckpointsChain
    BY DEF IInv, Chained
<1> QED
    BY <1>1, MonitorInvariant, PTL

\* The deltas a run stored, applied to what it compared with, give the packet
\* that became the checkpoint.
THEOREM DeltasExplainEachRun ==
    Spec => [](\A i \in DOMAIN runs :
                    runs[i].after = ApplyDeltas(runs[i].before, runs[i].deltas))
<1>1. IInv => \A i \in DOMAIN runs :
                    runs[i].after = ApplyDeltas(runs[i].before, runs[i].deltas)
    BY DEF IInv, Chained
<1> QED
    BY <1>1, MonitorInvariant, PTL

\* The stored deltas, replayed in order over the baseline, give the checkpoint,
\* however many runs there are and whichever of them were late.
THEOREM DeltasExplainCheckpointHolds == Spec => []DeltasExplainCheckpoint
<1>1. IInv => DeltasExplainCheckpoint
  <2> SUFFICES ASSUME IInv PROVE DeltasExplainCheckpoint
    OBVIOUS
  <2> DEFINE L == Len(runs)
             deltas == [i \in DOMAIN runs |-> runs[i].deltas]
             packets == [i \in 0..L |-> IF i = 0 THEN baseline ELSE runs[i].after]
  <2>1. Shape /\ Chained
    BY DEF IInv
  <2>2. L \in Nat /\ DOMAIN runs = 1..L /\ DOMAIN deltas = 1..L
    BY <2>1 DEF Shape
  <2>3. packets[0] = baseline
    BY <2>2
  <2>4. ASSUME NEW i \in 1..L
        PROVE  packets[i] = ApplyDeltas(packets[i - 1], deltas[i])
    <3>1. i \in DOMAIN runs /\ i \in 0..L /\ i - 1 \in 0..L /\ packets[i] = runs[i].after
      BY <2>2
    <3>2. runs[i].after = ApplyDeltas(runs[i].before, runs[i].deltas)
      BY <2>1, <3>1 DEF Chained
    <3>3. runs[i].before = packets[i - 1]
      BY <2>1, <2>2, <3>1 DEF Chained, CheckpointsChain
    <3>4. QED
      BY <3>1, <3>2, <3>3
  <2>5. Replayed(baseline, deltas) = packets[L]
    <3>1. \A i \in 1..L : packets[i] = ApplyDeltas(packets[i - 1], deltas[i])
      BY <2>4
    <3> HIDE DEF L, packets, deltas
    <3>2. QED
      BY <2>2, <2>3, <3>1, ReplayOfChain
  <2>6. packets[L] = checkpoint
    BY <2>1, <2>2 DEF Chained, CheckpointsChain
  <2>7. QED
    BY <2>5, <2>6 DEF DeltasExplainCheckpoint, Replayed
<1> QED
    BY <1>1, MonitorInvariant, PTL

\* The transition history is a path from 'untested' to the status shown.
THEOREM TransitionsChainHolds == Spec => []TransitionsChain
<1>1. IInv => TransitionsChain
  <2> SUFFICES ASSUME IInv PROVE TransitionsChain
    OBVIOUS
  <2> DEFINE L == Len(transitions)
             targets == [n \in DOMAIN transitions |-> transitions[n].to]
             states == <<"untested">> \o targets
  <2>1. Path
    BY DEF IInv
  <2>2. L \in Nat /\ DOMAIN transitions = 1..L
    BY <2>1 DEF Path
  <2>3. \A n \in 1..L : targets[n] = transitions[n].to /\ transitions[n].to \in EpistemicStatus
    <3> TAKE n \in 1..L
    <3> DEFINE Rows == [from: EpistemicStatus, to: EpistemicStatus, run: Nat]
    <3>1. transitions \in Seq(Rows)
      BY <2>1 DEF Path
    <3>2. \A r \in Rows : r.to \in EpistemicStatus
      OBVIOUS
    <3> HIDE DEF Rows
    <3>3. transitions[n] \in Rows
      BY <2>2, <3>1
    <3> QED
      BY <2>2, <3>2, <3>3
  <2>4. targets \in Seq(EpistemicStatus) /\ Len(targets) = L
    BY <2>2, <2>3
  <2> HIDE DEF targets
  <2>5. /\ Len(states) = L + 1 /\ states[1] = "untested"
        /\ \A n \in 1..L : states[n + 1] = targets[n]
    BY <2>2, <2>4
  <2> HIDE DEF states
  <2>6. \A n \in 1..L : transitions[n].from = states[n]
    <3> TAKE n \in 1..L
    <3>1. CASE n = 1
      BY <2>1, <2>2, <2>5, <3>1 DEF Path
    <3>2. CASE n # 1
      <4>1. PICK m \in 1..L : n = m + 1
        BY <2>2, <3>2
      <4>2. transitions[n].from = transitions[m].to
        BY <2>1, <2>2, <3>2, <4>1 DEF Path
      <4> QED
        BY <2>3, <2>5, <4>1, <4>2
    <3> QED
      BY <3>1, <3>2
  <2>7. epistemic = states[Len(states)]
    <3>1. CASE transitions = <<>>
      BY <2>1, <2>5, <3>1 DEF Path
    <3>2. CASE transitions # <<>>
      <4>1. L \in 1..L
        BY <2>1, <2>2, <3>2 DEF Path
      <4> QED
        BY <2>1, <2>3, <2>5, <3>2, <4>1 DEF Path
    <3> QED
      BY <3>1, <3>2
  <2> QED
    BY <2>2, <2>6, <2>7 DEF TransitionsChain, states, targets
<1> QED
    BY <1>1, MonitorInvariant, PTL

\* The evidence state shown is the checkpoint's, or stale, or not there yet.
THEOREM EpistemicMatchesCheckpointHolds == Spec => []EpistemicMatchesCheckpoint
<1>1. IInv => EpistemicMatchesCheckpoint
    BY DEF IInv, Shown
<1> QED
    BY <1>1, MonitorInvariant, PTL

\* At rest with every event evaluated, only an overtaken last run leaves a
\* checkpoint that is not what the service actor can see.
THEOREM OnlyLateRunsMisleadHolds == Spec => []OnlyLateRunsMislead
<1>1. IInv => OnlyLateRunsMislead
  <2> SUFFICES ASSUME IInv, checkpoint # NoPacket, \A e \in 1..changes : Evaluated(e)
               PROVE  IF runs = <<>>
                      THEN checkpoint \in {packet, projectionWithoutPreparedMutation(packet)}
                      ELSE checkpoint # packet => runs[Len(runs)].late
    BY DEF OnlyLateRunsMislead
  <2>1. TypeOK /\ Shape /\ Chained /\ Fresh
    BY DEF IInv
  <2>2. CASE runs = <<>>
    <3>1. changes = 0
      <4>1. \A e \in 1..changes : FALSE
        BY <2>2 DEF Evaluated
      <4> QED
        BY <2>1, <4>1 DEF TypeOK
    <3> QED
      BY <2>1, <2>2, <3>1 DEF Fresh
  <2>3. CASE runs # <<>>
    <3> SUFFICES ASSUME checkpoint # packet, ~runs[Len(runs)].late PROVE FALSE
      BY <2>3
    <3>1. Len(runs) \in DOMAIN runs /\ DOMAIN runs = 1..Len(runs) /\ Len(runs) \in Nat
      BY <2>1, <2>3 DEF Shape
    <3>2. runs[Len(runs)].after = checkpoint
      BY <2>1, <3>1 DEF Chained, CheckpointsChain
    <3>3. PICK e \in Nat : Pending(e, Len(runs) - 1)
      BY <2>1, <2>3, <3>2 DEF Fresh
    <3>4. PICK i \in DOMAIN runs : runs[i].event = e
      BY <3>3 DEF Pending, Evaluated
    <3>5. i > Len(runs) - 1 /\ runs[i].after = packet
      BY <3>3, <3>4 DEF Pending
    <3>6. i = Len(runs)
      BY <3>1, <3>4, <3>5
    <3> QED
      BY <3>2, <3>5, <3>6
  <2> QED
    BY <2>2, <2>3
<1> QED
    BY <1>1, MonitorInvariant, PTL

\* What one evaluator alone keeps true: it knows every run, and none was late.
AllRunsKnown ==
    /\ \A w \in Processes : Holds(w) => process[w].known = Len(runs)
    /\ \A i \in DOMAIN runs : ~runs[i].late

LEMMA AllRunsKnownKept ==
    ASSUME \A v, w \in Evaluators : v = w, IInv, AllRunsKnown, [Next]_vars
    PROVE  AllRunsKnown'
<1>1. Shape /\ runs \in Seq(RunRows)
    BY DEF IInv, Shape
<1>2. ASSUME UNCHANGED runs,
             \A w \in Processes : Holds(w)' =>
                \/ Holds(w) /\ process'[w].known = process[w].known
                \/ process'[w].known = Len(runs)
      PROVE  AllRunsKnown'
    BY <1>2 DEF AllRunsKnown
<1>3. ASSUME NEW w \in Processes, NEW row, process' = [process EXCEPT ![w] = row],
             UNCHANGED runs,
             \/ row.pc \notin {"assembled", "comparing"}
             \/ Holds(w) /\ row.known = process[w].known
             \/ row.known = Len(runs)
      PROVE  AllRunsKnown'
    BY <1>1, <1>2, <1>3, ProcessUpdate DEF Holds
<1>4. ASSUME NEW w \in Processes,
             \/ evaluateReadsConfiguration(w) \/ assembleContext(w) \/ evaluateLocksPolicy(w)
             \/ AttemptFails(w) \/ AttemptRefused(w)
             \/ initializeAssembles(w) \/ initializeCommits(w) \/ recordAndEvaluateSourceChange(w)
      PROVE  AllRunsKnown'
  <2>1. UNCHANGED runs
    BY <1>4
    DEF evaluateReadsConfiguration, assembleContext, evaluateLocksPolicy, AttemptFails,
        AttemptRefused, initializeAssembles, initializeCommits, recordAndEvaluateSourceChange,
        UnchangedDurable
  <2>2. CASE evaluateReadsConfiguration(w)
    <3>1. PICK e \in 1..changes :
            process' = [process EXCEPT ![w] = [pc |-> "reading", event |-> e]]
      BY <2>2 DEF evaluateReadsConfiguration
    <3>2. [pc |-> "reading", event |-> e].pc \notin {"assembled", "comparing"}
      OBVIOUS
    <3> QED
      BY <1>3, <2>1, <3>1, <3>2
  <2>3. CASE assembleContext(w)
    <3> DEFINE row == [pc |-> "assembled", event |-> process[w].event, seen |-> packet,
                       known |-> Len(runs)]
    <3>1. process' = [process EXCEPT ![w] = row]
      BY <2>3 DEF assembleContext
    <3>2. row.known = Len(runs)
      OBVIOUS
    <3> QED
      BY <1>3, <2>1, <3>1, <3>2
  <2>4. CASE evaluateLocksPolicy(w)
    <3> DEFINE row == [pc |-> "comparing", event |-> process[w].event,
                       seen |-> process[w].seen, known |-> process[w].known,
                       before |-> checkpoint]
    <3>1. process' = [process EXCEPT ![w] = row]
      BY <2>4 DEF evaluateLocksPolicy
    <3>2. row.known = process[w].known
      OBVIOUS
    <3>3. Holds(w)
      BY <2>4 DEF evaluateLocksPolicy, At, Holds
    <3> QED
      BY <1>3, <2>1, <3>1, <3>2, <3>3
  <2>5. CASE \/ AttemptFails(w) \/ AttemptRefused(w)
             \/ initializeAssembles(w) \/ initializeCommits(w) \/ recordAndEvaluateSourceChange(w)
    <3> DEFINE Starting == [pc |-> "initializing", seen |-> packet]
               CatchingUp == [pc |-> "catching-up"]
    <3>1. \E row \in {Idle, Starting, CatchingUp} : process' = [process EXCEPT ![w] = row]
      BY <2>5 DEF AttemptFails, AttemptRefused, initializeAssembles, initializeCommits,
                  recordAndEvaluateSourceChange
    <3>2. \A row \in {Idle, Starting, CatchingUp} : row.pc \notin {"assembled", "comparing"}
      BY DEF Idle
    <3> HIDE DEF Starting, CatchingUp
    <3> QED
      BY <1>3, <2>1, <3>1, <3>2
  <2> QED
    BY <1>4, <2>2, <2>3, <2>4, <2>5
<1>5. ASSUME NEW w \in Processes, evaluateCommitsRun(w)
      PROVE  AllRunsKnown'
  <2>1. Holds(w) /\ process' = [process EXCEPT ![w] = Idle]
    BY <1>5 DEF evaluateCommitsRun, At, Holds
  <2>2. /\ process'[w] = Idle
        /\ \A v \in Processes \ {w} : process'[v] = process[v]
    BY <1>1, <2>1, ProcessUpdate
  <2>3. \A v \in Processes : Holds(v) => v = w
    BY <1>1, <2>1 DEF Shape, Holds, InEvaluation
  <2>4. \A v \in Processes : ~Holds(v)'
    BY <2>2, <2>3 DEF Holds, Idle
  <2>5. PICK row : runs' = Append(runs, row) /\ row.late = (process[w].known # Len(runs))
    BY <1>5 DEF evaluateCommitsRun
  <2>6. ~row.late
    BY <2>1, <2>5 DEF AllRunsKnown
  <2>7. \A i \in DOMAIN runs' : ~runs'[i].late
    BY <1>1, <2>5, <2>6 DEF AllRunsKnown
  <2> QED
    BY <2>4, <2>7 DEF AllRunsKnown
<1>6. CASE UNCHANGED <<process, runs>>
    BY <1>6 DEF AllRunsKnown, Holds
<1> QED
    BY <1>4, <1>5, <1>6
    DEF Next, vars, SourceChanges, WindowPasses, markStaleHypotheses, reviewMemoryCandidate,
        markRead

\* With one evaluator the checkpoint of an evaluated hypothesis is current as soon
\* as every event has its run and nobody works: it takes two to be late.
THEOREM SoleEvaluatorStaysCurrent ==
    ASSUME \A v, w \in Evaluators : v = w
    PROVE  Spec => [](runs # <<>> => SettledCheckpointCurrent)
<1>1. Init => AllRunsKnown
    BY DEF Init, AllRunsKnown, Holds, Idle
<1>2. IInv /\ AllRunsKnown /\ [Next]_vars => AllRunsKnown'
    BY AllRunsKnownKept
<1>3. IInv /\ AllRunsKnown /\ OnlyLateRunsMislead => (runs # <<>> => SettledCheckpointCurrent)
  <2> SUFFICES ASSUME IInv, AllRunsKnown, OnlyLateRunsMislead, runs # <<>>
               PROVE  SettledCheckpointCurrent
    OBVIOUS
  <2>1. ~runs[Len(runs)].late
    BY DEF IInv, Shape, AllRunsKnown
  <2> QED
    BY <2>1 DEF OnlyLateRunsMislead, SettledCheckpointCurrent
<1> QED
    BY <1>1, <1>2, <1>3, MonitorInvariant, OnlyLateRunsMisleadHolds, PTL DEF Spec

-----------------------------------------------------------------------------
(* The monitor implements the ledger *)

\* What the ledger's log and path are in the monitor.
LogRow(run) == [event |-> run.event, before |-> run.before, after |-> run.after]
LogOf(rs) == [i \in DOMAIN rs |-> LogRow(rs[i])]
PathOf(ts) == [n \in DOMAIN ts |-> ts[n].to]

\* The abstraction of an appended row is appended to the abstraction.
LEMMA LogOfAppend ==
    ASSUME NEW S, NEW rs \in Seq(S), NEW r \in S
    PROVE  LogOf(Append(rs, r)) = Append(LogOf(rs), LogRow(r))
<1>1. /\ Len(rs) \in Nat /\ DOMAIN rs = 1..Len(rs)
      /\ DOMAIN Append(rs, r) = 1..(Len(rs) + 1)
      /\ \A i \in 1..(Len(rs) + 1) : Append(rs, r)[i] = IF i = Len(rs) + 1 THEN r ELSE rs[i]
    OBVIOUS
<1>2. LogOf(rs) \in Seq({LogRow(rs[i]) : i \in DOMAIN rs}) /\ Len(LogOf(rs)) = Len(rs)
    BY <1>1 DEF LogOf
<1>3. /\ DOMAIN Append(LogOf(rs), LogRow(r)) = 1..(Len(rs) + 1)
      /\ \A i \in 1..(Len(rs) + 1) : Append(LogOf(rs), LogRow(r))[i] =
            IF i = Len(rs) + 1 THEN LogRow(r) ELSE LogRow(rs[i])
      /\ Append(LogOf(rs), LogRow(r)) =
            [i \in 1..(Len(rs) + 1) |-> Append(LogOf(rs), LogRow(r))[i]]
    BY <1>1, <1>2 DEF LogOf
<1>4. LogOf(Append(rs, r)) = [i \in 1..(Len(rs) + 1) |->
            IF i = Len(rs) + 1 THEN LogRow(r) ELSE LogRow(rs[i])]
    BY <1>1 DEF LogOf
<1> QED
    BY <1>3, <1>4

LEMMA PathOfAppend ==
    ASSUME NEW S, NEW ts \in Seq(S), NEW t \in S
    PROVE  PathOf(Append(ts, t)) = Append(PathOf(ts), t.to)
<1>1. /\ Len(ts) \in Nat /\ DOMAIN ts = 1..Len(ts)
      /\ DOMAIN Append(ts, t) = 1..(Len(ts) + 1)
      /\ \A i \in 1..(Len(ts) + 1) : Append(ts, t)[i] = IF i = Len(ts) + 1 THEN t ELSE ts[i]
    OBVIOUS
<1>2. PathOf(ts) \in Seq({ts[i].to : i \in DOMAIN ts}) /\ Len(PathOf(ts)) = Len(ts)
    BY <1>1 DEF PathOf
<1>3. /\ DOMAIN Append(PathOf(ts), t.to) = 1..(Len(ts) + 1)
      /\ \A i \in 1..(Len(ts) + 1) : Append(PathOf(ts), t.to)[i] =
            IF i = Len(ts) + 1 THEN t.to ELSE ts[i].to
      /\ Append(PathOf(ts), t.to) = [i \in 1..(Len(ts) + 1) |-> Append(PathOf(ts), t.to)[i]]
    BY <1>1, <1>2 DEF PathOf
<1>4. PathOf(Append(ts, t)) = [i \in 1..(Len(ts) + 1) |->
            IF i = Len(ts) + 1 THEN t.to ELSE ts[i].to]
    BY <1>1 DEF PathOf
<1> QED
    BY <1>3, <1>4

LEMMA EvaluationStutters ==
    ASSUME UNCHANGED <<baseline, checkpoint, runs, epistemic, transitions>>
    PROVE  UNCHANGED Ledger!ledgerVars
    BY DEF Ledger!ledgerVars

\* The transition a status change records is the ledger's move.
LEMMA MovesTo ==
    ASSUME Path, NEW state \in EpistemicStatus, NEW run \in Nat,
           epistemic \in EpistemicStatus, epistemic' = state,
           transitions' = IF epistemic = state THEN transitions
                          ELSE Append(transitions, [from |-> epistemic, to |-> state, run |-> run])
    PROVE  Ledger!MoveTo(state)
<1> DEFINE t == [from |-> epistemic, to |-> state, run |-> run]
           S == [from: EpistemicStatus, to: EpistemicStatus, run: Nat]
<1>1. transitions \in Seq(S) /\ t \in S /\ t.to = state
    BY DEF Path
<1> HIDE DEF S
<1>2. PathOf(Append(transitions, t)) = Append(PathOf(transitions), state)
    BY <1>1, PathOfAppend
<1>3. PathOf(transitions)' = IF epistemic = state THEN PathOf(transitions)
                            ELSE Append(PathOf(transitions), state)
    BY <1>2 DEF PathOf
<1> QED
    BY <1>3 DEF Ledger!MoveTo, PathOf

LEMMA LedgerEvaluates ==
    ASSUME IInv, NEW w \in Processes, evaluateCommitsRun(w)
    PROVE  Ledger!Next
<1>1. TypeOK /\ Shape /\ Chained /\ Path
    BY DEF IInv
<1>2. /\ process[w].before = checkpoint /\ checkpoint \in Packets
      /\ process[w].seen \in Packets /\ process[w].event \in 1..changes
    BY <1>1 DEF Chained, Shape, Holds, At, InEvaluation, evaluateCommitsRun
<1>3. PICK e \in Events, seen \in Packets : e = process[w].event /\ seen = process[w].seen
    BY <1>1, <1>2, MonitorAssumption DEF TypeOK, Events
<1>4. PICK row \in RunRows :
        /\ runs' = Append(runs, row)
        /\ LogRow(row) = [event |-> e, before |-> checkpoint, after |-> seen]
  <2> DEFINE deltas == compareSnapshots(process[w].before, seen)
             r == [event |-> e, before |-> process[w].before, after |-> seen,
                   deltas |-> deltas, late |-> process[w].known # Len(runs)]
  <2>1. runs' = Append(runs, r)
    BY <1>3 DEF evaluateCommitsRun
  <2>2. deltas \in SUBSET Deltas
    BY <1>2, CompareThenApply
  <2> HIDE DEF deltas
  <2>3. r \in RunRows /\ LogRow(r) = [event |-> e, before |-> checkpoint, after |-> seen]
    BY <1>2, <2>2 DEF RunRows, LogRow
  <2> QED
    BY <2>1, <2>3
<1>5. /\ ~Evaluated(e) /\ checkpoint' = seen /\ baseline' = baseline
      /\ epistemic' = evidenceStatus(seen)
      /\ transitions' = IF epistemic = evidenceStatus(seen) THEN transitions
                        ELSE Append(transitions, [from |-> epistemic,
                               to |-> evidenceStatus(seen), run |-> e])
    BY <1>3 DEF evaluateCommitsRun, recordHypothesisEvaluation
<1>6. LogOf(runs)' = Append(LogOf(runs), [event |-> e, before |-> checkpoint, after |-> seen])
  <2>1. LogOf(Append(runs, row)) = Append(LogOf(runs), LogRow(row))
    BY <1>1, LogOfAppend DEF Shape
  <2> QED
    BY <1>4, <2>1 DEF LogOf
<1>7. Ledger!MoveTo(evidenceStatus(seen))
  <2>1. evidenceStatus(seen) \in EpistemicStatus /\ epistemic \in EpistemicStatus
    BY <1>1, EvidenceStatusType DEF EpistemicStatus, TypeOK
  <2>2. e \in Nat
    BY MonitorAssumption DEF Events
  <2> QED
    BY <1>1, <1>5, <2>1, <2>2, MovesTo
<1>8. [p \in Packets |-> evidenceStatus(p)][checkpoint'] = evidenceStatus(seen)
    BY <1>3, <1>5
<1>9. \A i \in DOMAIN LogOf(runs) : LogOf(runs)[i].event # e
    BY <1>5 DEF LogOf, LogRow, Evaluated
<1>10. checkpoint # NoPacket
    BY <1>2, NoPacketIsNone
<1>11. Ledger!Evaluate(e)
    BY <1>3, <1>5, <1>6, <1>7, <1>8, <1>9, <1>10
    DEF Ledger!Evaluate, Ledger!MoveTo, LogOf, LogRow
<1> QED
    BY <1>11 DEF Ledger!Next

LEMMA LedgerEstablishes ==
    ASSUME IInv, NEW w \in Processes, initializeCommits(w)
    PROVE  Ledger!Next \/ UNCHANGED Ledger!ledgerVars
<1> DEFINE seen == process[w].seen
           first == IF CatchUp THEN projectionWithoutPreparedMutation(seen) ELSE seen
<1>1. /\ IF checkpoint = NoPacket
         THEN baseline' = first /\ checkpoint' = first
         ELSE UNCHANGED <<baseline, checkpoint>>
      /\ UNCHANGED <<runs, epistemic, transitions>>
    BY DEF initializeCommits
<1>2. first \in Packets
  <2>1. seen \in Packets
    BY DEF IInv, Shape, initializeCommits
  <2> QED
    BY <2>1, MonitorAssumption DEF projectionWithoutPreparedMutation, Packets
<1> HIDE DEF first
<1>3. CASE checkpoint = NoPacket
  <2>1. Ledger!Establish
    BY <1>1, <1>2, <1>3 DEF Ledger!Establish
  <2> QED
    BY <2>1 DEF Ledger!Next
<1>4. CASE checkpoint # NoPacket
    BY <1>1, <1>4, EvaluationStutters
<1> QED
    BY <1>3, <1>4

LEMMA LedgerTurnsStale ==
    ASSUME IInv, markStaleHypotheses
    PROVE  Ledger!Next
<1>1. TypeOK /\ Shape /\ Path /\ Shown
    BY DEF IInv
<1>2. runs # <<>> /\ epistemic # "stale"
    BY <1>1 DEF Shown, markStaleHypotheses
<1>3. LogOf(runs) # <<>>
    BY <1>1, <1>2 DEF LogOf, Shape
<1>4. Ledger!MoveTo("stale")
  <2>1. "stale" \in EpistemicStatus /\ epistemic \in EpistemicStatus /\ 0 \in Nat
    BY <1>1 DEF EpistemicStatus, TypeOK
  <2> QED
    BY <1>1, <1>2, <2>1, MovesTo DEF markStaleHypotheses
<1>5. Ledger!TurnStale
    BY <1>2, <1>3, <1>4 DEF Ledger!TurnStale, markStaleHypotheses, LogOf, LogRow
<1> QED
    BY <1>5 DEF Ledger!Next

LEMMA NextEvaluates ==
    IInv /\ [Next]_vars => [Ledger!Next]_(Ledger!ledgerVars)
<1> SUFFICES ASSUME IInv, [Next]_vars
             PROVE  Ledger!Next \/ UNCHANGED Ledger!ledgerVars
    OBVIOUS
<1>1. ASSUME NEW w \in Processes,
             \/ evaluateReadsConfiguration(w) \/ assembleContext(w) \/ evaluateLocksPolicy(w)
             \/ AttemptFails(w) \/ AttemptRefused(w) \/ initializeAssembles(w)
             \/ recordAndEvaluateSourceChange(w)
      PROVE  UNCHANGED Ledger!ledgerVars
    BY <1>1, EvaluationStutters
    DEF evaluateReadsConfiguration, assembleContext, evaluateLocksPolicy, AttemptFails,
        AttemptRefused, initializeAssembles, recordAndEvaluateSourceChange, UnchangedDurable
<1>2. CASE \/ SourceChanges \/ WindowPasses \/ markRead \/ UNCHANGED vars
    BY <1>2, EvaluationStutters DEF SourceChanges, WindowPasses, markRead, vars
<1>3. ASSUME NEW c \in Candidates, NEW d \in {"accepted", "dismissed"}, NEW b \in BOOLEAN,
             reviewMemoryCandidate(c, d, b)
      PROVE  UNCHANGED Ledger!ledgerVars
    BY <1>3, EvaluationStutters DEF reviewMemoryCandidate
<1> QED
    BY <1>1, <1>2, <1>3, LedgerEvaluates, LedgerEstablishes, LedgerTurnsStale DEF Next

\* Every behaviour of the monitor is one of EvaluationLedger: overlapping,
\* failing and repeated evaluations take effect one after the other, each event
\* once, each from the checkpoint the one before it left.
THEOREM ImplementsEvaluationsHolds == Spec => ImplementsEvaluations
<1>1. Init => Ledger!Init
    BY DEF Init, Ledger!Init
<1> QED
    BY <1>1, NextEvaluates, MonitorInvariant, PTL DEF Spec, ImplementsEvaluations, Ledger!Spec

-----------------------------------------------------------------------------
(* The monitor behind its queue *)

QueueProofs == INSTANCE ControlPlaneQueueProofs WITH
    MonitorPolicies <- {Monitor}, DiscoveryPolicies <- {}, Events <- Events,
    MonitorWorkers <- Evaluators, DiscoveryWorkers <- {},
    Operable <- {Monitor}, Endable <- {Monitor}, runs <- runRows

\* Every step of the composition is a step of the monitor, or none of its.
LEMMA PlaneStepsMonitor == [PlaneNext]_planeVars => [Next]_vars
<1> SUFFICES ASSUME [PlaneNext]_planeVars
             PROVE  Next \/ UNCHANGED vars
    OBVIOUS
<1>1. CASE recordKnowledgeChangeEvents \/ RefreshRequested
    BY <1>1 DEF recordKnowledgeChangeEvents, RefreshRequested, Next
<1>2. ASSUME NEW w \in Evaluators,
             \/ BeginsEvaluation(w) \/ EvaluationProceeds(w) \/ CommitsEvaluation(w)
             \/ EvaluationRefused(w) \/ WorkThrows(w) \/ Crash(w)
      PROVE  Next \/ UNCHANGED vars
    BY <1>2 DEF BeginsEvaluation, EvaluationProceeds, CommitsEvaluation, EvaluationRefused,
        WorkThrows, Crash, BreaksOff, Next, Processes
<1>3. CASE QueueStep \/ PolicyUpdated \/ UNCHANGED planeVars
    BY <1>3 DEF QueueStep, PolicyUpdated, planeVars
<1>4. ASSUME NEW o \in Operators, CatchesUp(o) \/ Bootstrap(o)
      PROVE  Next
    BY <1>4 DEF CatchesUp, Bootstrap, Next, Processes
<1>5. CASE RecordStep
    BY <1>5 DEF RecordStep, Next
<1> QED
    BY <1>1, <1>2, <1>3, <1>4, <1>5 DEF PlaneNext

LEMMA PlaneIsMonitor == PlaneSpec => Spec
    BY PlaneStepsMonitor, PTL DEF PlaneSpec, PlaneInit, Spec

LEMMA RunRowsKept == ASSUME UNCHANGED runs PROVE UNCHANGED runRows
    BY DEF runRows, Evaluated

\* The instance the composition uses and the one its theorems are about are
\* the same queue.
LEMMA SameProducers ==
    ASSUME NEW e \in Events
    PROVE  /\ Queue!recordKnowledgeChangeEvents(e) => QueueProofs!recordKnowledgeChangeEvents(e)
           /\ Queue!EnqueueFor(Monitor, e) => QueueProofs!enqueueManualRun(Monitor, e)
           /\ Queue!enqueueDueSchedule(Monitor, e) => QueueProofs!enqueueDueSchedule(Monitor, e)
           /\ Queue!enqueueManualRun(Monitor, e) => QueueProofs!enqueueManualRun(Monitor, e)
           /\ Queue!LeaseLapses(Job(e)) => QueueProofs!LeaseLapses(Job(e))
    BY DEF Queue!recordKnowledgeChangeEvents,
        QueueProofs!recordKnowledgeChangeEvents, Queue!EnqueueFor,
        QueueProofs!EnqueueFor, Queue!enqueueDueSchedule,
        QueueProofs!enqueueDueSchedule, Queue!enqueueManualRun,
        QueueProofs!enqueueManualRun, Queue!LeaseLapses, QueueProofs!LeaseLapses,
        Queue!Policies, QueueProofs!Policies, Queue!Jobs, QueueProofs!Jobs,
        Queue!InsertJobs, QueueProofs!InsertJobs, Queue!Held, QueueProofs!Held,
        Queue!OnJob, QueueProofs!OnJob, Queue!Workers, QueueProofs!Workers,
        Queue!Idle, QueueProofs!Idle, Job

LEMMA SameWork ==
    ASSUME NEW w \in Evaluators
    PROVE  /\ Queue!evaluateReadsConfiguration(w) => QueueProofs!evaluateReadsConfiguration(w)
           /\ Queue!evaluateCommitsRun(w) => QueueProofs!evaluateCommitsRun(w)
           /\ Queue!WorkThrows(w) => QueueProofs!WorkThrows(w)
           /\ Queue!Crash(w) => QueueProofs!Crash(w)
    BY DEF Queue!evaluateReadsConfiguration, QueueProofs!evaluateReadsConfiguration,
        Queue!evaluateCommitsRun, QueueProofs!evaluateCommitsRun,
        Queue!WorkThrows, QueueProofs!WorkThrows, Queue!Crash, QueueProofs!Crash,
        Queue!At, QueueProofs!At, Queue!Goto, QueueProofs!Goto, Queue!InsertRun,
        QueueProofs!InsertRun, Queue!PolicyOf, QueueProofs!PolicyOf,
        Queue!UnchangedByReading, QueueProofs!UnchangedByReading, Queue!Idle,
        QueueProofs!Idle

LEMMA SameSettling ==
    ASSUME NEW w \in Evaluators
    PROVE  /\ Queue!claimJob(w) => QueueProofs!claimJob(w)
           /\ Queue!completeJobReads(w) => QueueProofs!completeJobReads(w)
           /\ Queue!completeJobCommits(w) => QueueProofs!completeJobCommits(w)
           /\ Queue!failJob(w) => QueueProofs!failJob(w)
<1>1. Queue!claimJob(w) => QueueProofs!claimJob(w)
    BY DEF Queue!claimJob, QueueProofs!claimJob, Queue!Claimable,
        QueueProofs!Claimable, Queue!RowLocked, QueueProofs!RowLocked, Queue!At,
        QueueProofs!At, Queue!OnJob, QueueProofs!OnJob, Queue!Idle,
        QueueProofs!Idle, Queue!Workers, QueueProofs!Workers, Queue!Serves,
        QueueProofs!Serves, Queue!Jobs, QueueProofs!Jobs, Queue!Policies,
        QueueProofs!Policies, Queue!PolicyOf, QueueProofs!PolicyOf
<1>2. Queue!completeJobReads(w) => QueueProofs!completeJobReads(w)
    BY DEF Queue!completeJobReads, QueueProofs!completeJobReads, Queue!At,
        QueueProofs!At, Queue!RowLocked, QueueProofs!RowLocked, Queue!OnJob,
        QueueProofs!OnJob, Queue!Idle, QueueProofs!Idle, Queue!Workers,
        QueueProofs!Workers, Queue!AllCompletedBut, QueueProofs!AllCompletedBut,
        Queue!JobsOf, QueueProofs!JobsOf, Queue!Jobs, QueueProofs!Jobs, Queue!Policies,
        QueueProofs!Policies, Queue!EventOf, QueueProofs!EventOf, Queue!UnchangedByReading,
        QueueProofs!UnchangedByReading
<1>3. Queue!completeJobCommits(w) => QueueProofs!completeJobCommits(w)
    BY DEF Queue!completeJobCommits, QueueProofs!completeJobCommits, Queue!At,
        QueueProofs!At, Queue!EventOf, QueueProofs!EventOf, Queue!Idle,
        QueueProofs!Idle
<1>4. Queue!failJob(w) => QueueProofs!failJob(w)
    BY DEF Queue!failJob, QueueProofs!failJob, Queue!At, QueueProofs!At,
        Queue!RowLocked, QueueProofs!RowLocked, Queue!OnJob, QueueProofs!OnJob,
        Queue!Idle, QueueProofs!Idle, Queue!Workers, QueueProofs!Workers,
        Queue!EventOf, QueueProofs!EventOf, Queue!Terminal, QueueProofs!Terminal
<1> QED
    BY <1>1, <1>2, <1>3, <1>4

LEMMA SameOperators ==
    /\ Queue!pause(Monitor) => QueueProofs!pause(Monitor)
    /\ Queue!resume(Monitor) => QueueProofs!resume(Monitor)
    /\ Queue!endHypothesis(Monitor) => QueueProofs!endHypothesis(Monitor)
<1>1. Queue!pause(Monitor) => QueueProofs!pause(Monitor)
    BY DEF Queue!pause, QueueProofs!pause
<1>2. Queue!resume(Monitor) => QueueProofs!resume(Monitor)
    BY DEF Queue!resume, QueueProofs!resume
<1>3. Queue!endHypothesis(Monitor) => QueueProofs!endHypothesis(Monitor)
    BY DEF Queue!endHypothesis, QueueProofs!endHypothesis, Queue!RowLocked,
        QueueProofs!RowLocked, Queue!At, QueueProofs!At, Queue!OnJob,
        QueueProofs!OnJob, Queue!Workers, QueueProofs!Workers, Queue!Jobs,
        QueueProofs!Jobs, Queue!Policies, QueueProofs!Policies, Queue!PolicyOf,
        QueueProofs!PolicyOf, Queue!Idle, QueueProofs!Idle
<1> QED
    BY <1>1, <1>2, <1>3

\* ... and a step of the queue, or none of its.
LEMMA PlaneStepsQueue ==
    IInv /\ IInv' /\ [PlaneNext]_planeVars => [QueueProofs!Next]_(QueueProofs!vars)
<1> SUFFICES ASSUME IInv, IInv', [PlaneNext]_planeVars
             PROVE  QueueProofs!Next \/ UNCHANGED QueueProofs!vars
    OBVIOUS
<1>1. ASSUME \/ recordKnowledgeChangeEvents \/ RefreshRequested
             \/ \E o \in Operators : CatchesUp(o)
      PROVE  QueueProofs!Next
  <2>1. changes' = changes + 1
    BY <1>1 DEF recordKnowledgeChangeEvents, RefreshRequested, CatchesUp, SourceChanges,
        recordAndEvaluateSourceChange
  <2>2. PICK e \in Events : e = changes + 1
    <3>1. changes \in Nat /\ changes' \in 0..(MaxEvents + 1)
      BY MonitorAssumption DEF IInv, TypeOK
    <3> QED
      BY <2>1, <3>1, MonitorAssumption DEF Events
  <2>3. \/ QueueProofs!recordKnowledgeChangeEvents(e)
        \/ QueueProofs!enqueueDueSchedule(Monitor, e)
        \/ QueueProofs!enqueueManualRun(Monitor, e)
    BY <1>1, <2>2, SameProducers
    DEF recordKnowledgeChangeEvents, RefreshRequested, CatchesUp
  <2> QED
    BY <2>3 DEF QueueProofs!Next, QueueProofs!Policies
<1>2. ASSUME NEW w \in Evaluators,
             \/ BeginsEvaluation(w) \/ CommitsEvaluation(w) \/ EvaluationRefused(w)
             \/ WorkThrows(w) \/ Crash(w)
      PROVE  QueueProofs!Next
  <2>1. \/ QueueProofs!evaluateReadsConfiguration(w) \/ QueueProofs!evaluateCommitsRun(w)
        \/ QueueProofs!WorkThrows(w) \/ QueueProofs!Crash(w)
    BY <1>2, SameWork
    DEF BeginsEvaluation, CommitsEvaluation, EvaluationRefused, WorkThrows, Crash
  <2> QED
    BY <2>1 DEF QueueProofs!Next, QueueProofs!WorkerStep, QueueProofs!Workers
<1>3. CASE QueueStep
  <2>1. \/ \E w \in Evaluators :
            \/ QueueProofs!claimJob(w) \/ QueueProofs!completeJobReads(w)
            \/ QueueProofs!completeJobCommits(w) \/ QueueProofs!failJob(w)
        \/ \E e \in Events : QueueProofs!LeaseLapses(Job(e))
    BY <1>3, SameProducers, SameSettling DEF QueueStep
  <2> QED
    BY <2>1 DEF QueueProofs!Next, QueueProofs!WorkerStep, QueueProofs!Workers,
        QueueProofs!Jobs, QueueProofs!Policies, Job
<1>4. CASE PolicyUpdated
    BY <1>4, SameOperators DEF PolicyUpdated, QueueProofs!Next, QueueProofs!Policies
<1>5. ASSUME UNCHANGED queueVars, UNCHANGED runs
      PROVE  UNCHANGED QueueProofs!vars
    BY <1>5, RunRowsKept DEF QueueProofs!vars, queueVars
<1>6. ASSUME \/ \E w \in Evaluators : EvaluationProceeds(w)
             \/ \E o \in Operators : Bootstrap(o)
             \/ RecordStep
             \/ UNCHANGED planeVars
      PROVE  UNCHANGED queueVars /\ UNCHANGED runs
    BY <1>6
    DEF EvaluationProceeds, Bootstrap, RecordStep, planeVars, vars, UnchangedDurable,
        assembleContext, evaluateLocksPolicy, initializeAssembles, initializeCommits,
        AttemptFails, WindowPasses, markStaleHypotheses, reviewMemoryCandidate, markRead
<1> QED
    BY <1>1, <1>2, <1>3, <1>4, <1>5, <1>6 DEF PlaneNext

LEMMA PlaneIsQueue == PlaneSpec => QueueProofs!Spec
<1>1. PlaneInit => QueueProofs!Init
  <2> SUFFICES ASSUME PlaneInit PROVE QueueProofs!Init
    OBVIOUS
  <2>1. runRows = [j \in {Monitor} \X Events |-> 0]
    BY DEF PlaneInit, Init, runRows, Evaluated
  <2> QED
    BY <2>1 DEF PlaneInit, Queue!Init, QueueProofs!Init, Queue!Policies,
        QueueProofs!Policies, Queue!Jobs, QueueProofs!Jobs, Queue!Workers,
        QueueProofs!Workers, Queue!Idle, QueueProofs!Idle
<1>2. PlaneSpec => []IInv
    BY PlaneIsMonitor, MonitorInvariant, PTL
<1> QED
    BY <1>1, <1>2, PlaneStepsQueue, PTL DEF PlaneSpec, QueueProofs!Spec

\* What the queue's own theorems say of the composition.
LEMMA PlaneQueueFacts ==
    PlaneSpec => [](/\ QueueProofs!TypeOK /\ QueueProofs!DurableWork
                    /\ QueueProofs!FailuresAlerted)
<1>1. QueueProofs!PoliciesAssumption /\ QueueProofs!BoundsAssumption
    BY AttemptsAssumption DEF QueueProofs!PoliciesAssumption, QueueProofs!BoundsAssumption
<1>2. QueueProofs!Spec => []QueueProofs!TypeOK
    BY <1>1, QueueProofs!TypeCorrect
<1>3. QueueProofs!Spec => []QueueProofs!DurableWork
    BY <1>1, QueueProofs!DurableWorkHolds
<1>4. QueueProofs!Spec => []QueueProofs!FailuresAlerted
    BY <1>1, QueueProofs!FailuresAlertedHolds
<1> QED
    BY <1>2, <1>3, <1>4, PlaneIsQueue, PTL

\* Events are recorded in order, and one that is queued has its job.
Routed ==
    /\ \A e \in Events : event[e] # "none" <=> e <= changes
    /\ \A e \in Events : event[e] = "queued" => status[Job(e)] # "none"

LEMMA ArrivalRouted ==
    ASSUME IInv, Routed, QueueProofs!TypeOK, NEW e \in Events, e = changes + 1,
           changes' = changes + 1, NEW ps \in SUBSET {Monitor},
           event' = [event EXCEPT ![e] = IF ps = {} THEN "ignored" ELSE "queued"],
           status' = [j \in {Monitor} \X Events |->
                        IF j \in ps \X {e} THEN "pending" ELSE status[j]]
    PROVE  Routed'
<1>1. changes \in Nat /\ \A f \in Events : f \in Nat
    BY MonitorAssumption DEF IInv, TypeOK, Events
<1>2. DOMAIN event = Events
    BY DEF QueueProofs!TypeOK
<1>3. ASSUME NEW f \in Events
      PROVE  (event[f] # "none" <=> f <= changes)'
  <2>1. CASE f = e
    BY <1>1, <1>2, <2>1
  <2>2. CASE f # e
    BY <1>1, <1>2, <2>2 DEF Routed
  <2> QED
    BY <2>1, <2>2
<1>4. ASSUME NEW f \in Events, event'[f] = "queued"
      PROVE  status'[Job(f)] # "none"
  <2>1. Job(f) \in {Monitor} \X Events
    BY DEF Job
  <2>2. CASE f = e
    BY <1>2, <1>4, <2>1, <2>2 DEF Job
  <2>3. CASE f # e
    BY <1>2, <1>4, <2>1, <2>3 DEF Job, Routed
  <2> QED
    BY <2>2, <2>3
<1> QED
    BY <1>3, <1>4 DEF Routed, Job

LEMMA QuietRouted ==
    ASSUME Routed, UNCHANGED changes,
           \A e \in Events : /\ event'[e] = "none" <=> event[e] = "none"
                             /\ event'[e] = "queued" => event[e] = "queued"
                             /\ status'[Job(e)] = "none" => status[Job(e)] = "none"
    PROVE  Routed'
    BY DEF Routed, Job

LEMMA ProducersRouted ==
    ASSUME IInv, IInv', Routed, QueueProofs!TypeOK,
           \/ recordKnowledgeChangeEvents \/ RefreshRequested
           \/ \E o \in Operators : CatchesUp(o)
    PROVE  Routed'
<1>1. changes' = changes + 1
    BY DEF recordKnowledgeChangeEvents, RefreshRequested, CatchesUp, SourceChanges,
        recordAndEvaluateSourceChange
<1>2. PICK e \in Events : e = changes + 1
  <2>1. changes \in Nat /\ changes' \in 0..(MaxEvents + 1)
    BY MonitorAssumption DEF IInv, TypeOK
  <2> QED
    BY <1>1, <2>1, MonitorAssumption DEF Events
<1>3. CASE Queue!recordKnowledgeChangeEvents(e)
  <2>1. PICK ps \in SUBSET {p \in {Monitor} \cup {} : policy[p] = "active"} :
            /\ event' = [event EXCEPT ![e] = IF ps = {} THEN "ignored" ELSE "queued"]
            /\ status' = [j \in ({Monitor} \cup {}) \X Events |->
                            IF j \in ps \X {e} THEN "pending" ELSE status[j]]
    BY <1>3 DEF Queue!recordKnowledgeChangeEvents, Queue!InsertJobs, Queue!Jobs,
        Queue!Policies
  <2>2. ps \in SUBSET {Monitor} /\ {Monitor} \cup {} = {Monitor}
    OBVIOUS
  <2> QED
    BY <1>1, <1>2, <2>1, <2>2, ArrivalRouted
<1>4. CASE Queue!EnqueueFor(Monitor, e)
  <2>1. /\ event' = [event EXCEPT ![e] = "queued"]
        /\ status' = [j \in {Monitor} \X Events |->
                        IF j \in {<<Monitor, e>>} THEN "pending" ELSE status[j]]
    BY <1>4 DEF Queue!EnqueueFor, Queue!InsertJobs, Queue!Jobs, Queue!Policies
  <2>2. {Monitor} \in SUBSET {Monitor} /\ {Monitor} # {} /\ {<<Monitor, e>>} = {Monitor} \X {e}
    OBVIOUS
  <2> QED
    BY <1>1, <1>2, <2>1, <2>2, ArrivalRouted
<1> QED
    BY <1>2, <1>3, <1>4
    DEF recordKnowledgeChangeEvents, RefreshRequested, CatchesUp,
        Queue!enqueueDueSchedule, Queue!enqueueManualRun

LEMMA SettlingRouted ==
    ASSUME Routed, QueueProofs!TypeOK, QueueProofs!DurableWork, NEW w \in Evaluators,
           Queue!completeJobCommits(w) \/ Queue!failJob(w), UNCHANGED changes
    PROVE  Routed'
<1>1. worker[w] # QueueProofs!Idle
    BY DEF Queue!completeJobCommits, Queue!failJob, Queue!At, QueueProofs!Idle
<1>2. worker[w] \in QueueProofs!Busy
    BY <1>1 DEF QueueProofs!TypeOK, QueueProofs!Workers
<1>3. PICK j \in {Monitor} \X Events : j = worker[w].job
    BY <1>2 DEF QueueProofs!Busy, QueueProofs!Jobs, QueueProofs!Policies
<1>4. event[j[2]] # "none"
    BY <1>1, <1>3 DEF QueueProofs!DurableWork, QueueProofs!WorkersHaveJobs,
        QueueProofs!JobsHaveEvents, QueueProofs!Workers, QueueProofs!Jobs,
        QueueProofs!Policies, QueueProofs!EventOf
<1>5. /\ event' = event \/ \E s \in {"processed", "failed"} :
                                event' = [event EXCEPT ![j[2]] = s]
      /\ \E s \in {"completed", "dead-letter", "retrying"} : status' = [status EXCEPT ![j] = s]
    BY <1>3 DEF Queue!completeJobCommits, Queue!failJob, Queue!EventOf
<1>6. DOMAIN event = Events /\ DOMAIN status = {Monitor} \X Events
    BY DEF QueueProofs!TypeOK, QueueProofs!Jobs, QueueProofs!Policies
<1>7. \A e \in Events : /\ event'[e] = "none" <=> event[e] = "none"
                        /\ event'[e] = "queued" => event[e] = "queued"
    BY <1>4, <1>5, <1>6
<1>8. \A e \in Events : status'[Job(e)] = "none" => status[Job(e)] = "none"
    BY <1>5, <1>6 DEF Job
<1> QED
    BY <1>7, <1>8, QuietRouted

LEMMA NextRouted ==
    ASSUME IInv, IInv', Routed, QueueProofs!TypeOK, QueueProofs!DurableWork,
           [PlaneNext]_planeVars
    PROVE  Routed'
<1>1. ASSUME UNCHANGED <<changes, event>>,
             \A e \in Events : status'[Job(e)] = "none" => status[Job(e)] = "none"
      PROVE  Routed'
    BY <1>1, QuietRouted
<1>2. ASSUME NEW w \in Evaluators,
             \/ BeginsEvaluation(w) \/ EvaluationProceeds(w) \/ CommitsEvaluation(w)
             \/ EvaluationRefused(w) \/ WorkThrows(w) \/ Crash(w)
      PROVE  Routed'
  <2>1. UNCHANGED changes
    BY <1>2
    DEF BeginsEvaluation, EvaluationProceeds, CommitsEvaluation, EvaluationRefused,
        WorkThrows, Crash, BreaksOff, vars, UnchangedDurable, evaluateReadsConfiguration,
        assembleContext, evaluateLocksPolicy, evaluateCommitsRun, AttemptFails,
        AttemptRefused
  <2>2. UNCHANGED <<event, status>>
    BY <1>2
    DEF BeginsEvaluation, EvaluationProceeds, CommitsEvaluation, EvaluationRefused,
        WorkThrows, Crash, queueVars, Queue!evaluateReadsConfiguration,
        Queue!evaluateCommitsRun, Queue!WorkThrows, Queue!Crash, Queue!UnchangedByReading
  <2> QED
    BY <1>1, <2>1, <2>2
<1>3. CASE QueueStep
  <2>1. UNCHANGED changes
    BY <1>3 DEF QueueStep, vars
  <2>2. ASSUME NEW w \in Evaluators, Queue!claimJob(w)
        PROVE  Routed'
    <3>1. /\ UNCHANGED event
          /\ \E j \in {Monitor} \X Events : status' = [status EXCEPT ![j] = "leased"]
      BY <2>2 DEF Queue!claimJob, Queue!Jobs, Queue!Policies
    <3>2. DOMAIN status = {Monitor} \X Events
      BY DEF QueueProofs!TypeOK, QueueProofs!Jobs, QueueProofs!Policies
    <3>3. \A e \in Events : status'[Job(e)] = "none" => status[Job(e)] = "none"
      BY <3>1, <3>2 DEF Job
    <3> QED
      BY <1>1, <2>1, <3>1, <3>3
  <2>3. ASSUME NEW w \in Evaluators, Queue!completeJobReads(w)
        PROVE  Routed'
    BY <1>1, <2>1, <2>3 DEF Queue!completeJobReads, Queue!UnchangedByReading
  <2>4. ASSUME NEW e \in Events, Queue!LeaseLapses(Job(e))
        PROVE  Routed'
    BY <1>1, <2>1, <2>4 DEF Queue!LeaseLapses
  <2> QED
    BY <1>3, <2>1, <2>2, <2>3, <2>4, SettlingRouted DEF QueueStep
<1>4. CASE PolicyUpdated
  <2>1. UNCHANGED <<changes, event>>
    BY <1>4 DEF PolicyUpdated, vars, Queue!pause, Queue!resume, Queue!endHypothesis
  <2>2. \A e \in Events : status'[Job(e)] = "none" => status[Job(e)] = "none"
    <3>1. \/ status' = status
          \/ status' = [j \in {Monitor} \X Events |->
                IF /\ Queue!PolicyOf(j) = Monitor
                   /\ status[j] \in {"pending", "retrying", "leased"}
                THEN "dead-letter" ELSE status[j]]
      BY <1>4 DEF PolicyUpdated, Queue!pause, Queue!resume, Queue!endHypothesis,
          Queue!Jobs, Queue!Policies
    <3> QED
      BY <3>1 DEF Job
  <2> QED
    BY <1>1, <2>1, <2>2
<1>5. ASSUME \/ \E o \in Operators : Bootstrap(o)
             \/ RecordStep
             \/ UNCHANGED planeVars
      PROVE  Routed'
  <2>1. UNCHANGED <<changes, event, status>>
    BY <1>5
    DEF Bootstrap, RecordStep, planeVars, queueVars, vars, UnchangedDurable,
        initializeAssembles, initializeCommits, AttemptFails, WindowPasses,
        markStaleHypotheses, reviewMemoryCandidate, markRead
  <2> QED
    BY <1>1, <2>1
<1> QED
    BY <1>2, <1>3, <1>4, <1>5, ProducersRouted DEF PlaneNext

LEMMA InitRouted == PlaneInit => Routed
    BY MonitorAssumption DEF PlaneInit, Init, Queue!Init, Routed, Events

LEMMA PlaneRouted == PlaneSpec => []Routed
<1>1. /\ IInv /\ IInv' /\ Routed /\ QueueProofs!TypeOK /\ QueueProofs!DurableWork
      /\ [PlaneNext]_planeVars
      => Routed'
    BY NextRouted
<1> QED
    BY <1>1, InitRouted, PlaneIsMonitor, MonitorInvariant, PlaneQueueFacts, PTL DEF PlaneSpec

\* At rest, an event whose run is missing says so: were its job completed or
\* the event processed, it would have its run.
LEMMA MissingAccounted ==
    ASSUME AtRest, Routed, QueueProofs!TypeOK, QueueProofs!DurableWork,
           QueueProofs!FailuresAlerted, NEW e \in Events, e <= changes, ~Evaluated(e)
    PROVE  Accounted(e)
<1>1. Job(e) \in QueueProofs!Jobs /\ QueueProofs!EventOf(Job(e)) = e
      /\ QueueProofs!PolicyOf(Job(e)) = Monitor
    BY DEF Job, QueueProofs!Jobs, QueueProofs!Policies, QueueProofs!EventOf,
        QueueProofs!PolicyOf
<1>2. runRows[Job(e)] = 0
    BY DEF runRows, Job
<1>3. \A j \in QueueProofs!JobsOf(e) : j = Job(e) /\ status[Job(e)] # "none"
    BY DEF QueueProofs!JobsOf, QueueProofs!Jobs, QueueProofs!Policies, QueueProofs!EventOf,
        Job
<1>4. ASSUME status[Job(e)] # "none"
      PROVE  Accounted(e)
  <2>1. status[Job(e)] \in {"completed", "dead-letter"}
    BY <1>1, <1>4 DEF AtRest, QueueProofs!TypeOK, QueueProofs!JobStatus
  <2>2. status[Job(e)] # "completed"
    BY <1>1, <1>2 DEF QueueProofs!DurableWork, QueueProofs!CompletedMeansEvaluated
  <2> QED
    BY <1>1, <2>1, <2>2 DEF Accounted, QueueProofs!FailuresAlerted
<1>5. event[e] \in {"queued", "ignored", "processed", "failed"}
    BY DEF Routed, QueueProofs!TypeOK, QueueProofs!EventStatus
<1>6. CASE event[e] = "queued"
    BY <1>4, <1>6 DEF Routed
<1>7. CASE event[e] = "failed"
    BY <1>3, <1>4, <1>7 DEF QueueProofs!FailuresAlerted
<1>8. event[e] # "processed"
    BY <1>2, <1>3 DEF QueueProofs!DurableWork, QueueProofs!ProcessedMeansEvaluated
<1> QED
    BY <1>5, <1>6, <1>7, <1>8 DEF Accounted

\* No change is missed silently: the queue's guarantees about the work it keeps
\* and the monitor's about the evaluations it commits, put together.
THEOREM NoChangeMissedSilentlyHolds == PlaneSpec => []NoChangeMissedSilently
<1>1. PlaneSpec => [](IInv /\ OnlyLateRunsMislead)
    BY PlaneIsMonitor, MonitorInvariant, OnlyLateRunsMisleadHolds, PTL
<1>2. PlaneSpec => []Routed
    BY PlaneRouted
<1>3. ASSUME IInv, OnlyLateRunsMislead, Routed, QueueProofs!TypeOK,
             QueueProofs!DurableWork, QueueProofs!FailuresAlerted
      PROVE  NoChangeMissedSilently
  <2> SUFFICES ASSUME AtRest, checkpoint \notin {NoPacket, packet},
                      ~(runs # <<>> /\ runs[Len(runs)].late),
                      ~(runs = <<>> /\ checkpoint = projectionWithoutPreparedMutation(packet))
               PROVE  \E e \in 1..changes : ~Evaluated(e) /\ Accounted(e)
    BY DEF NoChangeMissedSilently
  <2>1. PICK e \in 1..changes : ~Evaluated(e)
    BY <1>3 DEF OnlyLateRunsMislead, AtRest
  <2>2. e \in Events /\ e <= changes
    BY <1>3, MonitorAssumption DEF IInv, TypeOK, Events
  <2> QED
    BY <1>3, <2>1, <2>2, MissingAccounted
<1> QED
    BY <1>1, <1>2, <1>3, PlaneQueueFacts, PTL

\* With one worker nothing is overtaken: once a hypothesis has been evaluated,
\* what is at rest is current, or an event without a run says why not.
THEOREM SoleWorkerMissesNothing ==
    ASSUME \A v, w \in Evaluators : v = w
    PROVE  PlaneSpec => [](AtRest /\ runs # <<>> /\ checkpoint # packet =>
                            \E e \in 1..changes : ~Evaluated(e) /\ Accounted(e))
<1>1. PlaneSpec => [](IInv /\ (runs # <<>> => SettledCheckpointCurrent))
    BY PlaneIsMonitor, MonitorInvariant, SoleEvaluatorStaysCurrent, PTL
<1>2. ASSUME IInv, runs # <<>> => SettledCheckpointCurrent, Routed, QueueProofs!TypeOK,
             QueueProofs!DurableWork, QueueProofs!FailuresAlerted,
             AtRest, runs # <<>>, checkpoint # packet
      PROVE  \E e \in 1..changes : ~Evaluated(e) /\ Accounted(e)
  <2>1. checkpoint # NoPacket
    BY <1>2, NoPacketIsNone DEF IInv, Chained
  <2>2. PICK e \in 1..changes : ~Evaluated(e)
    BY <1>2, <2>1 DEF SettledCheckpointCurrent, AtRest
  <2>3. e \in Events /\ e <= changes
    BY <1>2, MonitorAssumption DEF IInv, TypeOK, Events
  <2> QED
    BY <1>2, <2>2, <2>3, MissingAccounted
<1> QED
    BY <1>1, <1>2, PlaneRouted, PlaneQueueFacts, PTL

=============================================================================
