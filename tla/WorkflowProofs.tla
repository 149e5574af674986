--------------------------- MODULE WorkflowProofs ---------------------------
(***************************************************************************)
(* What Workflow guarantees for every manifest, any number of replicas and *)
(* tasks, and every interleaving of their steps.                           *)
(***************************************************************************)
EXTENDS Workflow, TLAPS

\* What a waiting checkpoint c says of the node it names.
Names(c) ==
    c.status \in Awaiting =>
        /\ c.pause # 0
        /\ IF c.status = "awaiting_approval"
           THEN manifest.kind[c.pause] = "approval" /\ c.node[c.pause] = "awaiting_approval"
           ELSE c.node[c.pause] = "completed" /\ c.pause \in manifest.asks

\* Where a task can be with what copy: a drive that can still save has what is stored; a
\* batch only moves nodes that are not done, and the node that paused it is not moved again.
Coherent ==
    \A t \in Tasks :
        /\ t \in fresh => pc[t] \in {"loaded", "plan", "batch"}
        /\ t \in fresh /\ Running(t) => copy[t] = saved
        /\ Running(t) => copy[t].status \in {"running"} \cup Awaiting
        /\ pc[t] = "loaded" => copy[t].status \in {"running", "failed"}
        /\ pc[t] = "loaded" /\ t \in fresh =>
               \A n \in Nodes : saved.node[n] \in Settled =>
                   copy[t].node[n] = saved.node[n] \/ n = saved.pause
        /\ pc[t] = "batch" =>
               \A n \in Nodes :
                   /\ phase[t][n] \in {"queued", "started", "called"} =>
                          copy[t].node[n] \in {"pending", "running"}
                   /\ copy[t].status \in Awaiting /\ n = copy[t].pause => phase[t][n] = "done"
        /\ pc[t] \in {"plan", "batch"} =>
               \A n \in pend[t] : phase[t][n] = "out" => copy[t].node[n] \in {"pending", "running"}
        /\ pc[t] \notin {"batch", "orphaned"} => \A n \in Nodes : phase[t][n] = "out"

\* Only decisions complete approval nodes: in the store, in a drive, and in what a decision
\* is about to save.
Decided ==
    \A a \in Nodes : manifest.kind[a] = "approval" =>
        /\ saved.node[a] = "completed" => a \in granted
        /\ \A t \in Tasks :
               /\ Running(t) /\ copy[t].node[a] = "completed" => a \in granted
               /\ pc[t] = "loaded" /\ t \in fresh /\ copy[t].node[a] = "completed" =>
                      a \in granted \/ saved.node[a] = "awaiting_approval"

Waits == Names(saved) /\ \A t \in Tasks : Names(copy[t])

NoneAfterEnd == saved.status \in Terminal => fresh = {}

WorkflowInv ==
    TypeOK /\ Coherent /\ Decided /\ Waits /\ NoneAfterEnd /\ GatedCallsApproved

-----------------------------------------------------------------------------
(* Checkpoints.                                                            *)

\* Settling a node changes that node and nothing else of the checkpoint.
LEMMA SettleFields ==
    ASSUME NEW c \in Checkpoint, NEW n \in Nodes, NEW s \in NodeStatus
    PROVE  /\ Settle(c, n, s) \in Checkpoint
           /\ Settle(c, n, s).status = c.status /\ Settle(c, n, s).pause = c.pause
           /\ Settle(c, n, s).answers = c.answers
           /\ \A k \in Nodes : Settle(c, n, s).node[k] = IF k = n THEN s ELSE c.node[k]
  BY DEF Settle, Checkpoint

\* The checkpoint a pause leaves: the node that waited becomes s and the run goes on.
LEMMA LiftFields ==
    ASSUME saved \in Checkpoint, NEW n \in Nodes, NEW s \in NodeStatus
    PROVE  /\ Lift(n, s) \in Checkpoint
           /\ Lift(n, s).status = "running" /\ Lift(n, s).pause = 0
           /\ Lift(n, s).answers = saved.answers
           /\ \A k \in Nodes : Lift(n, s).node[k] = IF k = n THEN s ELSE saved.node[k]
  <1> DEFINE c == Settle(saved, n, s)
  <1>1. /\ c \in Checkpoint /\ c.answers = saved.answers
        /\ \A k \in Nodes : c.node[k] = IF k = n THEN s ELSE saved.node[k]
    BY SettleFields
  <1>2. 0 \in 0..N /\ "running" \in WorkflowStatus
    BY WorkflowAssumption DEF WorkflowStatus, Interrupted
  <1>3. Lift(n, s) = [c EXCEPT !.pause = 0, !.status = "running"]
    BY DEF Lift
  <1> HIDE DEF c
  <1> QED BY <1>1, <1>2, <1>3 DEF Checkpoint

\* What recover makes of a checkpoint: nodes that were done stay so.
LEMMA RecoveredFields ==
    ASSUME saved \in Checkpoint
    PROVE  /\ Recovered \in Checkpoint /\ Recovered.status \in {"running", "failed"}
           /\ Recovered.pause = saved.pause
           /\ \A k \in Nodes : saved.node[k] \notin {"pending", "running"} =>
                                 Recovered.node[k] = saved.node[k]
           /\ \A k \in Nodes : saved.node[k] \in {"pending", "running"} =>
                                 Recovered.node[k] # "completed"
  <1> DEFINE cut == {n \in Nodes : saved.node[n] = "running"}
             retry == {n \in cut : manifest.recovery[n] = "retry"}
  <1>1. CASE cut = retry
    <2>1. Recovered = [saved EXCEPT !.status = "running",
                         !.node = [n \in Nodes |-> IF n \in cut THEN "pending" ELSE saved.node[n]]]
      BY <1>1 DEF Recovered
    <2> QED BY <2>1 DEF Checkpoint, WorkflowStatus, Interrupted, NodeStatus, Settled
  <1>2. CASE cut # retry
    <2>1. Recovered = [saved EXCEPT !.status = "failed",
                         !.node = [n \in Nodes |-> CASE n \in cut \ retry -> "failed"
                                                     [] n \in retry \/ saved.node[n] = "pending" -> "skipped"
                                                     [] OTHER -> saved.node[n]]]
      BY <1>2 DEF Recovered
    <2> QED BY <2>1 DEF Checkpoint, WorkflowStatus, Terminal, NodeStatus, Settled
  <1> QED BY <1>1, <1>2

\* The gates of a node are approval nodes.
LEMMA CoveringApprovals ==
    ASSUME NEW m, NEW n, NEW a \in Covering(m, n)
    PROVE  a \in Nodes /\ m.kind[a] = "approval"
  BY DEF Covering

-----------------------------------------------------------------------------
(* Tasks that read the checkpoint.                                         *)

\* A task may take the stored checkpoint up with any copy that keeps what is done and that
\* completes no approval but one that waits for its decision.
LEMMA SpawnKeeps ==
    ASSUME WorkflowInv, NEW t \in Tasks, NEW p \in Procs, NEW c \in Checkpoint,
           Spawn(t, p, c), UNCHANGED checkpoint,
           mode' \in [Procs -> {"up", "starting", "draining", "down"}],
           saved.status \notin Terminal, c.status \in {"running", "failed"},
           \A n \in Nodes : saved.node[n] \in Settled =>
               c.node[n] = saved.node[n] \/ n = saved.pause,
           \A a \in Nodes : manifest.kind[a] = "approval" /\ c.node[a] = "completed" =>
               a \in granted \/ saved.node[a] = "awaiting_approval"
    PROVE  WorkflowInv'
  <1> USE DEF WorkflowInv, Spawn, Goes, checkpoint
  <1>1. TypeOK'
    BY DEF TypeOK, Locations
  <1>2. Coherent'
    BY DEF TypeOK, Coherent, Running
  <1>3. Decided'
    BY DEF TypeOK, Decided, Running
  <1>4. Waits'
    BY DEF TypeOK, Waits, Names, Awaiting
  <1>5. NoneAfterEnd' /\ GatedCallsApproved'
    BY DEF NoneAfterEnd, GatedCallsApproved
  <1> QED BY <1>1, <1>2, <1>3, <1>4, <1>5

-----------------------------------------------------------------------------
(* Saves.                                                                  *)

\* The last save of a drive: what it leaves is over, and nobody else can save any more.
LEMMA LeaveKeeps ==
    ASSUME WorkflowInv, NEW t \in Tasks, NEW c \in Checkpoint,
           SaveAndLeave(t, c), c.status \in Terminal, granted \subseteq granted',
           granted' \subseteq Nodes,
           \A a \in Nodes : manifest.kind[a] = "approval" /\ c.node[a] = "completed" =>
               a \in granted'
    PROVE  WorkflowInv'
  <1> USE DEF WorkflowInv, SaveAndLeave, Write, Leave, Goes, Quiet
  <1>0. /\ manifest' = manifest /\ saved' = c /\ fresh' = {}
        /\ mode' = mode /\ stops' = stops
    OBVIOUS
  <1>b. Blank \in Checkpoint
    BY WorkflowAssumption
       DEF Blank, Checkpoint, WorkflowStatus, NodeStatus, Interrupted, Awaiting, Terminal
  <1>o. overdue' \in BOOLEAN
    BY Zenon
  <1>1. TypeOK'
    BY <1>b, <1>o DEF TypeOK, Locations, Phases
  <1>2. Coherent'
    BY DEF TypeOK, Coherent, Running
  <1>3. Decided'
    BY DEF TypeOK, Decided, Running
  <1>4. Waits'
    BY DEF TypeOK, Waits, Names, Awaiting, Terminal, Blank
  <1>5. NoneAfterEnd' /\ GatedCallsApproved'
    BY DEF TypeOK, NoneAfterEnd, GatedCallsApproved
  <1> QED BY <1>1, <1>2, <1>3, <1>4, <1>5

\* A save in a drive that goes on: no other drive can save after it.
LEMMA SaveKeeps ==
    ASSUME WorkflowInv, NEW t \in Tasks, NEW c \in Checkpoint, Save(t, c),
           c.status \in {"running"} \cup Awaiting, Names(c),
           pc' \in [Tasks -> Locations], pc'[t] \in {"plan", "batch"},
           phase' \in [Tasks -> [Nodes -> Phases]], pend' \in [Tasks -> SUBSET Nodes],
           \A u \in Tasks \ {t} : pc'[u] = pc[u] /\ phase'[u] = phase[u] /\ pend'[u] = pend[u],
           at' = at, mode' = mode, active' = active, stops' = stops,
           granted \subseteq granted', granted' \subseteq Nodes,
           \A a \in Nodes : manifest.kind[a] = "approval" /\ c.node[a] = "completed" =>
               a \in granted',
           \A n \in Nodes :
               /\ phase'[t][n] \in {"queued", "started", "called"} =>
                      c.node[n] \in {"pending", "running"}
               /\ pc'[t] = "batch" /\ c.status \in Awaiting /\ n = c.pause => phase'[t][n] = "done"
               /\ n \in pend'[t] /\ phase'[t][n] = "out" => c.node[n] \in {"pending", "running"}
               /\ pc'[t] = "plan" => phase'[t][n] = "out"
               /\ phase'[t][n] = "called" /\ manifest.kind[n] = "gated" =>
                      Covering(manifest, n) # {} /\ Covering(manifest, n) \subseteq granted'
    PROVE  WorkflowInv'
  <1> USE DEF WorkflowInv, Save, Write, replica
  <1>0. manifest' = manifest /\ saved' = c /\ fresh' = {t} /\ copy' = [copy EXCEPT ![t] = c]
    OBVIOUS
  <1>o. overdue' \in BOOLEAN
    BY Zenon
  <1>1. TypeOK'
    BY <1>o DEF TypeOK
  <1>2. Coherent'
    <2>1. copy'[t] = c /\ \A u \in Tasks \ {t} : copy'[u] = copy[u] /\ u \notin fresh'
      BY <1>0 DEF TypeOK
    <2>2. ASSUME NEW u \in Tasks \ {t}
          PROVE  /\ Running(u) => copy[u].status \in {"running"} \cup Awaiting
                 /\ pc[u] = "loaded" => copy[u].status \in {"running", "failed"}
                 /\ pc[u] = "batch" =>
                        \A n \in Nodes :
                            /\ phase[u][n] \in {"queued", "started", "called"} =>
                                   copy[u].node[n] \in {"pending", "running"}
                            /\ copy[u].status \in Awaiting /\ n = copy[u].pause =>
                                   phase[u][n] = "done"
                 /\ pc[u] \in {"plan", "batch"} =>
                        \A n \in pend[u] : phase[u][n] = "out" =>
                                               copy[u].node[n] \in {"pending", "running"}
                 /\ pc[u] \notin {"batch", "orphaned"} => \A n \in Nodes : phase[u][n] = "out"
      BY DEF Coherent
    <2>3. pend'[t] \subseteq Nodes
      OBVIOUS
    <2> QED BY <1>0, <2>1, <2>2, <2>3 DEF Coherent, Running
  <1>3. Decided'
    BY DEF TypeOK, Decided, Running
  <1>4. Waits'
    BY DEF TypeOK, Waits, Names
  <1>5. NoneAfterEnd'
    BY <1>0 DEF NoneAfterEnd, Terminal, Awaiting
  <1>6. GatedCallsApproved'
    <2> SUFFICES ASSUME NEW u \in Tasks, NEW n \in Nodes,
                        manifest.kind[n] = "gated", phase'[u][n] = "called"
                 PROVE  Covering(manifest, n) # {} /\ Covering(manifest, n) \subseteq granted'
      BY <1>0 DEF GatedCallsApproved
    <2>1. CASE u = t
      BY <2>1
    <2>2. CASE u # t
      BY <2>2 DEF GatedCallsApproved
    <2> QED BY <2>1, <2>2
  <1> QED BY <1>1, <1>2, <1>3, <1>4, <1>5, <1>6

\* An event of a node of a batch that does not touch the pause.
LEMMA EventKeeps ==
    ASSUME WorkflowInv, NEW t \in Tasks, NEW n \in Nodes, NEW s \in NodeStatus,
           NEW q \in Phases \ {"out"},
           pc[t] = "batch", phase[t][n] \in {"queued", "started", "called"},
           NodeEvent(t, n, Settle(copy[t], n, s), q),
           s = "completed" => manifest.kind[n] # "approval",
           q \in {"queued", "started", "called"} => s \in {"pending", "running"},
           q = "called" /\ manifest.kind[n] = "gated" =>
               Covering(manifest, n) # {} /\ Covering(manifest, n) \subseteq granted
    PROVE  WorkflowInv'
  <1> DEFINE c == Settle(copy[t], n, s)
  <1>1. /\ c \in Checkpoint
        /\ c.status = copy[t].status /\ c.pause = copy[t].pause
        /\ \A k \in Nodes : c.node[k] = IF k = n THEN s ELSE copy[t].node[k]
    BY SettleFields DEF WorkflowInv, TypeOK
  <1>2. copy[t].status \in {"running"} \cup Awaiting /\ copy[t].pause \in 0..N
    BY DEF WorkflowInv, TypeOK, Checkpoint, Coherent, Running
  <1>3. c.status \in Awaiting => c.pause # n
    BY <1>1 DEF WorkflowInv, Coherent
  <1>4. Names(c)
    <2>1. SUFFICES ASSUME c.status \in Awaiting
                   PROVE  /\ c.pause # 0
                          /\ IF c.status = "awaiting_approval"
                             THEN /\ manifest.kind[c.pause] = "approval"
                                  /\ c.node[c.pause] = "awaiting_approval"
                             ELSE c.node[c.pause] = "completed" /\ c.pause \in manifest.asks
      BY DEF Names
    <2>2. c.pause # 0 /\ c.pause \in Nodes
      BY <1>1, <1>2, <2>1, WorkflowAssumption DEF WorkflowInv, Waits, Names, Nodes
    <2>3. c.node[c.pause] = copy[t].node[c.pause]
      BY <1>1, <1>3, <2>1, <2>2
    <2>4. Names(copy[t])
      BY DEF WorkflowInv, Waits
    <2> HIDE DEF c
    <2> QED BY <1>1, <2>1, <2>2, <2>3, <2>4 DEF Names
  <1>5. /\ Save(t, c) /\ phase' = [phase EXCEPT ![t] = [@ EXCEPT ![n] = q]]
        /\ UNCHANGED <<pc, at, pend, replica, granted>>
    BY DEF NodeEvent, Phase
  <1>6. /\ phase \in [Tasks -> [Nodes -> Phases]] /\ phase[t] \in [Nodes -> Phases]
        /\ pc \in [Tasks -> Locations] /\ pend \in [Tasks -> SUBSET Nodes]
        /\ granted \subseteq Nodes
    BY DEF WorkflowInv, TypeOK
  <1>7. \A a \in Nodes : manifest.kind[a] = "approval" /\ c.node[a] = "completed" => a \in granted
    BY <1>1 DEF WorkflowInv, Decided, Running
  <1>8. /\ phase' \in [Tasks -> [Nodes -> Phases]]
        /\ \A u \in Tasks \ {t} : pc'[u] = pc[u] /\ phase'[u] = phase[u] /\ pend'[u] = pend[u]
        /\ pc'[t] = "batch" /\ pend' = pend /\ pc' = pc /\ granted' = granted
        /\ at' = at /\ mode' = mode /\ active' = active /\ stops' = stops
    BY <1>5, <1>6 DEF replica
  <1>10. /\ pc' \in [Tasks -> Locations] /\ pc'[t] \in {"plan", "batch"}
         /\ pend' \in [Tasks -> SUBSET Nodes]
         /\ granted \subseteq granted' /\ granted' \subseteq Nodes
         /\ \A a \in Nodes : manifest.kind[a] = "approval" /\ c.node[a] = "completed" =>
                a \in granted'
    BY <1>6, <1>7, <1>8
  <1>11. \A k \in Nodes :
             /\ phase'[t][k] \in {"queued", "started", "called"} =>
                    c.node[k] \in {"pending", "running"}
             /\ pc'[t] = "batch" /\ c.status \in Awaiting /\ k = c.pause => phase'[t][k] = "done"
             /\ k \in pend'[t] /\ phase'[t][k] = "out" => c.node[k] \in {"pending", "running"}
             /\ pc'[t] = "plan" => phase'[t][k] = "out"
             /\ phase'[t][k] = "called" /\ manifest.kind[k] = "gated" =>
                    Covering(manifest, k) # {} /\ Covering(manifest, k) \subseteq granted'
    BY <1>1, <1>3, <1>5, <1>6, <1>8 DEF WorkflowInv, Coherent, GatedCallsApproved
  <1>9. c.status \in {"running"} \cup Awaiting
    BY <1>1, <1>2
  <1> HIDE DEF c
  <1> QED BY <1>1, <1>4, <1>5, <1>8, <1>9, <1>10, <1>11, SaveKeeps

\* A node of a batch that takes the pause, and with it the status of the run.
LEMMA PauseKeeps ==
    ASSUME WorkflowInv, NEW t \in Tasks, NEW n \in Nodes, NEW s \in NodeStatus, NEW w \in Awaiting,
           pc[t] = "batch",
           NodeEvent(t, n, [Settle(copy[t], n, s) EXCEPT !.status = w, !.pause = n], "done"),
           IF w = "awaiting_approval"
           THEN manifest.kind[n] = "approval" /\ s = "awaiting_approval"
           ELSE s = "completed" /\ n \in manifest.asks /\ manifest.kind[n] # "approval"
    PROVE  WorkflowInv'
  <1> DEFINE c == [Settle(copy[t], n, s) EXCEPT !.status = w, !.pause = n]
  <1>1. /\ c \in Checkpoint /\ c.status = w /\ c.pause = n
        /\ \A k \in Nodes : c.node[k] = IF k = n THEN s ELSE copy[t].node[k]
    <2> DEFINE d == Settle(copy[t], n, s)
    <2>1. /\ d \in Checkpoint
          /\ \A k \in Nodes : d.node[k] = IF k = n THEN s ELSE copy[t].node[k]
      BY SettleFields DEF WorkflowInv, TypeOK
    <2>2. w \in WorkflowStatus /\ n \in 0..N
      BY WorkflowAssumption DEF WorkflowStatus, Nodes
    <2>3. c = [d EXCEPT !.status = w, !.pause = n]
      OBVIOUS
    <2> HIDE DEF c, d
    <2> QED BY <2>1, <2>2, <2>3 DEF Checkpoint
  <1>2. Names(c)
    BY <1>1 DEF Names, Awaiting, Nodes
  <1>3. /\ Save(t, c) /\ phase' = [phase EXCEPT ![t] = [@ EXCEPT ![n] = "done"]]
        /\ UNCHANGED <<pc, at, pend, replica, granted>>
    BY DEF NodeEvent, Phase
  <1>4. /\ phase \in [Tasks -> [Nodes -> Phases]] /\ phase[t] \in [Nodes -> Phases]
        /\ pc \in [Tasks -> Locations] /\ pend \in [Tasks -> SUBSET Nodes]
        /\ granted \subseteq Nodes
    BY DEF WorkflowInv, TypeOK
  <1>5. /\ phase' \in [Tasks -> [Nodes -> Phases]]
        /\ \A u \in Tasks \ {t} : pc'[u] = pc[u] /\ phase'[u] = phase[u] /\ pend'[u] = pend[u]
        /\ pc'[t] = "batch" /\ pend' = pend /\ pc' = pc /\ granted' = granted
        /\ at' = at /\ mode' = mode /\ active' = active /\ stops' = stops
    BY <1>3, <1>4 DEF replica, Phases
  <1>6. /\ pc' \in [Tasks -> Locations] /\ pc'[t] \in {"plan", "batch"}
        /\ pend' \in [Tasks -> SUBSET Nodes]
        /\ granted \subseteq granted' /\ granted' \subseteq Nodes
        /\ \A a \in Nodes : manifest.kind[a] = "approval" /\ c.node[a] = "completed" =>
               a \in granted'
    BY <1>1, <1>4, <1>5 DEF WorkflowInv, Decided, Running
  <1>7. \A k \in Nodes :
            /\ phase'[t][k] \in {"queued", "started", "called"} =>
                   c.node[k] \in {"pending", "running"}
            /\ pc'[t] = "batch" /\ c.status \in Awaiting /\ k = c.pause => phase'[t][k] = "done"
            /\ k \in pend'[t] /\ phase'[t][k] = "out" => c.node[k] \in {"pending", "running"}
            /\ pc'[t] = "plan" => phase'[t][k] = "out"
            /\ phase'[t][k] = "called" /\ manifest.kind[k] = "gated" =>
                   Covering(manifest, k) # {} /\ Covering(manifest, k) \subseteq granted'
    BY <1>1, <1>3, <1>4, <1>5 DEF WorkflowInv, Coherent, GatedCallsApproved
  <1>8. c.status \in {"running"} \cup Awaiting
    BY <1>1
  <1> HIDE DEF c
  <1> QED BY <1>1, <1>2, <1>3, <1>5, <1>6, <1>7, <1>8, SaveKeeps

-----------------------------------------------------------------------------
(* Every action keeps the invariant.                                       *)

\* The invariant holds before any run is started.
LEMMA InitInv == Init => WorkflowInv
  <1> SUFFICES ASSUME Init PROVE WorkflowInv
    OBVIOUS
  <1>1. Blank \in Checkpoint /\ 0 \in Nat
    BY WorkflowAssumption
       DEF Blank, Checkpoint, WorkflowStatus, NodeStatus, Interrupted, Awaiting, Terminal
  <1>2. TypeOK
    BY <1>1 DEF Init, TypeOK, Locations, Phases
  <1> QED BY <1>2 DEF Init, WorkflowInv, Coherent, Decided, Waits, Names, NoneAfterEnd,
                      GatedCallsApproved, Running, Blank, Awaiting

\* The requests, the sweep and recovery read the checkpoint and save later.
LEMMA RequestKeeps ==
    ASSUME WorkflowInv, NEW t \in Tasks, NEW p \in Procs, Request(t, p)
    PROVE  WorkflowInv'
  <1> USE DEF WorkflowInv
  <1>t. /\ saved \in Checkpoint /\ saved.node \in [Nodes -> NodeStatus] /\ saved.answers \in Nat
        /\ saved.pause \in 0..N /\ (saved.pause # 0 => saved.pause \in Nodes)
        /\ mode \in [Procs -> {"up", "starting", "draining", "down"}]
    BY WorkflowAssumption DEF TypeOK, Checkpoint, Nodes
  <1>1. ASSUME NEW s \in {"completed", "rejected"}, Decide(t, p, s)
        PROVE  WorkflowInv'
    <2> DEFINE r == IF overdue THEN "failed" ELSE s
               c == Lift(saved.pause, r)
    <2>1. saved.pause \in Nodes /\ saved.node[saved.pause] = "awaiting_approval"
      BY <1>1, <1>t DEF Decide, Waits, Names, Awaiting
    <2>2. r \in NodeStatus
      BY DEF NodeStatus, Settled
    <2> HIDE DEF r
    <2>3. /\ c \in Checkpoint /\ c.status = "running"
          /\ \A k \in Nodes : c.node[k] = IF k = saved.pause THEN r ELSE saved.node[k]
      BY <1>t, <2>1, <2>2, LiftFields
    <2>4. Spawn(t, p, c) /\ UNCHANGED checkpoint /\ mode' = mode /\ saved.status \notin Terminal
      BY <1>1 DEF Decide, Terminal, r
    <2> HIDE DEF c
    <2>5. \A a \in Nodes : manifest.kind[a] = "approval" /\ c.node[a] = "completed" =>
              a \in granted \/ saved.node[a] = "awaiting_approval"
      BY <2>1, <2>3 DEF Decided
    <2> QED BY <1>t, <2>3, <2>4, <2>5, SpawnKeeps
  <1>2. CASE Answer(t, p)
    <2> DEFINE d == Lift(saved.pause, "pending")
               c == [d EXCEPT !.answers = @ + 1]
    <2>1. saved.pause \in Nodes /\ "pending" \in NodeStatus
      BY <1>2, <1>t DEF Answer, NodeStatus
    <2>2. /\ d \in Checkpoint /\ d.status = "running"
          /\ \A k \in Nodes : d.node[k] = IF k = saved.pause THEN "pending" ELSE saved.node[k]
      BY <1>t, <2>1, LiftFields
    <2>3. Spawn(t, p, c) /\ UNCHANGED checkpoint /\ mode' = mode /\ saved.status \notin Terminal
      BY <1>2 DEF Answer, Terminal
    <2> HIDE DEF d
    <2>4. c \in Checkpoint /\ c.status = "running" /\ c.node = d.node
      BY <2>2 DEF Checkpoint
    <2> HIDE DEF c
    <2>5. \A a \in Nodes : manifest.kind[a] = "approval" /\ c.node[a] = "completed" =>
              a \in granted \/ saved.node[a] = "awaiting_approval"
      BY <2>2, <2>4 DEF Decided
    <2> QED BY <1>t, <2>2, <2>3, <2>4, <2>5, SpawnKeeps
  <1>3. CASE Sweep(t, p)
    <2> DEFINE c == Lift(saved.pause, "failed")
    <2>1. saved.pause \in Nodes /\ "failed" \in NodeStatus
      BY <1>3, <1>t DEF Sweep, Waits, Names, NodeStatus, Settled
    <2>2. /\ c \in Checkpoint /\ c.status = "running"
          /\ \A k \in Nodes : c.node[k] = IF k = saved.pause THEN "failed" ELSE saved.node[k]
      BY <1>t, <2>1, LiftFields
    <2>3. Spawn(t, p, c) /\ UNCHANGED checkpoint /\ mode' = mode /\ saved.status \notin Terminal
      BY <1>3 DEF Sweep, Terminal, Awaiting
    <2> HIDE DEF c
    <2>4. \A a \in Nodes : manifest.kind[a] = "approval" /\ c.node[a] = "completed" =>
              a \in granted \/ saved.node[a] = "awaiting_approval"
      BY <2>2 DEF Decided
    <2> QED BY <1>t, <2>2, <2>3, <2>4, SpawnKeeps
  <1>4. CASE Recover(t, p)
    <2>1. /\ Recovered \in Checkpoint /\ Recovered.status \in {"running", "failed"}
          /\ \A k \in Nodes : saved.node[k] \notin {"pending", "running"} =>
                                Recovered.node[k] = saved.node[k]
          /\ \A k \in Nodes : saved.node[k] \in {"pending", "running"} =>
                                Recovered.node[k] # "completed"
      BY <1>t, RecoveredFields
    <2>2. /\ Spawn(t, p, Recovered) /\ UNCHANGED checkpoint /\ saved.status \notin Terminal
          /\ mode' = [mode EXCEPT ![p] = "up"]
      BY <1>4 DEF Recover, Terminal, Interrupted
    <2>3. \A n \in Nodes : saved.node[n] \in Settled => Recovered.node[n] = saved.node[n]
      BY <2>1 DEF Settled
    <2>4. \A a \in Nodes : manifest.kind[a] = "approval" /\ Recovered.node[a] = "completed" =>
              a \in granted \/ saved.node[a] = "awaiting_approval"
      BY <2>1 DEF Decided
    <2> QED BY <1>t, <2>1, <2>2, <2>3, <2>4, SpawnKeeps
  <1>5. CASE Start(t, p)
    <2>1. /\ saved' \in Checkpoint /\ saved'.status = "pending" /\ saved'.node = saved.node
          /\ saved'.pause = saved.pause /\ saved.status = "none"
      BY <1>5, <1>t DEF Start, Checkpoint, WorkflowStatus, Interrupted
    <2> DEFINE c == [saved EXCEPT !.status = "running"]
    <2>2. c \in Checkpoint /\ c.status = "running" /\ c.node = saved.node
      BY <1>t DEF Checkpoint, WorkflowStatus, Interrupted
    <2>3. Spawn(t, p, c) /\ UNCHANGED <<manifest, overdue, mode>>
      BY <1>5 DEF Start
    <2>4. \A u \in fresh : ~Running(u)
      BY <2>1 DEF Coherent, TypeOK, Awaiting
    <2> HIDE DEF c
    <2> USE DEF Spawn, Goes
    <2>5. TypeOK'
      BY <2>1, <2>2, <2>3 DEF TypeOK, Locations
    <2>6. Coherent'
      BY <2>1, <2>2, <2>3, <2>4 DEF TypeOK, Coherent, Running
    <2>7. Decided'
      BY <2>1, <2>2, <2>3 DEF TypeOK, Decided, Running
    <2>8. Waits'
      BY <2>1, <2>2, <2>3 DEF TypeOK, Waits, Names, Awaiting
    <2>9. NoneAfterEnd' /\ GatedCallsApproved'
      BY <2>1, <2>3 DEF NoneAfterEnd, GatedCallsApproved, Terminal
    <2> QED BY <2>5, <2>6, <2>7, <2>8, <2>9
  <1> QED BY <1>1, <1>2, <1>3, <1>4, <1>5 DEF Request

\* The nodes of a batch, and the nodes a plan skips.
LEMMA NodeStepKeeps ==
    ASSUME WorkflowInv, NEW t \in Tasks, NEW n \in Nodes, NodeStep(t, n)
    PROVE  WorkflowInv'
  <1> USE DEF WorkflowInv
  <1>t. /\ copy[t] \in Checkpoint /\ phase[t] \in [Nodes -> Phases]
        /\ {"pending", "running", "skipped", "failed", "completed", "awaiting_approval"}
              \subseteq NodeStatus
        /\ {"started", "called", "done"} \subseteq Phases \ {"out"}
        /\ {"awaiting_approval", "awaiting_input"} \subseteq Awaiting
    BY DEF TypeOK, NodeStatus, Settled, Phases, Awaiting
  <1>1. CASE SkipBlocked(t, n)
    <2> DEFINE c == Settle(copy[t], n, "skipped")
    <2>1. /\ c \in Checkpoint /\ c.status = copy[t].status
          /\ \A k \in Nodes : c.node[k] = IF k = n THEN "skipped" ELSE copy[t].node[k]
      <3>1. copy[t] \in Checkpoint /\ "skipped" \in NodeStatus
        BY <1>t DEF NodeStatus, Settled
      <3> QED BY <3>1, SettleFields
    <2>2. /\ Save(t, c) /\ pend' = [pend EXCEPT ![t] = @ \ {n}] /\ pc[t] = "plan"
          /\ pc' = pc /\ at' = at /\ phase' = phase /\ granted' = granted
          /\ mode' = mode /\ active' = active /\ stops' = stops /\ copy[t].status = "running"
      BY <1>1 DEF SkipBlocked, Planning, replica
    <2>3. Names(c) /\ c.status \in {"running"} \cup Awaiting
      BY <2>1, <2>2 DEF Names, Awaiting
    <2> HIDE DEF c
    <2>4. /\ pc \in [Tasks -> Locations] /\ pend' \in [Tasks -> SUBSET Nodes]
          /\ \A u \in Tasks \ {t} : pend'[u] = pend[u]
          /\ phase \in [Tasks -> [Nodes -> Phases]] /\ granted \subseteq Nodes
          /\ pend'[t] = pend[t] \ {n}
      BY <2>2 DEF TypeOK
    <2>5. \A a \in Nodes : manifest.kind[a] = "approval" /\ c.node[a] = "completed" =>
              a \in granted
      BY <2>1, <2>2 DEF Decided, Running
    <2>6. \A k \in Nodes : /\ phase[t][k] = "out"
                           /\ k \in pend'[t] => c.node[k] \in {"pending", "running"}
      BY <2>1, <2>2, <2>4 DEF Coherent
    <2>7. \A k \in Nodes :
             /\ phase'[t][k] \in {"queued", "started", "called"} =>
                    c.node[k] \in {"pending", "running"}
             /\ pc'[t] = "batch" /\ c.status \in Awaiting /\ k = c.pause => phase'[t][k] = "done"
             /\ k \in pend'[t] /\ phase'[t][k] = "out" => c.node[k] \in {"pending", "running"}
             /\ pc'[t] = "plan" => phase'[t][k] = "out"
             /\ phase'[t][k] = "called" /\ manifest.kind[k] = "gated" =>
                    Covering(manifest, k) # {} /\ Covering(manifest, k) \subseteq granted'
      BY <2>2, <2>6
    <2> QED BY <2>1, <2>2, <2>3, <2>4, <2>5, <2>7, SaveKeeps
  <1>2. CASE SkipNode(t, n)
    BY <1>2, <1>t, EventKeeps DEF SkipNode, InBatch
  <1>3. CASE StartNode(t, n)
    BY <1>3, <1>t, EventKeeps DEF StartNode, InBatch
  <1>4. CASE AskApproval(t, n)
    BY <1>4, <1>t, PauseKeeps DEF AskApproval, InBatch
  <1>5. CASE CallGated(t, n)
    <2>1. /\ pc[t] = "batch" /\ phase[t][n] = "started" /\ manifest.kind[n] = "gated"
          /\ t \in fresh /\ copy[t].status \in {"running"} \cup Awaiting
      BY <1>5 DEF CallGated, InBatch, NodeEvent, Save, Write, Coherent, Running
    <2>2. /\ Save(t, copy[t]) /\ phase' = [phase EXCEPT ![t] = [@ EXCEPT ![n] = "called"]]
          /\ pc' = pc /\ at' = at /\ pend' = pend /\ granted' = granted
          /\ mode' = mode /\ active' = active /\ stops' = stops
      BY <1>5 DEF CallGated, NodeEvent, Phase, replica
    <2>3. Names(copy[t])
      BY DEF Waits
    <2>4. \A a \in Nodes : manifest.kind[a] = "approval" /\ copy[t].node[a] = "completed" =>
              a \in granted
      BY <2>1 DEF Decided, Running
    <2>5. Covering(manifest, n) # {} /\ Covering(manifest, n) \subseteq granted
      <3>1. Covering(manifest, n) # {}
            /\ \A a \in Covering(manifest, n) : copy[t].node[a] = "completed"
        BY <1>5 DEF CallGated, Approved
      <3> QED BY <2>4, <3>1, CoveringApprovals
    <2>6. /\ pc \in [Tasks -> Locations] /\ pend \in [Tasks -> SUBSET Nodes]
          /\ phase' \in [Tasks -> [Nodes -> Phases]] /\ granted \subseteq Nodes
          /\ \A u \in Tasks \ {t} : phase'[u] = phase[u]
          /\ phase'[t] = [phase[t] EXCEPT ![n] = "called"]
      BY <1>t, <2>2 DEF TypeOK
    <2>7. \A k \in Nodes :
            /\ phase'[t][k] \in {"queued", "started", "called"} =>
                   copy[t].node[k] \in {"pending", "running"}
            /\ copy[t].status \in Awaiting /\ k = copy[t].pause => phase'[t][k] = "done"
            /\ k \in pend[t] /\ phase'[t][k] = "out" => copy[t].node[k] \in {"pending", "running"}
            /\ phase'[t][k] = "called" /\ manifest.kind[k] = "gated" =>
                   Covering(manifest, k) # {} /\ Covering(manifest, k) \subseteq granted
      BY <1>t, <2>1, <2>5, <2>6 DEF Coherent, GatedCallsApproved
    <2> QED BY <1>t, <2>1, <2>2, <2>3, <2>4, <2>6, <2>7, SaveKeeps
  <1>6. CASE CompleteNode(t, n)
    BY <1>6, <1>t, EventKeeps DEF CompleteNode, Ending, InBatch
  <1>7. CASE AskInput(t, n)
    <2>1. CASE copy[t].answers >= manifest.maximum_occurrences
      BY <1>7, <1>t, <2>1, EventKeeps DEF AskInput, Ending, InBatch
    <2>2. CASE ~(copy[t].answers >= manifest.maximum_occurrences)
      BY <1>7, <1>t, <2>2, PauseKeeps DEF AskInput, Ending, InBatch
    <2> QED BY <2>1, <2>2
  <1>8. CASE FailNode(t, n)
    BY <1>8, <1>t, EventKeeps DEF FailNode, InBatch
  <1>9. CASE Call(t, n)
    <2>1. /\ phase' = [phase EXCEPT ![t] = [@ EXCEPT ![n] = "called"]]
          /\ UNCHANGED <<checkpoint, fresh, copy, pc, at, pend, replica, granted>>
          /\ pc[t] \in {"batch", "orphaned"} /\ phase[t][n] = "started"
          /\ manifest.kind[n] = "work"
      BY <1>9 DEF Call, Phase
    <2> USE <1>t, <2>1 DEF checkpoint, replica
    <2>2. TypeOK'
      BY DEF TypeOK
    <2>3. Coherent'
      BY DEF TypeOK, Coherent, Running
    <2>4. Decided' /\ Waits' /\ NoneAfterEnd'
      BY DEF Decided, Waits, Names, NoneAfterEnd, Running
    <2>5. GatedCallsApproved'
      BY DEF TypeOK, GatedCallsApproved
    <2> QED BY <2>2, <2>3, <2>4, <2>5
  <1>10. CASE OrphanEnds(t, n)
    <2>1. /\ phase' = [phase EXCEPT ![t] = [@ EXCEPT ![n] = "out"]]
          /\ UNCHANGED <<checkpoint, fresh, copy, pend, replica, granted>>
          /\ pc[t] = "orphaned" /\ t \notin fresh
          /\ \/ pc' = pc /\ at' = at
             \/ /\ pc' = [pc EXCEPT ![t] = "idle"]
                /\ at' = [at EXCEPT ![t] = {}]
                /\ \A k \in Nodes \ {n} : phase[t][k] = "out"
      BY <1>10 DEF OrphanEnds, Phase, Goes, Coherent
    <2> USE <1>t, <2>1 DEF checkpoint, replica
    <2>2. TypeOK'
      BY DEF TypeOK, Locations, Phases
    <2>3. Coherent'
      BY DEF TypeOK, Coherent, Running
    <2>4. Decided' /\ Waits' /\ NoneAfterEnd'
      BY DEF TypeOK, Decided, Waits, Names, NoneAfterEnd, Running
    <2>5. GatedCallsApproved'
      BY DEF TypeOK, GatedCallsApproved
    <2> QED BY <2>2, <2>3, <2>4, <2>5
  <1> QED BY <1>1, <1>2, <1>3, <1>4, <1>5, <1>6, <1>7, <1>8, <1>9, <1>10 DEF NodeStep

\* The failure and the cancellation of a drive leave approvals as they are.
LEMMA FailKeeps ==
    ASSUME WorkflowInv, NEW t \in Tasks, Running(t), Fail(t)
    PROVE  WorkflowInv'
  <1> DEFINE c == Failure(copy[t])
  <1>1. copy[t] \in Checkpoint /\ granted' = granted /\ granted \subseteq Nodes
    BY DEF WorkflowInv, TypeOK, Fail
  <1>2. /\ c \in Checkpoint /\ c.status = "failed"
        /\ \A k \in Nodes : c.node[k] = "completed" => copy[t].node[k] = "completed"
    BY <1>1 DEF Failure, Checkpoint, WorkflowStatus, Terminal, NodeStatus, Settled
  <1>3. SaveAndLeave(t, c) /\ c.status \in Terminal
    BY <1>2 DEF Fail, Terminal
  <1> HIDE DEF c
  <1>4. \A a \in Nodes : manifest.kind[a] = "approval" /\ c.node[a] = "completed" => a \in granted'
    BY <1>1, <1>2 DEF WorkflowInv, Decided
  <1> QED BY <1>1, <1>2, <1>3, <1>4, LeaveKeeps

\* The steps of a drive.
LEMMA DriveStepKeeps ==
    ASSUME WorkflowInv, NEW t \in Tasks, DriveStep(t)
    PROVE  WorkflowInv'
  <1> USE DEF WorkflowInv
  <1>t. /\ copy[t] \in Checkpoint /\ phase[t] \in [Nodes -> Phases] /\ granted \subseteq Nodes
        /\ Blank \in Checkpoint /\ Blank.status = "none"
    BY WorkflowAssumption
       DEF TypeOK, Blank, Checkpoint, WorkflowStatus, NodeStatus, Interrupted, Awaiting, Terminal
  <1>1. CASE Commit(t)
    <2> DEFINE new == {n \in Nodes : /\ manifest.kind[n] = "approval"
                                     /\ saved.node[n] = "awaiting_approval"
                                     /\ copy[t].node[n] = "completed"}
    <2>1. pc[t] = "loaded" /\ granted' = granted \cup new /\ t \in fresh
      BY <1>1 DEF Commit, SaveAndLeave, Save, Write
    <2>2. /\ granted \subseteq granted' /\ granted' \subseteq Nodes
          /\ \A a \in Nodes : manifest.kind[a] = "approval" /\ copy[t].node[a] = "completed" =>
                 a \in granted'
      BY <1>t, <2>1 DEF Decided
    <2>3. CASE copy[t].status \in Terminal
      BY <1>1, <1>t, <2>2, <2>3, LeaveKeeps DEF Commit
    <2>4. CASE copy[t].status \notin Terminal
      <3>1. /\ Save(t, copy[t]) /\ pc' = [pc EXCEPT ![t] = "plan"]
            /\ pend' = [pend EXCEPT ![t] = Unfinished(copy[t])]
            /\ at' = at /\ phase' = phase /\ mode' = mode /\ active' = active /\ stops' = stops
        BY <1>1, <2>4 DEF Commit, Goes, replica
      <3>2. copy[t].status = "running" /\ Names(copy[t])
        BY <2>1, <2>4 DEF Coherent, Waits, Terminal
      <3>3. /\ pc' \in [Tasks -> Locations] /\ pend' \in [Tasks -> SUBSET Nodes]
            /\ phase' \in [Tasks -> [Nodes -> Phases]]
            /\ \A u \in Tasks \ {t} : pc'[u] = pc[u] /\ phase'[u] = phase[u] /\ pend'[u] = pend[u]
            /\ pc'[t] = "plan" /\ pend'[t] = Unfinished(copy[t])
        BY <3>1 DEF TypeOK, Locations, Unfinished
      <3>4. \A k \in Nodes : /\ phase'[t][k] = "out"
                             /\ k \in pend'[t] => copy[t].node[k] \in {"pending", "running"}
        BY <2>1, <3>1, <3>3 DEF Coherent, Unfinished
      <3>5. \A k \in Nodes :
               /\ phase'[t][k] \in {"queued", "started", "called"} =>
                      copy[t].node[k] \in {"pending", "running"}
               /\ pc'[t] = "batch" /\ copy[t].status \in Awaiting /\ k = copy[t].pause =>
                      phase'[t][k] = "done"
               /\ k \in pend'[t] /\ phase'[t][k] = "out" =>
                      copy[t].node[k] \in {"pending", "running"}
               /\ pc'[t] = "plan" => phase'[t][k] = "out"
               /\ phase'[t][k] = "called" /\ manifest.kind[k] = "gated" =>
                      Covering(manifest, k) # {} /\ Covering(manifest, k) \subseteq granted'
        BY <3>3, <3>4
      <3> QED BY <1>t, <2>2, <3>1, <3>2, <3>3, <3>5, SaveKeeps
    <2> QED BY <2>3, <2>4
  <1>2. CASE Conflict(t)
    <2>1. /\ t \notin fresh /\ copy' = [copy EXCEPT ![t] = Blank]
          /\ pend' = [pend EXCEPT ![t] = {}] /\ active' = active \ at[t]
          /\ phase' = [phase EXCEPT ![t] =
                          [n \in Nodes |-> IF n \in Orphans(t) THEN phase[t][n] ELSE "out"]]
          /\ manifest' = manifest /\ saved' = saved /\ overdue' = overdue
          /\ fresh' = fresh /\ mode' = mode /\ stops' = stops /\ granted' = granted
          /\ \/ /\ Orphans(t) = {} /\ pc' = [pc EXCEPT ![t] = "idle"]
                /\ at' = [at EXCEPT ![t] = {}]
             \/ Orphans(t) # {} /\ pc' = [pc EXCEPT ![t] = "orphaned"] /\ at' = at
      BY <1>2 DEF Conflict, Goes, checkpoint
    <2> USE <1>t, <2>1
    <2>2. TypeOK'
      BY DEF TypeOK, Locations, Phases
    <2>3. Coherent'
      BY DEF TypeOK, Coherent, Running
    <2>4. Decided' /\ Waits' /\ NoneAfterEnd'
      BY DEF TypeOK, Decided, Waits, Names, NoneAfterEnd, Running, Awaiting
    <2>5. GatedCallsApproved'
      BY DEF TypeOK, GatedCallsApproved
    <2> QED BY <2>2, <2>3, <2>4, <2>5
  <1>3. CASE Suspend(t)
    <2>1. /\ copy' = [copy EXCEPT ![t] = Blank] /\ fresh' = fresh \ {t}
          /\ pend' = [pend EXCEPT ![t] = {}] /\ active' = active \ at[t]
          /\ phase' = [phase EXCEPT ![t] = [n \in Nodes |-> "out"]]
          /\ manifest' = manifest /\ saved' = saved /\ overdue' = overdue
          /\ mode' = mode /\ stops' = stops /\ granted' = granted
          /\ pc' = [pc EXCEPT ![t] = "idle"] /\ at' = [at EXCEPT ![t] = {}]
      BY <1>3 DEF Suspend, Leave, Goes, Quiet, checkpoint
    <2> USE <1>t, <2>1
    <2>2. TypeOK'
      BY DEF TypeOK, Locations, Phases
    <2>3. Coherent'
      BY DEF TypeOK, Coherent, Running
    <2>4. Decided' /\ Waits' /\ NoneAfterEnd'
      BY DEF TypeOK, Decided, Waits, Names, NoneAfterEnd, Running, Awaiting
    <2>5. GatedCallsApproved'
      BY DEF TypeOK, GatedCallsApproved
    <2> QED BY <2>2, <2>3, <2>4, <2>5
  <1>4. CASE Dispatch(t)
    <2>1. /\ pc[t] = "plan" /\ copy[t].status = "running" /\ pc' = [pc EXCEPT ![t] = "batch"]
          /\ phase' = [phase EXCEPT ![t] = [n \in Nodes |-> IF n \in Batch(copy[t], pend[t])
                                                            THEN "queued" ELSE "out"]]
          /\ UNCHANGED <<checkpoint, fresh, copy, at, pend, replica, granted>>
          /\ Batch(copy[t], pend[t]) \subseteq pend[t]
      BY <1>4 DEF Dispatch, Planning, Goes, Batch, Ready
    <2> USE <1>t, <2>1 DEF checkpoint, replica
    <2>2. TypeOK'
      BY DEF TypeOK, Locations, Phases
    <2>3. Coherent'
      BY DEF TypeOK, Coherent, Running, Awaiting
    <2>4. Decided' /\ Waits' /\ NoneAfterEnd'
      BY DEF TypeOK, Decided, Waits, Names, NoneAfterEnd, Running
    <2>5. GatedCallsApproved'
      BY DEF TypeOK, GatedCallsApproved
    <2> QED BY <2>2, <2>3, <2>4, <2>5
  <1>5. CASE NoneReady(t) \/ TimesOut(t)
    BY <1>5, FailKeeps DEF NoneReady, TimesOut, Planning, Running
  <1>6. CASE EndBatch(t)
    <2> DEFINE batch == {n \in Nodes : phase[t][n] # "out"}
    <2>1. pc[t] = "batch" /\ \A n \in batch : phase[t][n] = "done"
      BY <1>6 DEF EndBatch
    <2>2. CASE Fail(t)
      BY <2>1, <2>2, FailKeeps DEF Running
    <2>3. CASE ~Fail(t)
      <3>1. /\ pc' = [pc EXCEPT ![t] = "plan"]
            /\ phase' = [phase EXCEPT ![t] = [n \in Nodes |-> "out"]]
            /\ pend' = [pend EXCEPT ![t] = @ \ batch]
            /\ UNCHANGED <<checkpoint, fresh, copy, at, replica, granted>>
        BY <1>6, <2>3 DEF EndBatch, Goes, Quiet
      <3> USE <1>t, <2>1, <3>1 DEF checkpoint, replica
      <3>2. TypeOK'
        BY DEF TypeOK, Locations, Phases
      <3>3. Coherent'
        BY DEF TypeOK, Coherent, Running
      <3>4. Decided' /\ Waits' /\ NoneAfterEnd'
        BY DEF TypeOK, Decided, Waits, Names, NoneAfterEnd, Running
      <3>5. GatedCallsApproved'
        BY DEF TypeOK, GatedCallsApproved
      <3> QED BY <3>2, <3>3, <3>4, <3>5
    <2> QED BY <2>2, <2>3
  <1>7. ASSUME NEW valid \in BOOLEAN, Finish(t, valid) PROVE WorkflowInv'
    <2> DEFINE failed == {n \in Nodes : /\ copy[t].node[n] = "failed"
                                        /\ manifest.failure[n] # "continue"}
               r == IF valid /\ failed = {} THEN "completed" ELSE "failed"
               c == [copy[t] EXCEPT !.status = r]
    <2>1. r \in Terminal /\ r \in WorkflowStatus
      BY DEF Terminal, WorkflowStatus
    <2>2. SaveAndLeave(t, c) /\ Running(t) /\ granted' = granted
      BY <1>7 DEF Finish, Planning, Running
    <2> HIDE DEF r
    <2>3. c \in Checkpoint /\ c.status \in Terminal /\ c.node = copy[t].node
      BY <1>t, <2>1 DEF Checkpoint
    <2> HIDE DEF c
    <2>4. \A a \in Nodes : manifest.kind[a] = "approval" /\ c.node[a] = "completed" =>
              a \in granted'
      BY <2>2, <2>3 DEF Decided
    <2> QED BY <1>t, <2>2, <2>3, <2>4, LeaveKeeps
  <1>8. CASE Cancel(t)
    <2> DEFINE c == [copy[t] EXCEPT !.status = "cancelled",
                                    !.node = [n \in Nodes |-> IF n \in Unfinished(copy[t])
                                                              THEN "cancelled" ELSE @[n]]]
    <2>1. SaveAndLeave(t, c) /\ Running(t) /\ granted' = granted
      BY <1>8 DEF Cancel
    <2>2. /\ c \in Checkpoint /\ c.status \in Terminal
          /\ \A k \in Nodes : c.node[k] = "completed" => copy[t].node[k] = "completed"
      BY <1>t DEF Checkpoint, WorkflowStatus, Terminal, NodeStatus, Settled
    <2> HIDE DEF c
    <2>3. \A a \in Nodes : manifest.kind[a] = "approval" /\ c.node[a] = "completed" =>
              a \in granted'
      BY <2>1, <2>2 DEF Decided
    <2> QED BY <1>t, <2>1, <2>2, <2>3, LeaveKeeps
  <1> QED BY <1>1, <1>2, <1>3, <1>4, <1>5, <1>6, <1>7, <1>8 DEF DriveStep

\* Replicas and time.
LEMMA ReplicaStepKeeps ==
    ASSUME WorkflowInv,
           Expire \/ \E p \in Procs : NothingToRecover(p) \/ Drain(p) \/ Stop(p) \/ Boot(p)
    PROVE  WorkflowInv'
  <1> USE DEF WorkflowInv
  <1>1. CASE Expire
    <2>1. overdue' = TRUE /\ UNCHANGED <<manifest, saved, task, replica, granted>>
      BY <1>1 DEF Expire
    <2> QED BY <2>1 DEF task, replica, TypeOK, Coherent, Decided, Waits, Names, NoneAfterEnd,
                        GatedCallsApproved, Running
  <1>2. ASSUME NEW p \in Procs, NothingToRecover(p) \/ Drain(p) \/ Boot(p)
        PROVE  WorkflowInv'
    <2>1. /\ UNCHANGED <<checkpoint, task, active, stops, granted>>
          /\ mode' \in [Procs -> {"up", "starting", "draining", "down"}]
      BY <1>2 DEF NothingToRecover, Drain, Boot, TypeOK
    <2> QED BY <2>1 DEF checkpoint, task, TypeOK, Coherent, Decided, Waits, Names, NoneAfterEnd,
                        GatedCallsApproved, Running
  <1>3. ASSUME NEW p \in Procs, Stop(p) PROVE WorkflowInv'
    <2> DEFINE mine == {t \in Tasks : p \in at[t]}
    <2>1. /\ stops' = stops + 1 /\ mode' = [mode EXCEPT ![p] = "down"] /\ active' = active \ {p}
          /\ pc' = [t \in Tasks |-> IF t \in mine THEN "idle" ELSE pc[t]]
          /\ pend' = [t \in Tasks |-> IF t \in mine THEN {} ELSE pend[t]]
          /\ phase' = [t \in Tasks |-> IF t \in mine THEN [n \in Nodes |-> "out"] ELSE phase[t]]
          /\ copy' = [t \in Tasks |-> IF t \in mine THEN Blank ELSE copy[t]]
          /\ at' = [t \in Tasks |-> IF t \in mine THEN {} ELSE at[t]]
          /\ fresh' = fresh \ mine
          /\ manifest' = manifest /\ saved' = saved /\ overdue' = overdue /\ granted' = granted
      BY <1>3 DEF Stop, checkpoint
    <2>2. Blank \in Checkpoint /\ Blank.status = "none"
      BY WorkflowAssumption
         DEF Blank, Checkpoint, WorkflowStatus, NodeStatus, Interrupted, Awaiting, Terminal
    <2> HIDE DEF mine
    <2> USE <2>1, <2>2
    <2>3. TypeOK'
      BY DEF TypeOK, Locations, Phases
    <2>4. Coherent'
      BY DEF TypeOK, Coherent, Running
    <2>5. Decided' /\ Waits' /\ NoneAfterEnd'
      BY DEF TypeOK, Decided, Waits, Names, NoneAfterEnd, Running, Awaiting
    <2>6. GatedCallsApproved'
      BY DEF TypeOK, GatedCallsApproved
    <2> QED BY <2>3, <2>4, <2>5, <2>6
  <1> QED BY <1>1, <1>2, <1>3

\* The inductive invariant of the specification.
THEOREM WorkflowInvariant == Spec => []WorkflowInv
  <1>1. ASSUME WorkflowInv, [Next]_vars PROVE WorkflowInv'
    <2>1. CASE UNCHANGED vars
      BY <1>1, <2>1 DEF vars, checkpoint, task, replica, WorkflowInv, TypeOK, Coherent, Decided,
                        Waits, Names, NoneAfterEnd, GatedCallsApproved, Running
    <2>2. CASE Next
      BY <1>1, <2>2, RequestKeeps, NodeStepKeeps, DriveStepKeeps, ReplicaStepKeeps DEF Next
    <2> QED BY <1>1, <2>1, <2>2
  <1> QED BY <1>1, InitInv, PTL DEF Spec

\* The variables have their types: the checkpoint, the copies and the tasks of every replica.
THEOREM TypeCorrect == Spec => []TypeOK
  <1>1. WorkflowInv => TypeOK
    BY DEF WorkflowInv
  <1> QED BY <1>1, WorkflowInvariant, PTL

\* A tool that requires approval is never called before a person approved every gate of its
\* step, for any manifest and any interleaving of drives, decisions, expiries and restarts.
THEOREM ApprovalGate == Spec => []GatedCallsApproved
  <1>1. WorkflowInv => GatedCallsApproved
    BY DEF WorkflowInv
  <1> QED BY <1>1, WorkflowInvariant, PTL

\* Whatever the run waits for can be answered: the pause and the node it names agree, also
\* when nodes of one batch take the pause from one another.
THEOREM WaitsCanEnd == Spec => []WaitCanEnd
  <1>1. WorkflowInv => WaitCanEnd
    BY DEF WorkflowInv, Waits, Names, WaitCanEnd
  <1> QED BY <1>1, WorkflowInvariant, PTL

-----------------------------------------------------------------------------
(* What a save may change.                                                 *)

\* Only a current task, or the start of the run, changes the stored checkpoint.
LEMMA Writers ==
    ASSUME WorkflowInv, Next, saved' # saved
    PROVE  saved.status = "none" \/ fresh # {}
  <1>1. ASSUME NEW t \in Tasks, NEW p \in Procs, Request(t, p) PROVE saved.status = "none"
    BY <1>1 DEF Request, Start, Answer, Sweep, Recover, Decide, checkpoint
  <1>2. ASSUME NEW t \in Tasks, NEW n \in Nodes, NodeStep(t, n) PROVE t \in fresh
    BY <1>2 DEF NodeStep, SkipBlocked, SkipNode, StartNode, AskApproval, Call, CallGated,
                CompleteNode, AskInput, FailNode, OrphanEnds, NodeEvent, Save, Write, checkpoint
  <1>3. ASSUME NEW t \in Tasks, DriveStep(t) PROVE t \in fresh
    BY <1>3 DEF DriveStep, Commit, Conflict, Suspend, Dispatch, NoneReady, EndBatch, Finish,
                TimesOut, Cancel, Fail, SaveAndLeave, Save, Write, checkpoint
  <1>4. ~(Expire \/ \E p \in Procs : NothingToRecover(p) \/ Drain(p) \/ Stop(p) \/ Boot(p))
    BY DEF Expire, NothingToRecover, Drain, Stop, Boot, checkpoint
  <1> QED BY <1>1, <1>2, <1>3, <1>4 DEF Next

\* Nothing writes over a run that is over.
THEOREM EndIsFinal == Spec => OverIsOver
  <1>1. ASSUME WorkflowInv, [Next]_vars PROVE [saved.status \in Terminal => saved' = saved]_saved
    <2>1. CASE UNCHANGED vars
      BY <2>1 DEF vars, checkpoint
    <2>2. CASE Next
      BY <1>1, <2>2, Writers DEF WorkflowInv, NoneAfterEnd, Terminal
    <2> QED BY <1>1, <2>1, <2>2
  <1> QED BY <1>1, WorkflowInvariant, PTL DEF Spec, OverIsOver

\* The checkpoint c keeps what the stored one has done, but for the node that waits.
Keeps(c) == \A n \in Nodes : saved.node[n] \in Settled =>
                                 c.node[n] = saved.node[n] \/ n = saved.pause

\* What a batch saves keeps it: it moves nodes that are not done.
LEMMA NodeStepKeepsDone ==
    ASSUME WorkflowInv, NEW t \in Tasks, NEW n \in Nodes, NodeStep(t, n)
    PROVE  Keeps(saved')
  <1>1. CASE saved' = saved
    BY <1>1 DEF Keeps
  <1>2. CASE saved' # saved
    <2>1. t \in fresh /\ Running(t) /\ copy[t] = saved /\ saved \in Checkpoint
      <3>1. t \in fresh /\ Running(t)
        BY <1>2 DEF NodeStep, SkipBlocked, SkipNode, StartNode, AskApproval, Call, CallGated,
                    CompleteNode, AskInput, FailNode, OrphanEnds, NodeEvent, Save, Write,
                    checkpoint, InBatch, Ending, Planning, Running
      <3> QED BY <3>1 DEF WorkflowInv, Coherent, TypeOK
    <2>2. saved.node[n] \notin Settled
      <3>1. CASE SkipBlocked(t, n)
        BY <2>1, <3>1 DEF SkipBlocked, Planning, Blocked, WorkflowInv, Coherent, Settled
      <3>2. CASE pc[t] = "batch" /\ phase[t][n] \in {"queued", "started", "called"}
        BY <2>1, <3>2 DEF WorkflowInv, Coherent, Settled
      <3> QED BY <1>2, <3>1, <3>2
              DEF NodeStep, SkipNode, StartNode, AskApproval, Call, CallGated, CompleteNode,
                  AskInput, FailNode, OrphanEnds, InBatch, Ending, checkpoint
    <2>3. \A k \in Nodes \ {n} : saved'.node[k] = saved.node[k]
      <3> USE <2>1 DEF NodeEvent, Save, Write
      <3>1. CASE SkipBlocked(t, n) \/ SkipNode(t, n) \/ StartNode(t, n)
        BY <3>1 DEF SkipBlocked, SkipNode, StartNode, Settle, Checkpoint
      <3>2. CASE CompleteNode(t, n) \/ FailNode(t, n)
        BY <3>2 DEF CompleteNode, FailNode, Settle, Checkpoint
      <3>3. CASE AskApproval(t, n)
        BY <3>3 DEF AskApproval, Settle, Checkpoint
      <3>4. CASE AskInput(t, n)
        BY <3>4 DEF AskInput, Settle, Checkpoint
      <3>5. CASE Call(t, n) \/ CallGated(t, n) \/ OrphanEnds(t, n)
        BY <3>5 DEF Call, CallGated, OrphanEnds, checkpoint
      <3> QED BY <3>1, <3>2, <3>3, <3>4, <3>5 DEF NodeStep
    <2> QED BY <2>2, <2>3 DEF Keeps
  <1> QED BY <1>1, <1>2

\* So does what a drive saves when it starts and when it ends.
LEMMA DriveStepKeepsDone ==
    ASSUME WorkflowInv, NEW t \in Tasks, DriveStep(t)
    PROVE  Keeps(saved')
  <1>t. saved \in Checkpoint /\ copy[t] \in Checkpoint
    BY DEF WorkflowInv, TypeOK
  <1>1. CASE Commit(t)
    <2>1. pc[t] = "loaded" /\ t \in fresh /\ saved' = copy[t]
      BY <1>1 DEF Commit, SaveAndLeave, Save, Write
    <2> QED BY <2>1 DEF Keeps, WorkflowInv, Coherent
  <1>2. ASSUME Running(t), Fail(t) PROVE Keeps(saved')
    <2>1. copy[t] = saved /\ saved' = Failure(saved)
      BY <1>2 DEF Fail, SaveAndLeave, Write, WorkflowInv, Coherent
    <2> QED BY <1>t, <2>1 DEF Failure, Keeps, Settled, Checkpoint
  <1>3. CASE NoneReady(t) \/ TimesOut(t)
    BY <1>2, <1>3 DEF NoneReady, TimesOut, Planning, Running
  <1>4. CASE EndBatch(t)
    <2>1. CASE Fail(t)
      BY <1>2, <1>4, <2>1 DEF EndBatch, Running
    <2>2. CASE ~Fail(t)
      BY <1>4, <2>2 DEF EndBatch, checkpoint, Keeps
    <2> QED BY <2>1, <2>2
  <1>5. CASE Conflict(t) \/ Suspend(t) \/ Dispatch(t)
    BY <1>5 DEF Conflict, Suspend, Dispatch, checkpoint, Keeps
  <1>6. ASSUME NEW valid \in BOOLEAN, Finish(t, valid) PROVE Keeps(saved')
    <2>1. copy[t] = saved
      BY <1>6 DEF Finish, Planning, Running, SaveAndLeave, Write, WorkflowInv, Coherent
    <2>2. saved'.node = saved.node
      BY <1>6, <1>t, <2>1 DEF Finish, SaveAndLeave, Write, Checkpoint
    <2> QED BY <2>2 DEF Keeps
  <1>7. CASE Cancel(t)
    <2>1. copy[t] = saved
      BY <1>7 DEF Cancel, Running, SaveAndLeave, Write, WorkflowInv, Coherent
    <2>2. saved' = [saved EXCEPT !.status = "cancelled",
                                 !.node = [n \in Nodes |-> IF n \in Unfinished(saved)
                                                           THEN "cancelled" ELSE saved.node[n]]]
      BY <1>7, <2>1 DEF Cancel, SaveAndLeave, Write
    <2> QED BY <1>t, <2>2 DEF Keeps, Settled, Unfinished, Checkpoint
  <1> QED BY <1>1, <1>3, <1>4, <1>5, <1>6, <1>7 DEF DriveStep

\* A node that is done keeps its outcome, whoever drives the run afterwards.
THEOREM DoneIsKept == Spec => DoneStaysDone
  <1>1. ASSUME WorkflowInv, [Next]_vars
        PROVE  [\A n \in Nodes : saved.node[n] \in Settled =>
                    saved'.node[n] = saved.node[n] \/ n = saved.pause]_saved
    <2>1. CASE UNCHANGED vars
      BY <2>1 DEF vars, checkpoint
    <2>2. ASSUME NEW t \in Tasks, NEW p \in Procs, Request(t, p) PROVE Keeps(saved')
      <3>1. saved \in Checkpoint
        BY <1>1 DEF WorkflowInv, TypeOK
      <3>2. saved'.node = saved.node
        BY <2>2, <3>1 DEF Request, Start, Answer, Sweep, Recover, Decide, checkpoint, Checkpoint
      <3> QED BY <3>2 DEF Keeps
    <2>3. CASE Expire \/ \E p \in Procs : NothingToRecover(p) \/ Drain(p) \/ Stop(p) \/ Boot(p)
      BY <2>3 DEF Expire, NothingToRecover, Drain, Stop, Boot, checkpoint
    <2>4. CASE Next
      BY <1>1, <2>2, <2>3, <2>4, NodeStepKeepsDone, DriveStepKeepsDone DEF Next, Keeps
    <2> QED BY <1>1, <2>1, <2>4
  <1> QED BY <1>1, WorkflowInvariant, PTL DEF Spec, DoneStaysDone

-----------------------------------------------------------------------------
(* Dependencies.                                                           *)

\* What a node of a batch rests on was there when the batch was chosen, and no other node of
\* the batch takes it away: those are still to be settled.
BatchReady ==
    \A t \in Tasks : pc[t] = "batch" =>
        \A n \in Nodes : phase[t][n] \in {"queued", "started", "called"} =>
            \A d \in manifest.deps[n] : Satisfies(copy[t], d, n)

\* The steps of a batch: one node is settled, or moves on, and the others keep their ground.
LEMMA NodeStepKeepsReady ==
    ASSUME WorkflowInv, BatchReady, NEW t \in Tasks, NEW n \in Nodes, NodeStep(t, n)
    PROVE  BatchReady'
  <1>1. /\ manifest' = manifest /\ manifest \in Manifest
        /\ copy \in [Tasks -> Checkpoint] /\ pc \in [Tasks -> Locations]
        /\ phase \in [Tasks -> [Nodes -> Phases]] /\ phase[t] \in [Nodes -> Phases]
        /\ copy[t] \in Checkpoint
    BY WorkflowAssumption
    DEF NodeStep, SkipBlocked, SkipNode, StartNode, AskApproval, Call, CallGated, CompleteNode,
        AskInput, FailNode, OrphanEnds, NodeEvent, Save, Write, checkpoint, WorkflowInv, TypeOK
  <1>2. \A u \in Tasks \ {t} : copy'[u] = copy[u] /\ pc'[u] = pc[u] /\ phase'[u] = phase[u]
    BY <1>1 DEF NodeStep, SkipBlocked, SkipNode, StartNode, AskApproval, Call, CallGated,
       CompleteNode, AskInput, FailNode, OrphanEnds, NodeEvent, Save, Goes, Phase
  <1>3. CASE SkipBlocked(t, n) \/ (pc[t] = "orphaned" /\ (Call(t, n) \/ OrphanEnds(t, n)))
    <2>1. pc'[t] # "batch"
      BY <1>1, <1>3 DEF SkipBlocked, Planning, Call, OrphanEnds, Goes
    <2> QED BY <1>1, <1>2, <2>1 DEF BatchReady, Satisfies
  <1>4. CASE ~SkipBlocked(t, n) /\ ~(pc[t] = "orphaned" /\ (Call(t, n) \/ OrphanEnds(t, n)))
    <2>1. pc[t] = "batch" /\ phase[t][n] \in {"queued", "started", "called"}
      BY <1>4 DEF NodeStep, SkipNode, StartNode, AskApproval, Call, CallGated, CompleteNode,
         AskInput, FailNode, OrphanEnds, InBatch, Ending
    <2>2. \A m \in Nodes : phase'[t][m] \in {"queued", "started", "called"} =>
                              phase[t][m] \in {"queued", "started", "called"}
      BY <1>1, <1>4, <2>1 DEF NodeStep, SkipNode, StartNode, AskApproval, Call, CallGated,
         CompleteNode, AskInput, FailNode, OrphanEnds, NodeEvent, Phase
    <2>3. copy[t].node[n] \in {"pending", "running"}
      BY <2>1 DEF WorkflowInv, Coherent
    <2>4. \A k \in Nodes \ {n} : copy'[t].node[k] = copy[t].node[k]
      <3>1. CASE SkipNode(t, n) \/ StartNode(t, n) \/ CompleteNode(t, n) \/ FailNode(t, n)
        BY <1>1, <3>1 DEF SkipNode, StartNode, CompleteNode, FailNode, NodeEvent, Save, Settle,
           Checkpoint
      <3>2. CASE AskApproval(t, n)
        BY <1>1, <3>2 DEF AskApproval, NodeEvent, Save, Settle, Checkpoint
      <3>3. CASE AskInput(t, n)
        BY <1>1, <3>3 DEF AskInput, NodeEvent, Save, Settle, Checkpoint
      <3>4. CASE Call(t, n) \/ CallGated(t, n)
        BY <1>1, <3>4 DEF Call, CallGated, NodeEvent, Save
      <3> QED BY <1>4, <2>1, <3>1, <3>2, <3>3, <3>4 DEF NodeStep, OrphanEnds
    <2>5. ASSUME NEW m \in Nodes, phase'[t][m] \in {"queued", "started", "called"},
                 NEW d \in manifest.deps[m]
          PROVE  Satisfies(copy[t], d, m)'
      <3>1. Satisfies(copy[t], d, m) /\ d \in Nodes
        BY <1>1, <2>1, <2>2, <2>5 DEF BatchReady, Manifest
      <3>2. d # n
        BY <2>3, <3>1 DEF Satisfies
      <3> QED BY <1>1, <2>4, <3>1, <3>2 DEF Satisfies
    <2>6. ASSUME NEW u \in Tasks \ {t}, pc'[u] = "batch", NEW m \in Nodes,
                 phase'[u][m] \in {"queued", "started", "called"}, NEW d \in manifest.deps[m]
          PROVE  Satisfies(copy[u], d, m)'
      <3>1. Satisfies(copy[u], d, m)
        BY <1>2, <2>6 DEF BatchReady
      <3> QED BY <1>1, <1>2, <3>1 DEF Satisfies
    <2> QED BY <1>1, <2>5, <2>6 DEF BatchReady
  <1> QED BY <1>3, <1>4

\* The other steps start no node, but for the choice of a batch among the nodes that are ready.
LEMMA OtherStepsKeepReady ==
    ASSUME WorkflowInv, BatchReady, [Next]_vars,
           ~ \E t \in Tasks, n \in Nodes : NodeStep(t, n)
    PROVE  BatchReady'
  <1> DEFINE Same(t) == UNCHANGED <<pc[t], copy[t], phase[t]>>
  <1>1. /\ manifest' = manifest
        /\ pc \in [Tasks -> Locations] /\ copy \in [Tasks -> Checkpoint]
        /\ phase \in [Tasks -> [Nodes -> Phases]]
    BY DEF WorkflowInv, TypeOK, Next, vars, checkpoint, Request, Start, Answer, Sweep, Recover,
       Decide, DriveStep, Commit, Conflict, Suspend, Dispatch, NoneReady, EndBatch, Finish, TimesOut,
       Cancel, Fail, SaveAndLeave, Save, Write, NothingToRecover, Drain, Stop, Boot, Expire
  <1>2. SUFFICES ASSUME NEW t \in Tasks
                 PROVE  \/ Same(t) \/ pc'[t] # "batch"
                        \/ \A n \in Nodes : phase'[t][n] \in {"queued", "started", "called"} =>
                               \A d \in manifest.deps[n] : Satisfies(copy'[t], d, n)
    BY <1>1 DEF BatchReady, Satisfies
  <1>3. ASSUME NEW u \in Tasks, NEW p \in Procs, Request(u, p) PROVE Same(t) \/ pc'[t] # "batch"
    BY <1>1, <1>3 DEF Request, Start, Answer, Sweep, Recover, Decide, Spawn, Goes
  <1>4. ASSUME NEW u \in Tasks, Dispatch(u)
        PROVE  \/ Same(t)
               \/ \A n \in Nodes : phase'[t][n] \in {"queued", "started", "called"} =>
                      \A d \in manifest.deps[n] : Satisfies(copy'[t], d, n)
    <2>1. CASE t = u
      BY <1>1, <1>4, <2>1 DEF Dispatch, Batch, Ready
    <2>2. CASE t # u
      BY <1>1, <1>4, <2>2 DEF Dispatch, Goes
    <2> QED BY <2>1, <2>2
  <1>5. ASSUME NEW u \in Tasks, Leave(u) /\ copy' = [copy EXCEPT ![u] = Blank]
        PROVE  Same(t) \/ pc'[t] # "batch"
    BY <1>1, <1>5 DEF Leave, Goes, Quiet
  <1>6. ASSUME NEW u \in Tasks, DriveStep(u), ~Dispatch(u) PROVE Same(t) \/ pc'[t] # "batch"
    <2>1. CASE Conflict(u)
      BY <1>1, <2>1 DEF Conflict, Goes
    <2>2. CASE Commit(u)
      BY <1>1, <1>5, <2>2 DEF Commit, SaveAndLeave, Leave, Save, Goes
    <2>3. CASE EndBatch(u)
      BY <1>1, <1>5, <2>3 DEF EndBatch, Fail, SaveAndLeave, Leave, Goes, Quiet
    <2>4. CASE Suspend(u) \/ NoneReady(u) \/ TimesOut(u) \/ Cancel(u) \/ \E valid \in BOOLEAN : Finish(u, valid)
      BY <1>5, <2>4 DEF Suspend, NoneReady, TimesOut, Cancel, Finish, Fail, SaveAndLeave, Leave
    <2> QED BY <1>6, <2>1, <2>2, <2>3, <2>4 DEF DriveStep
  <1>7. ASSUME NEW p \in Procs, NothingToRecover(p) \/ Drain(p) \/ Stop(p) \/ Boot(p)
        PROVE  Same(t) \/ pc'[t] # "batch"
    BY <1>1, <1>7 DEF NothingToRecover, Drain, Stop, Boot, task
  <1>8. CASE Expire \/ UNCHANGED vars
    BY <1>8 DEF Expire, task, vars
  <1> QED BY <1>3, <1>4, <1>6, <1>7, <1>8 DEF Next

\* A node runs in a current drive only while every dependency has an outcome that lets it, for
\* any manifest and any interleaving of drives, answers, decisions and recoveries (_schedule).
THEOREM RunsAfterItsDependencies == Spec => []DependenciesHold
  <1>1. Init => BatchReady
    BY DEF Init, BatchReady
  <1>2. WorkflowInv /\ BatchReady /\ [Next]_vars => BatchReady'
    BY NodeStepKeepsReady, OtherStepsKeepReady
  <1>3. WorkflowInv /\ BatchReady => DependenciesHold
    <2> SUFFICES ASSUME WorkflowInv, BatchReady, NEW t \in fresh, NEW n \in Nodes,
                        Running(t), phase[t][n] \in {"started", "called"}
                 PROVE  \A d \in manifest.deps[n] : Satisfies(saved, d, n)
      BY DEF DependenciesHold
    <2>1. t \in Tasks /\ copy[t] = saved
      BY DEF WorkflowInv, TypeOK, Coherent
    <2>2. pc[t] = "batch"
      BY <2>1 DEF WorkflowInv, Coherent, Running
    <2> QED BY <2>1, <2>2 DEF BatchReady
  <1> QED BY <1>1, <1>2, <1>3, WorkflowInvariant, PTL DEF Spec

=============================================================================
