----------------------------- MODULE ScrumTeam_proofs ----------------------------
(*****************************************************************************)
(* Proofs of the safety properties of ScrumTeam, for any number of stories,  *)
(* agents, acceptance threads and sprints.                                   *)
(*****************************************************************************)
EXTENDS ScrumTeam, TLAPS

(* processVars is only an abbreviation. *)
USE DEF processVars

-----------------------------------------------------------------------------
(* What the board operators do to the board's types. *)

(* A legal move changes the state and the stamp of one story, within their    *)
(* types.                                                                     *)
LEMMA MoveType ==
  ASSUME BoardTypeOK, NEW s \in Stories, NEW to \in States, Move(s, to)
  PROVE  /\ state' = [state EXCEPT ![s] = to]
         /\ state' \in [Stories -> States]
         /\ activation' \in [Stories -> Activations]
BY DEF Move, BoardTypeOK, Activations

(* An attempted move either is a move or leaves the story where it is. *)
LEMMA TryMoveType ==
  ASSUME BoardTypeOK, NEW s \in Stories, NEW to \in States, TryMove(s, to)
  PROVE  /\ state' \in {state, [state EXCEPT ![s] = to]}
         /\ Legal(s, to) => state' = [state EXCEPT ![s] = to]
         /\ state' \in [Stories -> States]
         /\ activation' \in [Stories -> Activations]
<1>1. CASE Move(s, to)
  BY <1>1, MoveType
<1>2. CASE ~Legal(s, to) /\ UNCHANGED <<state, activation>>
  BY <1>2 DEF BoardTypeOK
<1> QED
  BY <1>1, <1>2 DEF TryMove

(* Counting an attempt stays within the counter's range. *)
LEMMA NextAttemptType ==
  ASSUME BoardTypeOK, NEW s \in Stories
  PROVE  NextAttempt(s) \in 0 .. AttemptCap
BY BoardAssumption DEF NextAttempt, BoardTypeOK

(* The columns the actions name are columns of the board. *)
LEMMA StateNames ==
  /\ "draft" \in States /\ "refinement" \in States /\ "ready" \in States
  /\ "in_progress" \in States /\ "review" \in States
  /\ "pending_acceptance" \in States /\ "done" \in States /\ "blocked" \in States
  /\ "absent" \in States
BY DEF States

-----------------------------------------------------------------------------
(* Type correctness.  Two bounds make the counters' types inductive: a story  *)
(* in front of the customer has not used up its rejects, and a boundary only  *)
(* runs while there is a sprint left to open.                                 *)
TypeInv ==
  /\ TypeOK
  /\ \A s \in reviewing : rejects[s] < CustomerMaxRejects
  /\ boundary.phase # "none" => sprint < MaxSprints

(* The typing invariant holds on a freshly decomposed board. *)
LEMMA TypeInit == Init => TypeInv
<1> SUFFICES ASSUME Init PROVE TypeInv
  OBVIOUS
<1>1. BoardTypeOK
  BY BoardAssumption DEF Init, BoardInit, BoardTypeOK, States, Activations
<1>2. MergeTypeOK
  BY DEF Init, MergeInit, MergeTypeOK, NoRequest, WorkerPhases, Requests
<1>3. DeliveryTypeOK
  BY DEF Init, DeliveryInit, DeliveryTypeOK
<1>4. CeremoniesTypeOK
  <2>1. EmptyBatch \in Snapshots /\ NoBoundary \in Boundaries
    BY DEF Snapshots, EmptyBatch, Boundaries, NoBoundary
  <2>2. rejects \in [Stories -> 0 .. CustomerMaxRejects] /\ sprint \in 0 .. MaxSprints
    BY CeremoniesAssumption DEF Init, CeremoniesInit
  <2> QED
    BY <2>1, <2>2 DEF Init, CeremoniesInit, NoElevation, CeremoniesTypeOK
<1>5. /\ \A s \in reviewing : rejects[s] < CustomerMaxRejects
      /\ boundary.phase = "none"
      /\ restarts \in 0 .. MaxRestarts
      /\ orphans \in SUBSET Stories
      /\ torn \in BOOLEAN
  <2>1. orphans \in SUBSET Stories /\ torn \in BOOLEAN
    BY DEF Init
  <2> QED
    BY <2>1, ScrumTeamAssumption DEF Init, CeremoniesInit, NoBoundary
<1> QED
  BY <1>1, <1>2, <1>3, <1>4, <1>5 DEF TypeInv, TypeOK

(* The delivery agents preserve the types. *)
LEMMA TypeDelivery ==
  ASSUME TypeInv, NEW sn \in Nat, DeliveryNext(sn)
  PROVE  BoardTypeOK' /\ MergeTypeOK' /\ DeliveryTypeOK'
<1> USE DEF TypeInv, TypeOK
<1>0. PICK a \in Actors :
        \/ \E s \in Stories : Pull(a, s, sn)
        \/ CommitLanded(a)
        \/ CommitRefused(a)
        \/ \E hard \in BOOLEAN : NoCommit(a, hard)
        \/ RestartAgent(a)
  BY DEF DeliveryNext
<1>1. CASE \E s \in Stories : Pull(a, s, sn)
  <2> PICK s \in Stories : Pull(a, s, sn)
    BY <1>1
  <2>1. BoardTypeOK'
    BY MoveType, StateNames DEF Pull, ClaimStory, BoardTypeOK
  <2>2. MergeTypeOK'
    BY DEF Pull, mergeVars, MergeTypeOK
  <2>3. DeliveryTypeOK'
    BY DEF Pull, DeliveryTypeOK, Idle
  <2> QED
    BY <2>1, <2>2, <2>3
<1>2. CASE CommitLanded(a)
  <2> DEFINE s == work[a]
  <2>0. s \in Stories
    BY <1>2 DEF CommitLanded, DeliveryTypeOK
  <2>1. BoardTypeOK'
    BY <1>2, <2>0, MoveType, StateNames DEF CommitLanded, BoardTypeOK
  <2>2. MergeTypeOK'
    BY <1>2, <2>0 DEF CommitLanded, Enqueue, MergeTypeOK, Requests
  <2>3. DeliveryTypeOK'
    BY <1>2 DEF CommitLanded, Free, DeliveryTypeOK
  <2> QED
    BY <2>1, <2>2, <2>3
<1>3. CASE CommitRefused(a)
  BY <1>3
  DEF CommitRefused, Free, boardVars, mergeVars, BoardTypeOK, MergeTypeOK, DeliveryTypeOK
<1>4. CASE \E hard \in BOOLEAN : NoCommit(a, hard)
  <2> PICK hard \in BOOLEAN : NoCommit(a, hard)
    BY <1>4
  <2> DEFINE s == work[a]
  <2>0. s \in Stories
    BY DEF NoCommit, DeliveryTypeOK
  <2>1. state' \in [Stories -> States] /\ activation' \in [Stories -> Activations]
    BY <2>0, MoveType, TryMoveType, StateNames DEF NoCommit
  <2>2. attempts' \in [Stories -> 0 .. AttemptCap]
    BY <2>0, NextAttemptType DEF NoCommit, BoardTypeOK
  <2>3. BoardTypeOK'
    BY <2>1, <2>2 DEF NoCommit, BoardTypeOK
  <2>4. MergeTypeOK' /\ DeliveryTypeOK'
    BY DEF NoCommit, Free, mergeVars, MergeTypeOK, DeliveryTypeOK
  <2> QED
    BY <2>3, <2>4
<1>5. CASE RestartAgent(a)
  BY <1>5
  DEF RestartAgent, boardVars, mergeVars, BoardTypeOK, MergeTypeOK, DeliveryTypeOK
<1> QED
  BY <1>0, <1>1, <1>2, <1>3, <1>4, <1>5

(* The merge worker preserves the types. *)
LEMMA TypeMerge ==
  ASSUME TypeInv, MergeNext
  PROVE  BoardTypeOK' /\ MergeTypeOK'
<1> USE DEF TypeInv, TypeOK
<1>0. worker.phase # "idle" => worker.req.story \in Stories
  BY DEF MergeTypeOK, Requests
<1>1. CASE Dequeue
  <2>1. Head(queue) \in Requests /\ Tail(queue) \in Seq(Requests)
    BY <1>1 DEF Dequeue, MergeTypeOK
  <2>2. Head(queue) # NoRequest
    BY <2>1, BoardAssumption DEF Requests, NoRequest
  <2> QED
    BY <1>1, <2>1, <2>2
    DEF Dequeue, MergeTypeOK, WorkerPhases, boardVars, BoardTypeOK
<1>2. CASE MergeCompleted
  <2>1. BoardTypeOK'
    BY <1>0, <1>2, TryMoveType, StateNames DEF MergeCompleted, BoardTypeOK
  <2>2. MergeTypeOK'
    BY <1>2 DEF MergeCompleted, WorkerIdle, MergeTypeOK, WorkerPhases
  <2> QED
    BY <2>1, <2>2
<1>3. CASE MergeConflict
  <2>1. BoardTypeOK'
    BY <1>0, <1>3, TryMoveType, StateNames DEF MergeConflict, BoardTypeOK
  <2>2. MergeTypeOK'
    BY <1>3 DEF MergeConflict, WorkerIdle, MergeTypeOK, WorkerPhases
  <2> QED
    BY <2>1, <2>2
<1>4. CASE WorkerDies
  BY <1>4 DEF WorkerDies, MergeTypeOK, WorkerPhases, boardVars, BoardTypeOK
<1>5. CASE GateOK
  BY <1>5 DEF GateOK, WorkerIdle, MergeTypeOK, WorkerPhases, boardVars, BoardTypeOK
<1>6. CASE GateBroken
  <2>1. BoardTypeOK'
    BY <1>0, <1>6, MoveType, StateNames DEF GateBroken, BoardTypeOK
  <2>2. MergeTypeOK'
    BY <1>6 DEF GateBroken, WorkerIdle, MergeTypeOK, WorkerPhases
  <2> QED
    BY <2>1, <2>2
<1> QED
  BY <1>1, <1>2, <1>3, <1>4, <1>5, <1>6 DEF MergeNext

(* The ceremonies preserve the types; the reject counter stays in range       *)
(* because a story under review has rejects to spare.                         *)
LEMMA TypeCeremonies ==
  ASSUME TypeInv, CeremoniesNext
  PROVE  /\ BoardTypeOK' /\ CeremoniesTypeOK'
         /\ (\A s \in reviewing : rejects[s] < CustomerMaxRejects)'
         /\ (boundary.phase # "none" => sprint < MaxSprints)'
<1> USE DEF TypeInv, TypeOK
<1> DEFINE Bounds == /\ \A s \in reviewing : rejects[s] < CustomerMaxRejects
                     /\ boundary.phase # "none" => sprint < MaxSprints
<1>0. BoardTypeOK /\ CeremoniesTypeOK /\ Bounds
  OBVIOUS
<1>1. CASE PokerStart
  <2>1. {<<s, state[s]>> : s \in {t \in Stories : state[t] \in {"draft", "refinement"}}}
          \subseteq Stories \X {"draft", "refinement"}
    OBVIOUS
  <2> QED
    BY <1>1, <2>1
    DEF PokerStart, boardVars, acceptVars, customerVars, sprintVars, BoardTypeOK,
        CeremoniesTypeOK
<1>2. CASE \E e \in pokerList : PokerPick(e)
  <2> PICK e \in pokerList : PokerPick(e)
    BY <1>2
  <2>1. e[1] \in Stories
    BY DEF CeremoniesTypeOK
  <2>2. BoardTypeOK'
    BY <2>1, MoveType, StateNames DEF PokerPick, BoardTypeOK
  <2>3. CeremoniesTypeOK' /\ Bounds'
    BY <2>1 DEF PokerPick, acceptVars, customerVars, sprintVars, CeremoniesTypeOK
  <2> QED
    BY <2>2, <2>3
<1>3. CASE PokerConverge
  <2>1. pokerStory \in Stories
    BY <1>3 DEF PokerConverge, CeremoniesTypeOK
  <2>2. BoardTypeOK'
    BY <1>3, <2>1, TryMoveType, StateNames DEF PokerConverge, BoardTypeOK
  <2>3. CeremoniesTypeOK' /\ Bounds'
    BY <1>3 DEF PokerConverge, acceptVars, customerVars, sprintVars, CeremoniesTypeOK
  <2> QED
    BY <2>2, <2>3
<1>4. CASE PokerFails
  BY <1>4
  DEF PokerFails, boardVars, acceptVars, customerVars, sprintVars, BoardTypeOK,
      CeremoniesTypeOK
<1>5. CASE \E s \in Stories : Draft(s) \/ Unblock(s) \/ Drop(s)
  <2> PICK s \in Stories : Draft(s) \/ Unblock(s) \/ Drop(s)
    BY <1>5
  <2>1. BoardTypeOK'
    <3>1. CASE Draft(s)
      BY <3>1, StateNames DEF Draft, DraftStory, BoardTypeOK
    <3>2. CASE Unblock(s)
      BY <3>2, MoveType, StateNames DEF Unblock, BoardTypeOK
    <3>3. CASE Drop(s)
      BY <3>3, MoveType, StateNames DEF Drop, BoardTypeOK
    <3> QED
      BY <3>1, <3>2, <3>3
  <2>2. UNCHANGED ceremonyVars
    BY DEF Draft, Unblock, Drop
  <2>3. CeremoniesTypeOK' /\ Bounds'
    BY <2>2
    DEF ceremonyVars, pokerVars, acceptVars, customerVars, sprintVars, CeremoniesTypeOK
  <2> QED
    BY <2>1, <2>3
<1>6. CASE BoundaryStart \/ CloseSprint \/ PlanSprint \/ OpenSprint
  <2>1. BoardTypeOK'
    BY <1>6 DEF BoundaryStart, CloseSprint, PlanSprint, OpenSprint, boardVars, BoardTypeOK
  <2>2. boundary' \in Boundaries
    <3>1. CASE BoundaryStart
      BY <3>1 DEF BoundaryStart, Boundaries, CeremoniesTypeOK
    <3>2. CASE CloseSprint \/ OpenSprint
      BY <3>2 DEF CloseSprint, OpenSprint, NoBoundary, Boundaries
    <3>3. CASE PlanSprint
      BY <3>3 DEF PlanSprint, Boundaries
    <3> QED
      BY <1>6, <3>1, <3>2, <3>3
  <2>6. backlog' \in SUBSET Stories /\ sprintOpen' \in BOOLEAN
    BY <1>6
    DEF BoundaryStart, CloseSprint, PlanSprint, OpenSprint, Boundaries, sprintVars,
        CeremoniesTypeOK
  <2>3. credits' \in [Stories -> Nat]
    BY <1>6
    DEF BoundaryStart, CloseSprint, PlanSprint, OpenSprint, sprintVars, CeremoniesTypeOK
  <2>4. sprint' \in 0 .. MaxSprints /\ (boundary.phase # "none" => sprint < MaxSprints)'
    BY <1>6, CeremoniesAssumption
    DEF BoundaryStart, CloseSprint, PlanSprint, OpenSprint, NoBoundary, sprintVars,
        CeremoniesTypeOK
  <2>5. UNCHANGED <<pokerVars, acceptVars, customerVars, elevation>>
    BY <1>6 DEF BoundaryStart, CloseSprint, PlanSprint, OpenSprint
  <2> QED
    BY <2>1, <2>2, <2>3, <2>4, <2>5, <2>6
    DEF pokerVars, acceptVars, customerVars, CeremoniesTypeOK
<1>7. CASE \E s \in boundary.todo : CloseStory(s) \/ CommitToSprint(s)
  <2> PICK s \in boundary.todo : CloseStory(s) \/ CommitToSprint(s)
    BY <1>7
  <2>1. s \in Stories
    BY DEF CeremoniesTypeOK, Boundaries
  <2>2. sprintOf' \in [Stories -> Nat]
    BY <2>1, CeremoniesAssumption DEF CloseStory, CommitToSprint, BoardTypeOK, CeremoniesTypeOK
  <2>3. BoardTypeOK'
    BY <2>2 DEF CloseStory, CommitToSprint, BoardTypeOK
  <2>4. boundary' \in Boundaries /\ boundary'.phase = boundary.phase
    <3>1. boundary \in Boundaries
      BY DEF CeremoniesTypeOK
    <3>2. boundary' \in {[boundary EXCEPT !.todo = @ \ {s}, !.chosen = @ \cup {s}],
                         [boundary EXCEPT !.todo = @ \ {s}]}
      BY DEF CloseStory, CommitToSprint
    <3> QED
      BY <2>1, <3>1, <3>2 DEF Boundaries
  <2>5. CeremoniesTypeOK' /\ Bounds'
    BY <2>4
    DEF CloseStory, CommitToSprint, pokerVars, acceptVars, customerVars, CeremoniesTypeOK
  <2> QED
    BY <2>3, <2>5
<1>8. CASE \E b \in Batches : AcceptStart(b)
  <2> PICK b \in Batches : AcceptStart(b)
    BY <1>8
  <2>1. batch' \in [Batches -> Snapshots]
    BY DEF AcceptStart, Snapshots, CeremoniesTypeOK
  <2> QED
    BY <2>1
    DEF AcceptStart, boardVars, pokerVars, customerVars, sprintVars, BoardTypeOK,
        CeremoniesTypeOK
<1>9. CASE AcceptTimeout
  BY <1>9
  DEF AcceptTimeout, boardVars, pokerVars, customerVars, sprintVars, BoardTypeOK,
      CeremoniesTypeOK
<1>10. CASE \E b \in Batches : \E s \in batch[b].left :
              RejectOutright(b, s) \/ Accept(b, s) \/ RejectCriteria(b, s)
  <2> PICK b \in Batches : \E s \in batch[b].left :
              RejectOutright(b, s) \/ Accept(b, s) \/ RejectCriteria(b, s)
    BY <1>10
  <2> PICK s \in batch[b].left :
              RejectOutright(b, s) \/ Accept(b, s) \/ RejectCriteria(b, s)
    OBVIOUS
  <2>0. batch[b] \in Snapshots
    BY DEF CeremoniesTypeOK
  <2>1. s \in Stories
    BY <2>0 DEF Snapshots
  <2>2. Judged(b, s)
    BY DEF RejectOutright, Accept, RejectCriteria
  <2>3. CeremoniesTypeOK' /\ Bounds'
    <3>1. batch' \in [Batches -> Snapshots]
      BY <2>0, <2>2 DEF Judged, Snapshots, CeremoniesTypeOK
    <3> QED
      BY <2>2, <3>1 DEF Judged, pokerVars, customerVars, sprintVars, CeremoniesTypeOK
  <2>4. BoardTypeOK'
    <3>1. CASE RejectOutright(b, s)
      BY <2>1, <3>1, TryMoveType, StateNames DEF RejectOutright, BoardTypeOK
    <3>2. CASE Accept(b, s)
      BY <2>1, <3>2, TryMoveType, StateNames DEF Accept, BoardTypeOK
    <3>3. CASE RejectCriteria(b, s)
      <4>1. state' \in [Stories -> States] /\ activation' \in [Stories -> Activations]
        BY <2>1, <3>3, MoveType, TryMoveType, StateNames DEF RejectCriteria
      <4>2. attempts' \in [Stories -> 0 .. AttemptCap] /\ committed' \in SUBSET Stories
        BY <2>1, <3>3, NextAttemptType DEF RejectCriteria, BoardTypeOK
      <4> QED
        BY <3>3, <4>1, <4>2 DEF RejectCriteria, BoardTypeOK
    <3> QED
      BY <3>1, <3>2, <3>3
  <2> QED
    BY <2>3, <2>4
<1>11. CASE CustomerPick \/ CustomerDone
  BY <1>11
  DEF CustomerPick, CustomerDone, boardVars, pokerVars, acceptVars, sprintVars, BoardTypeOK,
      CeremoniesTypeOK
<1>12. CASE \E s \in reviewing : CustomerReject(s)
  <2> PICK s \in reviewing : CustomerReject(s)
    BY <1>12
  <2>1. s \in Stories /\ rejects[s] < CustomerMaxRejects
    BY DEF CeremoniesTypeOK
  <2>2. BoardTypeOK'
    BY <2>1, TryMoveType, StateNames DEF CustomerReject, BoardTypeOK
  <2>3. /\ rejects' \in [Stories -> 0 .. CustomerMaxRejects]
        /\ \A t \in reviewing' : rejects'[t] < CustomerMaxRejects
    BY <2>1, CeremoniesAssumption DEF CustomerReject, CeremoniesTypeOK
  <2> QED
    BY <2>2, <2>3
    DEF CustomerReject, pokerVars, acceptVars, sprintVars, CeremoniesTypeOK
<1>13. CASE ElevationStart
  BY <1>13
  DEF ElevationStart, boardVars, pokerVars, acceptVars, customerVars, sprintVars, BoardTypeOK,
      NoElevation, CeremoniesTypeOK
<1>14. CASE \E s \in Stories : ReclaimCount(s) \/ Reclaim(s)
  <2> PICK s \in Stories : ReclaimCount(s) \/ Reclaim(s)
    BY <1>14
  <2>1. BoardTypeOK'
    <3>1. CASE ReclaimCount(s)
      <4>1. attempts' \in [Stories -> 0 .. AttemptCap]
        BY <3>1, NextAttemptType DEF ReclaimCount, BoardTypeOK
      <4> QED
        BY <3>1, <4>1 DEF ReclaimCount, BoardTypeOK
    <3>2. CASE Reclaim(s)
      BY <3>2, TryMoveType, StateNames DEF Reclaim, BoardTypeOK
    <3> QED
      BY <3>1, <3>2
  <2>2. CeremoniesTypeOK' /\ Bounds'
    BY DEF ReclaimCount, Reclaim, pokerVars, acceptVars, customerVars, sprintVars,
           CeremoniesTypeOK
  <2> QED
    BY <2>1, <2>2
<1> QED
  BY <1>1, <1>2, <1>3, <1>4, <1>5, <1>6, <1>7, <1>8, <1>9, <1>10, <1>11, <1>12, <1>13, <1>14
  DEF CeremoniesNext

(* A restart preserves the types. *)
LEMMA TypeRestart == ASSUME TypeInv, ProcessRestart PROVE TypeInv'
<1> USE DEF TypeInv, TypeOK
<1>1. BoardTypeOK'
  <2>1. activation' \in [Stories -> Activations]
    BY DEF ProcessRestart, BoardTypeOK, Activations
  <2> QED
    BY <2>1 DEF ProcessRestart, BoardTypeOK
<1>2. MergeTypeOK'
  BY DEF ProcessRestart, MergeTypeOK, NoRequest, WorkerPhases, Requests
<1>3. DeliveryTypeOK'
  BY DEF ProcessRestart, DeliveryTypeOK
<1>4. EmptyBatch \in Snapshots /\ NoBoundary \in Boundaries
  BY DEF Snapshots, EmptyBatch, Boundaries, NoBoundary
<1>5. CeremoniesTypeOK'
  BY <1>4 DEF ProcessRestart, NoElevation, sprintVars, CeremoniesTypeOK
<1>6. /\ (\A s \in reviewing : rejects[s] < CustomerMaxRejects)'
      /\ (boundary.phase # "none" => sprint < MaxSprints)'
      /\ restarts' \in 0 .. MaxRestarts
      /\ orphans' \in SUBSET Stories
      /\ torn' \in BOOLEAN
  BY ScrumTeamAssumption DEF ProcessRestart, NoBoundary
<1> QED
  BY <1>1, <1>2, <1>3, <1>5, <1>6

(* Every step preserves the typing invariant. *)
LEMMA TypeStep == TypeInv /\ [Next]_vars => TypeInv'
<1> SUFFICES ASSUME TypeInv, [Next]_vars PROVE TypeInv'
  OBVIOUS
<1>1. CASE DeliveryNext(sprint) /\ UNCHANGED <<ceremonyVars, processVars>>
  <2>1. sprint \in Nat
    BY CeremoniesAssumption DEF TypeInv, TypeOK, CeremoniesTypeOK
  <2>2. BoardTypeOK' /\ MergeTypeOK' /\ DeliveryTypeOK'
    BY <1>1, <2>1, TypeDelivery
  <2> QED
    BY <1>1, <2>2
    DEF ceremonyVars, pokerVars, acceptVars, customerVars, sprintVars, CeremoniesTypeOK,
        TypeInv, TypeOK
<1>2. CASE MergeNext /\ UNCHANGED <<deliveryVars, ceremonyVars, processVars>>
  <2>1. BoardTypeOK' /\ MergeTypeOK'
    BY <1>2, TypeMerge
  <2> QED
    BY <1>2, <2>1
    DEF deliveryVars, ceremonyVars, pokerVars, acceptVars, customerVars, sprintVars,
        DeliveryTypeOK, CeremoniesTypeOK, TypeInv, TypeOK
<1>3. CASE CeremoniesNext /\ UNCHANGED <<mergeVars, deliveryVars, processVars>>
  <2>1. /\ BoardTypeOK' /\ CeremoniesTypeOK'
        /\ (\A s \in reviewing : rejects[s] < CustomerMaxRejects)'
        /\ (boundary.phase # "none" => sprint < MaxSprints)'
    BY <1>3, TypeCeremonies
  <2> QED
    BY <1>3, <2>1
    DEF mergeVars, deliveryVars, MergeTypeOK, DeliveryTypeOK, TypeInv, TypeOK
<1>4. CASE ProcessRestart
  BY <1>4, TypeRestart
<1>5. CASE UNCHANGED vars
  BY <1>5
  DEF vars, boardVars, mergeVars, deliveryVars, ceremonyVars, pokerVars, acceptVars,
      customerVars, sprintVars, BoardTypeOK, MergeTypeOK, DeliveryTypeOK, CeremoniesTypeOK,
      TypeInv, TypeOK
<1> QED
  BY <1>1, <1>2, <1>3, <1>4, <1>5 DEF Next

(* The typing invariant holds throughout, with what TypeOK needs to be        *)
(* inductive.                                                                 *)
LEMMA TypeInvariant == Spec => []TypeInv
<1> QED
  BY TypeInit, TypeStep, PTL DEF Spec

(* Every variable keeps its type, whatever the size of the team: no operation *)
(* of the board store, the merge worker, an agent or a ceremony leaves a      *)
(* value the others do not expect.                                            *)
THEOREM TypeCorrect == Spec => []TypeOK
<1>1. TypeInv => TypeOK
  BY DEF TypeInv
<1> QED
  BY <1>1, TypeInvariant, PTL

-----------------------------------------------------------------------------
(* What the merge worker and the ceremonies never do: they give no story to   *)
(* an agent, and put none into in_progress or review.                         *)
NoHandOut ==
  /\ assignee' = assignee
  /\ \A s \in Stories : state'[s] \in {"in_progress", "review"} => state'[s] = state[s]

(* The merge worker assigns no story to anybody and puts none in progress. *)
LEMMA MergeHandsNothingOut == ASSUME TypeInv, MergeNext PROVE NoHandOut
<1>0. BoardTypeOK /\ (worker.phase # "idle" => worker.req.story \in Stories)
  BY DEF TypeInv, TypeOK, MergeTypeOK, Requests
<1>1. CASE Dequeue \/ WorkerDies \/ GateOK
  BY <1>1 DEF Dequeue, WorkerDies, GateOK, boardVars, NoHandOut
<1>2. CASE MergeCompleted
  BY <1>0, <1>2, TryMoveType, StateNames DEF MergeCompleted, BoardTypeOK, NoHandOut
<1>3. CASE MergeConflict
  BY <1>0, <1>3, TryMoveType, StateNames DEF MergeConflict, BoardTypeOK, NoHandOut
<1>4. CASE GateBroken
  BY <1>0, <1>4, MoveType, StateNames DEF GateBroken, BoardTypeOK, NoHandOut
<1> QED
  BY <1>1, <1>2, <1>3, <1>4 DEF MergeNext

(* Neither does any ceremony, not even when it puts a story back to ready. *)
LEMMA CeremoniesHandNothingOut == ASSUME TypeInv, CeremoniesNext PROVE NoHandOut
<1>0. BoardTypeOK /\ CeremoniesTypeOK
  BY DEF TypeInv, TypeOK
<1>1. CASE \/ PokerStart \/ PokerFails \/ BoundaryStart \/ CloseSprint \/ PlanSprint
           \/ OpenSprint \/ AcceptTimeout \/ CustomerPick \/ CustomerDone
           \/ \E b \in Batches : AcceptStart(b)
           \/ \E s \in boundary.todo : CloseStory(s) \/ CommitToSprint(s)
  BY <1>1
  DEF PokerStart, PokerFails, BoundaryStart, CloseSprint, PlanSprint, OpenSprint,
      AcceptTimeout, CustomerPick, CustomerDone, AcceptStart, CloseStory, CommitToSprint,
      boardVars, NoHandOut
<1>2. CASE \E e \in pokerList : PokerPick(e)
  <2> PICK e \in pokerList : PokerPick(e)
    BY <1>2
  <2>1. e[1] \in Stories
    BY <1>0 DEF CeremoniesTypeOK
  <2> QED
    BY <1>0, <2>1, MoveType, StateNames DEF PokerPick, BoardTypeOK, NoHandOut
<1>3. CASE PokerConverge
  <2>1. pokerStory \in Stories
    BY <1>0, <1>3 DEF PokerConverge, CeremoniesTypeOK
  <2> QED
    BY <1>0, <1>3, <2>1, TryMoveType, StateNames DEF PokerConverge, BoardTypeOK, NoHandOut
<1>4. CASE \E s \in Stories : Unblock(s) \/ Drop(s)
  BY <1>0, <1>4, MoveType, StateNames DEF Unblock, Drop, BoardTypeOK, NoHandOut
<1>5. CASE \E s \in Stories : Draft(s)
  BY <1>0, <1>5 DEF Draft, DraftStory, BoardTypeOK, NoHandOut
<1>6. CASE \E b \in Batches : \E s \in batch[b].left :
             RejectOutright(b, s) \/ Accept(b, s) \/ RejectCriteria(b, s)
  <2> PICK b \in Batches : \E s \in batch[b].left :
             RejectOutright(b, s) \/ Accept(b, s) \/ RejectCriteria(b, s)
    BY <1>6
  <2> PICK s \in batch[b].left :
             RejectOutright(b, s) \/ Accept(b, s) \/ RejectCriteria(b, s)
    OBVIOUS
  <2>1. s \in Stories
    BY <1>0 DEF CeremoniesTypeOK, Snapshots
  <2>2. \E to \in {"blocked", "done", "ready"} : TryMove(s, to)
    BY DEF RejectOutright, Accept, RejectCriteria, TryMove
  <2>3. assignee' = assignee
    BY DEF RejectOutright, Accept, RejectCriteria
  <2> QED
    BY <1>0, <2>1, <2>2, <2>3, TryMoveType, StateNames DEF BoardTypeOK, NoHandOut
<1>7. CASE \E s \in reviewing : CustomerReject(s)
  <2> PICK s \in reviewing : CustomerReject(s)
    BY <1>7
  <2>1. s \in Stories
    BY <1>0 DEF CeremoniesTypeOK
  <2> QED
    BY <1>0, <2>1, TryMoveType, StateNames DEF CustomerReject, BoardTypeOK, NoHandOut
<1>8. CASE ElevationStart \/ \E s \in Stories : ReclaimCount(s)
  BY <1>8 DEF ElevationStart, ReclaimCount, boardVars, NoHandOut
<1>9. CASE \E s \in Stories : Reclaim(s)
  BY <1>0, <1>9, TryMoveType, StateNames DEF Reclaim, BoardTypeOK, NoHandOut
<1> QED
  BY <1>1, <1>2, <1>3, <1>4, <1>5, <1>6, <1>7, <1>8, <1>9 DEF CeremoniesNext

(* A step of the team, seen by the delivery agents. *)
LEMMA StepCases ==
  ASSUME TypeInv, [Next]_vars
  PROVE  \/ \E a \in Actors, s \in Stories : Pull(a, s, sprint) /\ UNCHANGED processVars
         \/ \E a \in Actors : CommitLanded(a) /\ UNCHANGED processVars
         \/ \E a \in Actors : CommitRefused(a) /\ UNCHANGED processVars
         \/ \E a \in Actors, hard \in BOOLEAN : NoCommit(a, hard) /\ UNCHANGED processVars
         \/ \E a \in Actors : RestartAgent(a) /\ UNCHANGED processVars
         \/ MergeNext /\ NoHandOut /\ UNCHANGED <<work, crashed, processVars>>
         \/ CeremoniesNext /\ NoHandOut /\ UNCHANGED <<mergeVars, work, crashed, processVars>>
         \/ ProcessRestart
         \/ UNCHANGED vars
<1>1. CASE DeliveryNext(sprint) /\ UNCHANGED <<ceremonyVars, processVars>>
  BY <1>1 DEF DeliveryNext
<1>2. CASE MergeNext /\ UNCHANGED <<deliveryVars, ceremonyVars, processVars>>
  BY <1>2, MergeHandsNothingOut DEF deliveryVars
<1>3. CASE CeremoniesNext /\ UNCHANGED <<mergeVars, deliveryVars, processVars>>
  BY <1>3, CeremoniesHandNothingOut DEF deliveryVars
<1> QED
  BY <1>1, <1>2, <1>3 DEF Next

-----------------------------------------------------------------------------
(* One agent per story. *)

(* Every step keeps executors on stories of their own. *)
LEMMA ExecutorStep == TypeInv /\ SingleExecutor /\ [Next]_vars => SingleExecutor'
<1> SUFFICES ASSUME TypeInv, SingleExecutor, [Next]_vars PROVE SingleExecutor'
  OBVIOUS
<1>0. BoardTypeOK /\ DeliveryTypeOK
  BY DEF TypeInv, TypeOK
<1> SUFFICES \A c \in Actors : work'[c] # None => assignee'[work'[c]] = c
  BY DEF SingleExecutor
<1>1. ASSUME NEW a \in Actors, NEW s \in Stories, Pull(a, s, sprint)
      PROVE  \A c \in Actors : work'[c] # None => assignee'[work'[c]] = c
  <2>1. assignee[s] \in {None, a}
    BY <1>1 DEF Pull, ClaimStory, Candidates
  <2>2. \A c \in Actors : c # None
    BY BoardAssumption
  <2> QED
    BY <1>0, <1>1, <2>1, <2>2 DEF Pull, ClaimStory, BoardTypeOK, DeliveryTypeOK, SingleExecutor
<1>2. ASSUME NEW a \in Actors,
             CommitLanded(a) \/ CommitRefused(a) \/ \E hard \in BOOLEAN : NoCommit(a, hard)
      PROVE  \A c \in Actors : work'[c] # None => assignee'[work'[c]] = c
  BY <1>0, <1>2
  DEF CommitLanded, CommitRefused, NoCommit, Free, boardVars, DeliveryTypeOK, SingleExecutor
<1>3. ASSUME NEW a \in Actors, RestartAgent(a)
      PROVE  \A c \in Actors : work'[c] # None => assignee'[work'[c]] = c
  BY <1>3 DEF RestartAgent, boardVars, SingleExecutor
<1>4. CASE NoHandOut /\ UNCHANGED work
  BY <1>4 DEF NoHandOut, SingleExecutor
<1>5. CASE ProcessRestart
  BY <1>5 DEF ProcessRestart
<1>6. CASE UNCHANGED vars
  BY <1>6 DEF vars, boardVars, deliveryVars, SingleExecutor
<1> QED
  BY <1>1, <1>2, <1>3, <1>4, <1>5, <1>6, StepCases

(* No two agents ever work on one story: the assignee field alone keeps them  *)
(* apart, whatever the ceremonies do to the story's state.                    *)
THEOREM OneAgentPerStory == Spec => []SingleExecutor
<1>1. Init => SingleExecutor
  BY DEF Init, DeliveryInit, SingleExecutor
<1> QED
  BY <1>1, ExecutorStep, TypeInvariant, PTL DEF Spec

(* The step simulation behind the refinement of StoryOwnership. *)
LEMMA OwnershipStep ==
  TypeInv /\ [Next]_vars => [Ownership!Next]_(Ownership!vars)
<1> SUFFICES ASSUME TypeInv, [Next]_vars PROVE [Ownership!Next]_(Ownership!vars)
  OBVIOUS
<1>0. BoardTypeOK /\ DeliveryTypeOK
  BY DEF TypeInv, TypeOK
<1>1. ASSUME NEW a \in Actors, NEW s \in Stories, Pull(a, s, sprint)
      PROVE  Ownership!Take(a, s)
  BY <1>1 DEF Pull, Idle, ClaimStory, Candidates, Ownership!Take
<1>2. ASSUME NEW a \in Actors,
             CommitLanded(a) \/ CommitRefused(a) \/ \E hard \in BOOLEAN : NoCommit(a, hard)
      PROVE  Ownership!Release(a)
  BY <1>2 DEF CommitLanded, CommitRefused, NoCommit, Free, boardVars, Ownership!Release
<1>3. ASSUME NEW a \in Actors, RestartAgent(a) PROVE UNCHANGED Ownership!vars
  BY <1>3 DEF RestartAgent, boardVars, Ownership!vars
<1>4. CASE NoHandOut /\ UNCHANGED work
  BY <1>4 DEF NoHandOut, Ownership!vars
<1>5. CASE ProcessRestart
  BY <1>5 DEF ProcessRestart, Ownership!ReleaseAll, Ownership!Next
<1>6. CASE UNCHANGED vars
  BY <1>6 DEF vars, boardVars, deliveryVars, Ownership!vars
<1> QED
  BY <1>1, <1>2, <1>3, <1>4, <1>5, <1>6, StepCases DEF Ownership!Next

(* Claiming keeps the promise of StoryOwnership: a story belongs to the first *)
(* agent that claims it, for good.                                            *)
THEOREM ImplementsOwnership == Spec => RefinesOwnership
<1>1. Init => Ownership!Init
  BY DEF Init, BoardInit, DeliveryInit, Ownership!Init
<1> QED
  BY <1>1, OwnershipStep, TypeInvariant, PTL DEF Spec, RefinesOwnership, Ownership!Spec

(* A move to any column but draft and in_progress is a step of the flow. *)
LEMMA FlowMove ==
  ASSUME BoardTypeOK, NEW s \in Stories,
         NEW to \in States \ {"absent", "draft", "in_progress"}, TryMove(s, to)
  PROVE  [Flow!Next]_(Flow!vars)
<1>1. CASE ~Legal(s, to) /\ UNCHANGED <<state, activation>>
  BY <1>1 DEF Flow!vars
<1>2. CASE Move(s, to)
  <2>1. /\ state[s] \in States /\ to \in Transitions[state[s]]
        /\ state' = [state EXCEPT ![s] = to] /\ UNCHANGED DependsOn
    BY <1>2 DEF Move, Legal, BoardTypeOK
  <2>2. CASE to = "refinement"
    <3>1. state[s] \in {"draft", "blocked"}
      BY <2>1, <2>2 DEF Transitions, States
    <3> QED
      BY <2>1, <2>2, <3>1 DEF Flow!Refine, Flow!Resume, Flow!MoveTo, Flow!Next
  <2>3. CASE to = "ready"
    <3>1. state[s] \in {"refinement", "in_progress", "pending_acceptance", "blocked"}
      BY <2>1, <2>3 DEF Transitions, States
    <3> QED
      BY <2>1, <2>3, <3>1 DEF Flow!Vote, Flow!Retry, Flow!Resume, Flow!MoveTo, Flow!Next
  <2>4. CASE to = "review"
    <3>1. state[s] \in {"in_progress", "pending_acceptance", "blocked"}
      BY <2>1, <2>4 DEF Transitions, States
    <3> QED
      BY <2>1, <2>4, <3>1 DEF Flow!Commit, Flow!Resume, Flow!MoveTo, Flow!Next
  <2>5. CASE to = "pending_acceptance"
    <3>1. state[s] \in {"review", "blocked"}
      BY <2>1, <2>5 DEF Transitions, States
    <3> QED
      BY <2>1, <2>5, <3>1 DEF Flow!Merge, Flow!Resume, Flow!MoveTo, Flow!Next
  <2>6. CASE to = "done"
    <3>1. state[s] \in {"review", "pending_acceptance"}
      BY <2>1, <2>6 DEF Transitions, States
    <3> QED
      BY <2>1, <2>6, <3>1 DEF Flow!Accept, Flow!MoveTo, Flow!Next
  <2>7. CASE to = "blocked"
    <3>1. state[s] \in Flow!Columns \ {"absent", "blocked"}
      BY <2>1, <2>7 DEF Transitions, States, Flow!Columns
    <3> QED
      BY <2>1, <2>7, <3>1 DEF Flow!Block, Flow!MoveTo, Flow!Next
  <2> QED
    BY <2>2, <2>3, <2>4, <2>5, <2>6, <2>7 DEF States
<1> QED
  BY <1>1, <1>2 DEF TryMove

(* The step simulation behind the refinement of StoryFlow. *)
LEMMA FlowStep ==
  TypeInv /\ [Next]_vars => [Flow!Next]_(Flow!vars)
<1> SUFFICES ASSUME TypeInv, [Next]_vars PROVE [Flow!Next]_(Flow!vars)
  OBVIOUS
<1>0. BoardTypeOK /\ MergeTypeOK /\ DeliveryTypeOK /\ CeremoniesTypeOK
  BY DEF TypeInv, TypeOK
<1>1. ASSUME NEW a \in Actors, NEW s \in Stories, Pull(a, s, sprint)
      PROVE  [Flow!Next]_(Flow!vars)
  <2>1. /\ state[s] = "ready" /\ \A d \in DependsOn[s] : state[d] = "done"
        /\ state' = [state EXCEPT ![s] = "in_progress"] /\ UNCHANGED DependsOn
    BY <1>1 DEF Pull, ClaimStory, Candidates, Move
  <2> QED
    BY <2>1 DEF Flow!Claim, Flow!MoveTo, Flow!Next
<1>2. ASSUME NEW a \in Actors,
             CommitLanded(a) \/ CommitRefused(a) \/ RestartAgent(a)
             \/ \E hard \in BOOLEAN : NoCommit(a, hard)
      PROVE  [Flow!Next]_(Flow!vars)
  <2>1. CASE CommitLanded(a)
    <3>1. work[a] \in Stories /\ TryMove(work[a], "review")
      BY <1>0, <2>1 DEF CommitLanded, DeliveryTypeOK, TryMove
    <3> QED
      BY <1>0, <3>1, FlowMove, StateNames
  <2>2. CASE CommitRefused(a) \/ RestartAgent(a)
    BY <2>2 DEF CommitRefused, RestartAgent, boardVars, Flow!vars
  <2>3. CASE \E hard \in BOOLEAN : NoCommit(a, hard)
    <3>1. work[a] \in Stories
      BY <1>0, <2>3 DEF NoCommit, DeliveryTypeOK
    <3>2. TryMove(work[a], "ready") \/ TryMove(work[a], "blocked")
      BY <2>3 DEF NoCommit, TryMove
    <3> QED
      BY <1>0, <3>1, <3>2, FlowMove, StateNames
  <2> QED
    BY <1>2, <2>1, <2>2, <2>3
<1>3. CASE MergeNext
  <2>1. CASE Dequeue \/ WorkerDies \/ GateOK
    BY <2>1 DEF Dequeue, WorkerDies, GateOK, boardVars, Flow!vars
  <2>2. CASE MergeCompleted \/ MergeConflict
    <3>1. worker.req.story \in Stories
      BY <1>0, <2>2 DEF MergeCompleted, MergeConflict, MergeTypeOK, Requests
    <3>2. TryMove(worker.req.story, "pending_acceptance") \/ TryMove(worker.req.story, "blocked")
      BY <2>2 DEF MergeCompleted, MergeConflict
    <3> QED
      BY <1>0, <3>1, <3>2, FlowMove, StateNames
  <2>3. CASE GateBroken
    <3>1. worker.req.story \in Stories
      BY <1>0, <2>3 DEF GateBroken, MergeTypeOK, Requests
    <3>2. TryMove(worker.req.story, "ready") \/ UNCHANGED state
      BY <2>3 DEF GateBroken, TryMove
    <3>3. CASE UNCHANGED state
      BY <3>3 DEF Flow!vars
    <3> QED
      BY <1>0, <3>1, <3>2, <3>3, FlowMove, StateNames
  <2> QED
    BY <1>3, <2>1, <2>2, <2>3 DEF MergeNext
<1>4. CASE CeremoniesNext
  <2>1. ASSUME NEW e \in pokerList, PokerPick(e) PROVE [Flow!Next]_(Flow!vars)
    <3>1. e[1] \in Stories
      BY <1>0, <2>1 DEF CeremoniesTypeOK
    <3>2. TryMove(e[1], "refinement") \/ UNCHANGED state
      BY <2>1 DEF PokerPick, TryMove
    <3>3. CASE UNCHANGED state
      BY <3>3 DEF Flow!vars
    <3> QED
      BY <1>0, <3>1, <3>2, <3>3, FlowMove, StateNames
  <2>2. CASE PokerConverge
    <3>1. pokerStory \in Stories /\ TryMove(pokerStory, "ready")
      BY <1>0, <2>2 DEF PokerConverge, CeremoniesTypeOK
    <3> QED
      BY <1>0, <3>1, FlowMove, StateNames
  <2>3. ASSUME NEW s \in Stories, Reclaim(s) \/ Drop(s) PROVE [Flow!Next]_(Flow!vars)
    <3>1. TryMove(s, "ready") \/ TryMove(s, "blocked")
      BY <2>3 DEF Reclaim, Drop, TryMove
    <3> QED
      BY <1>0, <3>1, FlowMove, StateNames
  <2>4. ASSUME NEW b \in Batches, NEW s \in batch[b].left,
               RejectOutright(b, s) \/ Accept(b, s) \/ RejectCriteria(b, s)
        PROVE  [Flow!Next]_(Flow!vars)
    <3>1. s \in Stories
      BY <1>0 DEF CeremoniesTypeOK, Snapshots
    <3>2. TryMove(s, "blocked") \/ TryMove(s, "done") \/ TryMove(s, "ready")
      BY <2>4 DEF RejectOutright, Accept, RejectCriteria, TryMove
    <3> QED
      BY <1>0, <3>1, <3>2, FlowMove, StateNames
  <2>5. ASSUME NEW s \in Stories, Draft(s) PROVE [Flow!Next]_(Flow!vars)
    <3>1. /\ state[s] = "absent" /\ state' = [state EXCEPT ![s] = "draft"]
          /\ UNCHANGED DependsOn
      BY <2>5 DEF Draft, DraftStory
    <3> QED
      BY <3>1 DEF Flow!Draft, Flow!MoveTo, Flow!Next
  <2>6. ASSUME NEW s \in Stories, Unblock(s) PROVE [Flow!Next]_(Flow!vars)
    <3>1. /\ state[s] = "blocked" /\ state' = [state EXCEPT ![s] = "draft"]
          /\ UNCHANGED DependsOn
      BY <2>6 DEF Unblock, Move
    <3> QED
      BY <3>1 DEF Flow!Resume, Flow!MoveTo, Flow!Next
  <2>7. ASSUME NEW s \in reviewing, CustomerReject(s) PROVE [Flow!Next]_(Flow!vars)
    <3>1. s \in Stories /\ TryMove(s, "blocked")
      BY <1>0, <2>7 DEF CustomerReject, CeremoniesTypeOK
    <3> QED
      BY <1>0, <3>1, FlowMove, StateNames
  <2>8. ASSUME UNCHANGED state PROVE [Flow!Next]_(Flow!vars)
    BY <2>8 DEF Flow!vars
  <2>9. CASE PokerStart \/ PokerFails \/ BoundaryStart \/ CloseSprint \/ PlanSprint \/ OpenSprint
             \/ AcceptTimeout \/ CustomerPick \/ CustomerDone
    <3>1. UNCHANGED state
      BY <2>9 DEF PokerStart, PokerFails, BoundaryStart, CloseSprint, PlanSprint, OpenSprint,
                  AcceptTimeout, CustomerPick, CustomerDone, boardVars
    <3> QED
      BY <2>8, <3>1
  <2>10. ASSUME NEW s \in boundary.todo, CloseStory(s) \/ CommitToSprint(s)
         PROVE  [Flow!Next]_(Flow!vars)
    <3>1. UNCHANGED state
      BY <2>10 DEF CloseStory, CommitToSprint
    <3> QED
      BY <2>8, <3>1
  <2>11. ASSUME NEW b \in Batches, AcceptStart(b) PROVE [Flow!Next]_(Flow!vars)
    <3>1. UNCHANGED state
      BY <2>11 DEF AcceptStart, boardVars
    <3> QED
      BY <2>8, <3>1
  <2>12. ASSUME NEW s \in Stories, ReclaimCount(s)
         PROVE  [Flow!Next]_(Flow!vars)
    <3>1. UNCHANGED state
      BY <2>12 DEF ReclaimCount
    <3> QED
      BY <2>8, <3>1
  <2>13. CASE ElevationStart
    <3>1. UNCHANGED state
      BY <2>13 DEF ElevationStart, boardVars
    <3> QED
      BY <2>8, <3>1
  <2> QED
    BY <1>4, <2>1, <2>2, <2>3, <2>4, <2>5, <2>6, <2>7, <2>9, <2>10, <2>11, <2>12, <2>13, Zenon
    DEF CeremoniesNext
<1>5. CASE ProcessRestart \/ UNCHANGED vars
  BY <1>5 DEF ProcessRestart, vars, boardVars, Flow!vars
<1> QED
  BY <1>1, <1>2, <1>3, <1>4, <1>5, Zenon DEF Next, DeliveryNext

(* Every story goes over the board as StoryFlow promises: work begins by a    *)
(* claim with the dependencies done, and only what was in review or waiting   *)
(* for acceptance is done (board_store.py:113-129 with all its callers).      *)
THEOREM ImplementsFlow == Spec => RefinesFlow
<1>1. Init => Flow!Init
  BY BoardAssumption DEF Init, BoardInit, Flow!Init
<1> QED
  BY <1>1, FlowStep, TypeInvariant, PTL DEF Spec, RefinesFlow, Flow!Spec

-----------------------------------------------------------------------------
(* The merge queue. *)

(* Every step keeps the author of a queued request the assignee of its story. *)
LEMMA AuthorStep ==
  TypeInv /\ SingleExecutor /\ RequestsNameTheAuthor /\ [Next]_vars => RequestsNameTheAuthor'
<1> SUFFICES ASSUME TypeInv, SingleExecutor, RequestsNameTheAuthor, [Next]_vars
             PROVE  RequestsNameTheAuthor'
  OBVIOUS
<1>0. BoardTypeOK /\ MergeTypeOK /\ DeliveryTypeOK
  BY DEF TypeInv, TypeOK
<1>1. ASSUME NEW a \in Actors, NEW s \in Stories, Pull(a, s, sprint)
      PROVE  RequestsNameTheAuthor'
  <2>1. assignee[s] \in {None, a} /\ assignee' = [assignee EXCEPT ![s] = a]
    BY <1>1 DEF Pull, ClaimStory, Candidates
  <2>2. \A r \in Requests : assignee[r.story] = r.actor => assignee'[r.story] = r.actor
    BY <1>0, <2>1, BoardAssumption DEF Requests, BoardTypeOK
  <2>3. \A i \in 1 .. Len(queue) : queue[i] \in Requests
    BY <1>0 DEF MergeTypeOK
  <2>4. worker.phase # "idle" => worker.req \in Requests
    BY <1>0 DEF MergeTypeOK
  <2> QED
    BY <1>1, <2>2, <2>3, <2>4 DEF Pull, mergeVars, RequestsNameTheAuthor
<1>2. ASSUME NEW a \in Actors, CommitLanded(a)
      PROVE  RequestsNameTheAuthor'
  <2> DEFINE r == [story |-> work[a], actor |-> a]
  <2>1. /\ queue' = Append(queue, r)
        /\ assignee' = assignee
        /\ worker' = worker
        /\ assignee[r.story] = r.actor
    BY <1>2 DEF CommitLanded, Enqueue, SingleExecutor
  <2>2. queue \in Seq(Requests)
    BY <1>0 DEF MergeTypeOK
  <2>3. \A i \in 1 .. Len(queue') : queue'[i] = r \/ (i \in 1 .. Len(queue) /\ queue'[i] = queue[i])
    BY <2>1, <2>2
  <2> QED
    BY <2>1, <2>3 DEF RequestsNameTheAuthor
<1>3. ASSUME NEW a \in Actors,
             CommitRefused(a) \/ RestartAgent(a) \/ \E hard \in BOOLEAN : NoCommit(a, hard)
      PROVE  RequestsNameTheAuthor'
  BY <1>3
  DEF CommitRefused, RestartAgent, NoCommit, boardVars, mergeVars, RequestsNameTheAuthor
<1>4. CASE MergeNext /\ NoHandOut
  <2>1. CASE Dequeue
    <3>1. /\ worker'.req = queue[1]
          /\ 1 \in 1 .. Len(queue)
          /\ Len(queue') = Len(queue) - 1
          /\ \A i \in 1 .. Len(queue') : queue'[i] = queue[i + 1] /\ i + 1 \in 1 .. Len(queue)
      BY <1>0, <2>1 DEF Dequeue, MergeTypeOK
    <3> QED
      BY <1>4, <3>1 DEF NoHandOut, RequestsNameTheAuthor
  <2>2. CASE MergeCompleted \/ MergeConflict \/ WorkerDies \/ GateOK \/ GateBroken
    <3>1. /\ queue' = queue
          /\ worker'.phase # "idle" => worker'.req = worker.req /\ worker.phase # "idle"
      BY <1>0, <2>2
      DEF MergeCompleted, MergeConflict, WorkerDies, GateOK, GateBroken, WorkerIdle, MergeTypeOK
    <3> QED
      BY <1>4, <3>1 DEF NoHandOut, RequestsNameTheAuthor
  <2> QED
    BY <1>4, <2>1, <2>2 DEF MergeNext
<1>5. CASE NoHandOut /\ UNCHANGED mergeVars
  BY <1>5 DEF NoHandOut, mergeVars, RequestsNameTheAuthor
<1>6. CASE ProcessRestart
  BY <1>6 DEF ProcessRestart, RequestsNameTheAuthor
<1>7. CASE UNCHANGED vars
  BY <1>7 DEF vars, boardVars, mergeVars, RequestsNameTheAuthor
<1> QED
  BY <1>1, <1>2, <1>3, <1>4, <1>5, <1>6, <1>7, StepCases

(* Every merge request names the branch of the agent that holds the story.   *)
THEOREM RequestsAreAuthentic == Spec => []RequestsNameTheAuthor
<1>1. Init => RequestsNameTheAuthor
  BY DEF Init, MergeInit, RequestsNameTheAuthor
<1>2. Init => SingleExecutor
  BY DEF Init, DeliveryInit, SingleExecutor
<1> QED
  BY <1>1, <1>2, AuthorStep, ExecutorStep, TypeInvariant, PTL DEF Spec

(* Every step keeps the stories in review in the queue or with the worker. *)
LEMMA QueuedStep ==
  TypeInv /\ ReviewIsQueued /\ [Next]_vars => ReviewIsQueued'
<1> SUFFICES ASSUME TypeInv, ReviewIsQueued, [Next]_vars,
                    NEW t \in Stories, state'[t] = "review", t \notin orphans'
             PROVE  Queued(t)'
  BY DEF ReviewIsQueued
<1>0. /\ BoardTypeOK /\ MergeTypeOK /\ DeliveryTypeOK
      /\ t \notin orphans /\ state[t] = "review" => Queued(t)
  BY DEF TypeInv, TypeOK, ReviewIsQueued
<1>1. ASSUME NEW a \in Actors, NEW s \in Stories, Pull(a, s, sprint), UNCHANGED processVars
      PROVE  Queued(t)'
  BY <1>0, <1>1, MoveType, StateNames DEF Pull, ClaimStory, mergeVars, BoardTypeOK, Queued
<1>2. ASSUME NEW a \in Actors, CommitLanded(a), UNCHANGED processVars
      PROVE  Queued(t)'
  <2> DEFINE s == work[a]
             r == [story |-> s, actor |-> a]
  <2>0. s \in Stories /\ r \in Requests /\ queue \in Seq(Requests)
    BY <1>0, <1>2 DEF CommitLanded, DeliveryTypeOK, MergeTypeOK, Requests
  <2>1. queue' = Append(queue, r) /\ worker' = worker
    BY <1>2 DEF CommitLanded, Enqueue
  <2>2. CASE t = s
    <3>1. Len(queue') \in 1 .. Len(queue') /\ queue'[Len(queue')] = r
      BY <2>0, <2>1
    <3> QED
      BY <2>2, <3>1 DEF Queued
  <2>3. CASE t # s
    <3>1. Queued(t)
      BY <1>0, <1>2, <2>0, <2>3, MoveType, StateNames DEF CommitLanded, BoardTypeOK
    <3>2. \A i \in 1 .. Len(queue) : i \in 1 .. Len(queue') /\ queue'[i] = queue[i]
      BY <2>0, <2>1
    <3> QED
      BY <2>1, <3>1, <3>2 DEF Queued
  <2> QED
    BY <2>2, <2>3
<1>3. ASSUME NEW a \in Actors, UNCHANGED processVars,
             CommitRefused(a) \/ RestartAgent(a) \/ \E hard \in BOOLEAN : NoCommit(a, hard)
      PROVE  Queued(t)'
  <2>1. mergeVars' = mergeVars
    BY <1>3 DEF CommitRefused, RestartAgent, NoCommit
  <2>2. state[t] = "review"
    <3>1. CASE CommitRefused(a) \/ RestartAgent(a)
      BY <3>1 DEF CommitRefused, RestartAgent, boardVars
    <3>2. CASE \E hard \in BOOLEAN : NoCommit(a, hard)
      <4>1. work[a] \in Stories
        BY <1>0, <3>2 DEF NoCommit, DeliveryTypeOK
      <4>2. TryMove(work[a], "ready") \/ TryMove(work[a], "blocked")
        BY <3>2 DEF NoCommit, TryMove
      <4> QED
        BY <1>0, <4>1, <4>2, TryMoveType, StateNames DEF BoardTypeOK
    <3> QED
      BY <1>3, <3>1, <3>2
  <2> QED
    BY <1>0, <1>3, <2>1, <2>2 DEF mergeVars, Queued
<1>4. CASE MergeNext /\ NoHandOut /\ UNCHANGED processVars
  <2>0. state[t] = "review" /\ Queued(t)
    BY <1>0, <1>4 DEF NoHandOut
  <2>1. CASE Dequeue
    <3>1. /\ worker.phase = "idle"
          /\ worker'.phase = "merging" /\ worker'.req = queue[1]
          /\ \A i \in 1 .. Len(queue) :
               i = 1 \/ (i - 1 \in 1 .. Len(queue') /\ queue'[i - 1] = queue[i])
      BY <1>0, <2>1 DEF Dequeue, MergeTypeOK
    <3>2. PICK i \in 1 .. Len(queue) : queue[i].story = t
      BY <2>0, <3>1 DEF Queued
    <3> QED
      BY <3>1, <3>2 DEF Queued
  <2>2. CASE MergeCompleted \/ MergeConflict
    <3>1. worker.req.story \in Stories /\ worker.phase = "merging" /\ queue' = queue
      BY <1>0, <2>2 DEF MergeCompleted, MergeConflict, MergeTypeOK, Requests
    <3>2. worker.req.story # t
      <4> SUFFICES ASSUME worker.req.story = t PROVE FALSE
        OBVIOUS
      <4>1. Legal(t, "pending_acceptance") /\ Legal(t, "blocked")
        BY <2>0 DEF Legal, Transitions
      <4>2. state' \in {[state EXCEPT ![t] = "pending_acceptance"], [state EXCEPT ![t] = "blocked"]}
        BY <1>0, <2>2, <4>1, TryMoveType, StateNames DEF MergeCompleted, MergeConflict
      <4> QED
        BY <1>0, <4>2 DEF BoardTypeOK
    <3> QED
      BY <2>0, <3>1, <3>2 DEF Queued
  <2>3. CASE WorkerDies \/ GateOK \/ GateBroken
    BY <1>0, <2>0, <2>3 DEF WorkerDies, GateOK, GateBroken, WorkerIdle, MergeTypeOK, Queued
  <2> QED
    BY <1>4, <2>1, <2>2, <2>3 DEF MergeNext
<1>5. CASE NoHandOut /\ UNCHANGED <<mergeVars, processVars>>
  BY <1>0, <1>5 DEF NoHandOut, mergeVars, Queued
<1>6. CASE ProcessRestart
  BY <1>6, ScrumTeamAssumption DEF ProcessRestart, TypeInv, TypeOK
<1>7. CASE UNCHANGED vars
  BY <1>0, <1>7 DEF vars, boardVars, mergeVars, Queued
<1> QED
  BY <1>1, <1>2, <1>3, <1>4, <1>5, <1>6, <1>7, StepCases

(* Unless the process stops, every story in review has a request to come: the *)
(* queue and the board cannot drift apart, however the ceremonies interfere.  *)
THEOREM ReviewsAreQueued == Spec => []ReviewIsQueued
<1>1. Init => ReviewIsQueued
  BY DEF Init, BoardInit, ReviewIsQueued
<1> QED
  BY <1>1, QueuedStep, TypeInvariant, PTL DEF Spec

-----------------------------------------------------------------------------
(* Work in progress. *)

(* Every step keeps the stories in progress with an executor. *)
LEMMA WorkedStep ==
  TypeInv /\ InProgressIsWorked /\ [Next]_vars => InProgressIsWorked'
<1> SUFFICES ASSUME TypeInv, InProgressIsWorked, [Next]_vars,
                    NEW t \in Stories, state'[t] = "in_progress", t \notin orphans'
             PROVE  \E a \in Actors : work'[a] = t
  BY DEF InProgressIsWorked
<1>0. /\ BoardTypeOK /\ DeliveryTypeOK
      /\ t \notin orphans /\ state[t] = "in_progress" => \E a \in Actors : work[a] = t
  BY DEF TypeInv, TypeOK, InProgressIsWorked
<1>1. ASSUME NEW a \in Actors, NEW s \in Stories, Pull(a, s, sprint), UNCHANGED processVars
      PROVE  \E c \in Actors : work'[c] = t
  <2>1. work[a] = None /\ work' = [work EXCEPT ![a] = s]
    BY <1>1 DEF Pull, Idle
  <2>2. t = s \/ state[t] = "in_progress"
    BY <1>0, <1>1, MoveType, StateNames DEF Pull, ClaimStory, BoardTypeOK
  <2> QED
    BY <1>0, <1>1, <2>1, <2>2, BoardAssumption DEF DeliveryTypeOK
<1>2. ASSUME NEW a \in Actors, UNCHANGED processVars,
             CommitLanded(a) \/ CommitRefused(a) \/ \E hard \in BOOLEAN : NoCommit(a, hard)
      PROVE  \E c \in Actors : work'[c] = t
  <2> DEFINE s == work[a]
  <2>0. s \in Stories /\ work' = [work EXCEPT ![a] = None]
    BY <1>0, <1>2 DEF CommitLanded, CommitRefused, NoCommit, Free, DeliveryTypeOK
  <2>1. /\ state[s] = "in_progress" =>
             Legal(s, "review") /\ Legal(s, "ready") /\ Legal(s, "blocked")
        /\ state[s] = "in_progress" => ~CommitRefused(a)
    BY DEF Legal, Transitions, CommitRefused
  <2>2. CASE CommitLanded(a)
    BY <1>0, <1>2, <2>0, <2>2, MoveType, StateNames DEF CommitLanded, BoardTypeOK, DeliveryTypeOK
  <2>3. CASE CommitRefused(a)
    BY <1>0, <1>2, <2>0, <2>1, <2>3 DEF CommitRefused, boardVars, DeliveryTypeOK
  <2>4. CASE \E hard \in BOOLEAN : NoCommit(a, hard)
    <3>1. \/ Move(s, "ready")
          \/ TryMove(s, "blocked")
      BY <2>4 DEF NoCommit
    <3>2. state'[s] # "in_progress" /\ \A u \in Stories \ {s} : state'[u] = state[u]
      BY <1>0, <2>0, <2>1, <3>1, MoveType, TryMoveType, StateNames DEF BoardTypeOK
    <3> QED
      BY <1>0, <1>2, <2>0, <3>2 DEF DeliveryTypeOK
  <2> QED
    BY <1>2, <2>2, <2>3, <2>4
<1>3. ASSUME NEW a \in Actors, RestartAgent(a), UNCHANGED processVars
      PROVE  \E c \in Actors : work'[c] = t
  BY <1>0, <1>3 DEF RestartAgent, boardVars
<1>4. CASE NoHandOut /\ UNCHANGED <<work, processVars>>
  BY <1>0, <1>4 DEF NoHandOut
<1>5. CASE ProcessRestart
  BY <1>5, ScrumTeamAssumption DEF ProcessRestart, TypeInv, TypeOK
<1>6. CASE UNCHANGED vars
  BY <1>0, <1>6 DEF vars, boardVars, deliveryVars
<1> QED
  BY <1>1, <1>2, <1>3, <1>4, <1>5, <1>6, StepCases

(* Unless the process stops, no story is left in in_progress by its agent.    *)
THEOREM WorkIsAttended == Spec => []InProgressIsWorked
<1>1. Init => InProgressIsWorked
  BY DEF Init, BoardInit, InProgressIsWorked
<1> QED
  BY <1>1, WorkedStep, TypeInvariant, PTL DEF Spec

(* Every step keeps stories in progress in components and files of their own. *)
LEMMA ComponentStep ==
  TypeInv /\ OneInProgressPerComponent /\ [Next]_vars => OneInProgressPerComponent'
<1> SUFFICES ASSUME TypeInv, OneInProgressPerComponent, [Next]_vars,
                    NEW t \in Stories, NEW u \in Stories, t # u,
                    state'[t] = "in_progress", state'[u] = "in_progress"
             PROVE  ComponentOf[t] # ComponentOf[u] /\ FilesOf[t] \cap FilesOf[u] = {}
  BY DEF OneInProgressPerComponent
<1>0. BoardTypeOK /\ DeliveryTypeOK
  BY DEF TypeInv, TypeOK
<1>1. ASSUME NEW a \in Actors, NEW s \in Stories, Pull(a, s, sprint)
      PROVE  ComponentOf[t] # ComponentOf[u] /\ FilesOf[t] \cap FilesOf[u] = {}
  <2>1. /\ state' = [state EXCEPT ![s] = "in_progress"]
        /\ ComponentOf[s] \notin ComponentsInFlight
        /\ FilesOf[s] \cap LockedFiles = {}
    BY <1>0, <1>1, MoveType, StateNames DEF Pull, ClaimStory, Candidates
  <2>2. \A v \in Stories : state[v] = "in_progress" =>
          ComponentOf[v] \in ComponentsInFlight /\ FilesOf[v] \subseteq LockedFiles
    BY DEF ComponentsInFlight, InFlight, LockedFiles
  <2>3. \A v \in Stories \ {s} : state'[v] = state[v]
    BY <1>0, <2>1 DEF BoardTypeOK
  <2> QED
    BY <2>1, <2>2, <2>3 DEF OneInProgressPerComponent
<1>2. ASSUME \A v \in Stories : state'[v] = "in_progress" => state[v] = "in_progress"
      PROVE  ComponentOf[t] # ComponentOf[u] /\ FilesOf[t] \cap FilesOf[u] = {}
  BY <1>2 DEF OneInProgressPerComponent
<1>3. ASSUME NEW a \in Actors,
             CommitLanded(a) \/ CommitRefused(a) \/ \E hard \in BOOLEAN : NoCommit(a, hard)
      PROVE  \A v \in Stories : state'[v] = "in_progress" => state[v] = "in_progress"
  <2>0. work[a] \in Stories
    BY <1>0, <1>3 DEF CommitLanded, CommitRefused, NoCommit, DeliveryTypeOK
  <2>1. \/ \E to \in {"review", "ready", "blocked"} : TryMove(work[a], to)
        \/ state' = state
    BY <1>3 DEF CommitLanded, CommitRefused, NoCommit, TryMove, boardVars
  <2> QED
    BY <1>0, <2>0, <2>1, TryMoveType, StateNames DEF BoardTypeOK
<1>4. CASE \E a \in Actors : RestartAgent(a)
  BY <1>2, <1>4 DEF RestartAgent, boardVars
<1>5. CASE NoHandOut
  BY <1>2, <1>5 DEF NoHandOut
<1>6. CASE ProcessRestart \/ UNCHANGED vars
  BY <1>2, <1>6 DEF ProcessRestart, vars, boardVars
<1> QED
  BY <1>1, <1>2, <1>3, <1>4, <1>5, <1>6, StepCases

(* However claims, verdicts and replans interleave, no two stories of one     *)
(* component, or with a common file, are in progress together.                *)
THEOREM ComponentsAreLocked == Spec => []OneInProgressPerComponent
<1>1. Init => OneInProgressPerComponent
  BY DEF Init, BoardInit, OneInProgressPerComponent
<1> QED
  BY <1>1, ComponentStep, TypeInvariant, PTL DEF Spec

-----------------------------------------------------------------------------
(* The sprint boundary. *)

(* No sprint has begun yet. *)
LEMMA SprintInit == Init => SprintInv
BY CeremoniesAssumption
DEF Init, BoardInit, CeremoniesInit, NoBoundary, SprintInv, NumbersInRange, BacklogIsNumbered,
    CreditsAreFinal

(* Only the steps of the boundary, and a restart, touch what SprintInv reads. *)
LEMMA SprintFrame ==
  ASSUME [Next]_vars
  PROVE  \/ UNCHANGED <<sprintOf, boundary, sprintVars, processVars>>
         \/ /\ \/ BoundaryStart
               \/ \E s \in boundary.todo : CloseStory(s)
               \/ CloseSprint
               \/ PlanSprint
               \/ \E s \in boundary.todo : CommitToSprint(s)
               \/ OpenSprint
            /\ UNCHANGED processVars
         \/ ProcessRestart
<1>1. CASE DeliveryNext(sprint) /\ UNCHANGED <<ceremonyVars, processVars>>
  BY <1>1
  DEF DeliveryNext, Pull, ClaimStory, CommitLanded, CommitRefused, NoCommit, RestartAgent,
      boardVars, ceremonyVars
<1>2. CASE MergeNext /\ UNCHANGED <<deliveryVars, ceremonyVars, processVars>>
  BY <1>2
  DEF MergeNext, Dequeue, MergeCompleted, MergeConflict, WorkerDies, GateOK, GateBroken,
      boardVars, ceremonyVars
<1>3. CASE CeremoniesNext /\ UNCHANGED <<mergeVars, deliveryVars, processVars>>
  <2>1. CASE \/ PokerStart \/ PokerConverge \/ PokerFails \/ AcceptTimeout
             \/ \E e \in pokerList : PokerPick(e)
             \/ \E b \in Batches : AcceptStart(b)
    BY <1>3, <2>1
    DEF PokerStart, PokerConverge, PokerFails, AcceptTimeout, PokerPick, AcceptStart, boardVars
  <2>2. CASE \/ CustomerPick \/ CustomerDone
             \/ \E s \in reviewing : CustomerReject(s)
             \/ ElevationStart
             \/ \E s \in Stories : ReclaimCount(s) \/ Reclaim(s)
             \/ \E s \in Stories : Draft(s) \/ Unblock(s) \/ Drop(s)
    BY <1>3, <2>2
    DEF CustomerPick, CustomerDone, CustomerReject, ElevationStart, ReclaimCount, Reclaim, Draft, DraftStory, Unblock, Drop,
        boardVars, ceremonyVars
  <2>3. CASE \E b \in Batches : \E s \in batch[b].left :
               RejectOutright(b, s) \/ Accept(b, s) \/ RejectCriteria(b, s)
    BY <1>3, <2>3 DEF RejectOutright, Accept, RejectCriteria, Judged
  <2> QED
    BY <1>3, <2>1, <2>2, <2>3 DEF CeremoniesNext
<1>4. CASE UNCHANGED vars
  BY <1>4 DEF vars, boardVars, ceremonyVars
<1> QED
  BY <1>1, <1>2, <1>3, <1>4 DEF Next

(* Every step of the boundary preserves the three parts of SprintInv. *)
LEMMA SprintStep == TypeInv /\ SprintInv /\ [Next]_vars => SprintInv'
<1> SUFFICES ASSUME TypeInv, SprintInv, [Next]_vars, ~torn'
             PROVE  NumbersInRange' /\ BacklogIsNumbered' /\ CreditsAreFinal'
  BY DEF SprintInv
<1>0. /\ sprintOf \in [Stories -> Nat] /\ credits \in [Stories -> Nat] /\ sprint \in Nat
      /\ boundary \in Boundaries /\ backlog \in SUBSET Stories /\ sprintOpen \in BOOLEAN
  BY CeremoniesAssumption DEF TypeInv, TypeOK, BoardTypeOK, CeremoniesTypeOK
<1>1. ASSUME ~torn PROVE NumbersInRange /\ BacklogIsNumbered /\ CreditsAreFinal
  BY <1>1 DEF SprintInv
<1>2. CASE UNCHANGED <<sprintOf, boundary, sprintVars, processVars>>
  BY <1>1, <1>2 DEF sprintVars, NumbersInRange, BacklogIsNumbered, CreditsAreFinal
<1>3. CASE BoundaryStart /\ UNCHANGED processVars
  <2>1. /\ boundary.phase = "none" /\ boundary'.phase \in {"close", "plan"}
        /\ boundary'.phase = "close" <=> sprintOpen
        /\ boundary'.todo \cup boundary'.chosen \subseteq backlog
        /\ boundary'.chosen = {}
        /\ UNCHANGED <<sprintOf, sprint, sprintOpen, backlog, credits>>
    BY <1>0, <1>3 DEF BoundaryStart, ScrumMasterIdle, boardVars
  <2> QED
    BY <1>0, <1>1, <1>3, <2>1 DEF NumbersInRange, BacklogIsNumbered, CreditsAreFinal
<1>4. ASSUME NEW s \in boundary.todo, CloseStory(s), UNCHANGED processVars
      PROVE  NumbersInRange' /\ BacklogIsNumbered' /\ CreditsAreFinal'
  <2>1. /\ s \in Stories
        /\ boundary.phase = "close" /\ boundary'.phase = "close"
        /\ UNCHANGED <<sprint, sprintOpen, backlog, credits>>
    BY <1>0, <1>4 DEF CloseStory, Boundaries
  <2>2. CASE state[s] = "done"
    <3>1. /\ boundary'.todo = boundary.todo \ {s} /\ boundary'.chosen = boundary.chosen \cup {s}
          /\ sprintOf' = sprintOf
      BY <1>0, <1>4, <2>2 DEF CloseStory, Boundaries
    <3> QED
      BY <1>0, <1>1, <1>4, <2>1, <3>1 DEF NumbersInRange, BacklogIsNumbered, CreditsAreFinal
  <2>3. CASE state[s] # "done"
    <3>1. /\ boundary'.todo = boundary.todo \ {s} /\ boundary'.chosen = boundary.chosen
          /\ sprintOf' = [sprintOf EXCEPT ![s] = 0]
      BY <1>0, <1>4, <2>3 DEF CloseStory, Boundaries
    <3>2. NumbersInRange'
      BY <1>0, <1>1, <1>4, <2>1, <3>1 DEF NumbersInRange
    <3>3. BacklogIsNumbered'
      BY <1>0, <1>1, <1>4, <2>1, <3>1 DEF BacklogIsNumbered
    <3>4. sprintOpen /\ s \in backlog /\ credits[s] = 0
      BY <1>0, <1>1, <1>4, <2>1 DEF BacklogIsNumbered, CreditsAreFinal
    <3>5. CreditsAreFinal'
      <4> SUFFICES ASSUME NEW t \in Stories, credits[t] # 0
                   PROVE  /\ credits[t] = 1 /\ sprintOf'[t] # 0
                          /\ sprintOpen => t \notin backlog
        BY <1>0, <2>1 DEF CreditsAreFinal
      <4> QED
        BY <1>0, <1>1, <1>4, <2>1, <3>1, <3>4 DEF CreditsAreFinal
    <3> QED
      BY <3>2, <3>3, <3>5
  <2> QED
    BY <2>2, <2>3
<1>5. CASE CloseSprint /\ UNCHANGED processVars
  <2>1. /\ boundary.phase = "close" /\ boundary'.phase = "plan" /\ sprintOpen' = FALSE
        /\ credits' = [s \in Stories |->
             IF s \in boundary.chosen THEN credits[s] + 1 ELSE credits[s]]
        /\ UNCHANGED <<sprintOf, sprint, backlog>>
    BY <1>5 DEF CloseSprint, boardVars
  <2> QED
    BY <1>0, <1>1, <1>5, <2>1 DEF NumbersInRange, BacklogIsNumbered, CreditsAreFinal
<1>6. CASE PlanSprint /\ UNCHANGED processVars
  <2>1. /\ boundary.phase = "plan" /\ boundary'.phase = "open"
        /\ boundary'.todo = boundary'.chosen
        /\ \A s \in boundary'.chosen : s \in Stories /\ sprintOf[s] = 0
        /\ UNCHANGED <<sprintOf, sprint, sprintOpen, backlog, credits>>
    BY <1>6 DEF PlanSprint, boardVars, sprintVars
  <2> QED
    BY <1>0, <1>1, <1>6, <2>1 DEF NumbersInRange, BacklogIsNumbered, CreditsAreFinal
<1>7. ASSUME NEW s \in boundary.todo, CommitToSprint(s), UNCHANGED processVars
      PROVE  NumbersInRange' /\ BacklogIsNumbered' /\ CreditsAreFinal'
  <2>1. /\ s \in Stories
        /\ boundary.phase = "open" /\ boundary'.phase = "open"
        /\ boundary'.todo = boundary.todo \ {s} /\ boundary'.chosen = boundary.chosen
        /\ sprintOf' = [sprintOf EXCEPT ![s] = sprint + 1]
        /\ UNCHANGED <<sprint, sprintOpen, backlog, credits>>
    BY <1>0, <1>7 DEF CommitToSprint, Boundaries
  <2> QED
    BY <1>0, <1>1, <1>7, <2>1 DEF NumbersInRange, BacklogIsNumbered, CreditsAreFinal
<1>8. CASE OpenSprint /\ UNCHANGED processVars
  <2>1. /\ boundary.phase = "open" /\ boundary.todo = {} /\ boundary'.phase = "none"
        /\ sprint' = sprint + 1 /\ sprintOpen' = TRUE /\ backlog' = boundary.chosen
        /\ UNCHANGED <<sprintOf, credits>>
    BY <1>8 DEF OpenSprint, NoBoundary, boardVars
  <2> QED
    BY <1>0, <1>1, <1>8, <2>1 DEF NumbersInRange, BacklogIsNumbered, CreditsAreFinal
<1>9. CASE ProcessRestart
  <2>1. /\ ~torn /\ boundary.phase = "none" /\ boundary' = NoBoundary
        /\ UNCHANGED <<sprintOf, sprint, sprintOpen, backlog, credits>>
    BY <1>9 DEF ProcessRestart, sprintVars
  <2> QED
    BY <1>0, <1>1, <2>1
    DEF NumbersInRange, BacklogIsNumbered, CreditsAreFinal, NoBoundary
<1> QED
  BY <1>2, <1>3, <1>4, <1>5, <1>6, <1>7, <1>8, <1>9, SprintFrame

(* Unless a boundary is cut short, the sprint file and the story files agree on *)
(* what is in the sprint, although both are written piece by piece.           *)
THEOREM SprintFilesAgree == Spec => []BacklogAgrees
<1>1. SprintInv => BacklogAgrees
  BY DEF SprintInv, BacklogIsNumbered, BacklogAgrees
<1> QED
  BY <1>1, SprintInit, SprintStep, TypeInvariant, PTL DEF Spec

(* Unless a boundary is cut short, velocity counts no story twice.            *)
THEOREM VelocityCountsOnce == Spec => []CreditedOnce
<1>1. TypeInv /\ SprintInv => CreditedOnce
  BY DEF TypeInv, TypeOK, CeremoniesTypeOK, SprintInv, CreditsAreFinal, CreditedOnce
<1> QED
  BY <1>1, SprintInit, SprintStep, TypeInvariant, PTL DEF Spec
-----------------------------------------------------------------------------
(* Stories stay done, and so dependencies stay met, in a steady team. *)

(* Requests are about stories. *)
LEMMA RequestedStories ==
  ASSUME MergeTypeOK
  PROVE  /\ \A i \in 1 .. Len(queue) : queue[i].story \in Stories
         /\ worker.phase # "idle" => worker.req.story \in Stories
<1>1. \A i \in 1 .. Len(queue) : queue[i] \in Requests
  BY DEF MergeTypeOK
<1>2. worker.phase # "idle" => worker.req \in Requests
  BY DEF MergeTypeOK
<1> QED
  BY <1>1, <1>2 DEF Requests

(* A step that moves at most s leaves alone what the team believes about the  *)
(* columns s is not in.                                                       *)
LEMMA OthersStayCurrent ==
  ASSUME BoardTypeOK, MergeTypeOK, DeliveryTypeOK, CeremoniesTypeOK,
         NEW s \in Stories, \A t \in Stories \ {s} : state'[t] = state[t]
  PROVE  /\ state[s] \notin {"draft", "refinement"} /\ UNCHANGED pokerVars /\ PokerIsCurrent =>
              PokerIsCurrent'
         /\ state[s] # "pending_acceptance" /\ UNCHANGED batch /\ AcceptanceIsCurrent =>
              AcceptanceIsCurrent'
         /\ state[s] \notin {"ready", "in_progress"} /\ UNCHANGED work /\ WorkIsCurrent =>
              WorkIsCurrent'
         /\ state[s] # "review" /\ UNCHANGED mergeVars /\ QueueIsCurrent => QueueIsCurrent'
<1>1. ASSUME state[s] \notin {"draft", "refinement"}, UNCHANGED pokerVars, PokerIsCurrent
      PROVE  PokerIsCurrent'
  BY <1>1 DEF pokerVars, PokerIsCurrent, CeremoniesTypeOK
<1>2. ASSUME state[s] # "pending_acceptance", UNCHANGED batch, AcceptanceIsCurrent
      PROVE  AcceptanceIsCurrent'
  BY <1>2 DEF AcceptanceIsCurrent, CeremoniesTypeOK, Snapshots
<1>3. ASSUME state[s] \notin {"ready", "in_progress"}, UNCHANGED work, WorkIsCurrent
      PROVE  WorkIsCurrent'
  BY <1>3 DEF WorkIsCurrent, DeliveryTypeOK
<1>4. ASSUME state[s] # "review", UNCHANGED mergeVars, QueueIsCurrent
      PROVE  QueueIsCurrent'
  <2>1. /\ \A i \in 1 .. Len(queue) : queue[i].story \in Stories \ {s}
        /\ worker.phase # "idle" => worker.req.story \in Stories \ {s}
    BY <1>4, RequestedStories DEF QueueIsCurrent
  <2> QED
    BY <1>4, <2>1 DEF mergeVars, QueueIsCurrent
<1> QED
  BY <1>1, <1>2, <1>3, <1>4

(* What a step of a steady team keeps. *)
Quiet ==
  /\ reviewing = {} /\ PokerIsCurrent /\ AcceptanceIsCurrent /\ WorkIsCurrent
  /\ QueueIsCurrent

StaysDone == \A t \in Stories : state[t] = "done" => state'[t] = "done"

(* The delivery agents of a steady team. *)
LEMMA QuietDelivery ==
  ASSUME TypeInv, SingleExecutor, Quiet, NEW a \in Actors, UNCHANGED ceremonyVars,
         \/ \E s \in Stories : Pull(a, s, sprint)
         \/ CommitLanded(a)
         \/ CommitRefused(a)
         \/ \E hard \in BOOLEAN : NoCommit(a, hard)
         \/ RestartAgent(a)
  PROVE  Quiet' /\ StaysDone
<1> USE DEF Quiet
<1>0. BoardTypeOK /\ MergeTypeOK /\ DeliveryTypeOK /\ CeremoniesTypeOK
  BY DEF TypeInv, TypeOK
<1>c. UNCHANGED <<pokerVars, batch, reviewing>>
  BY DEF ceremonyVars, acceptVars, customerVars
<1>1. CASE \E s \in Stories : Pull(a, s, sprint)
  <2> PICK s \in Stories : Pull(a, s, sprint)
    BY <1>1
  <2>1. state[s] = "ready" /\ state' = [state EXCEPT ![s] = "in_progress"]
    BY <1>0, MoveType, StateNames DEF Pull, ClaimStory, Candidates
  <2>2. \A t \in Stories \ {s} : state'[t] = state[t]
    BY <1>0, <2>1 DEF BoardTypeOK
  <2>3. PokerIsCurrent' /\ AcceptanceIsCurrent' /\ QueueIsCurrent'
    BY <1>0, <1>c, <2>1, <2>2, OthersStayCurrent DEF Pull
  <2>4. state'[s] = "in_progress" /\ work' = [work EXCEPT ![a] = s]
    BY <1>0, <2>1 DEF BoardTypeOK, Pull
  <2>5. WorkIsCurrent'
    BY <1>0, <2>2, <2>4 DEF WorkIsCurrent, DeliveryTypeOK
  <2> QED
    BY <1>c, <2>1, <2>2, <2>3, <2>5 DEF StaysDone
<1>2. CASE \/ CommitLanded(a)
           \/ CommitRefused(a)
           \/ \E hard \in BOOLEAN : NoCommit(a, hard)
  <2> DEFINE s == work[a]
  <2>1. /\ s \in Stories
        /\ state[s] \in {"ready", "in_progress"}
        /\ work' = [work EXCEPT ![a] = None]
        /\ \A b \in Actors \ {a} : work[b] # s
    BY <1>0, <1>2
    DEF CommitLanded, CommitRefused, NoCommit, Free, WorkIsCurrent, DeliveryTypeOK,
        SingleExecutor
  <2>2. \A t \in Stories \ {s} : state'[t] = state[t]
    <3>1. \/ \E to \in {"review", "ready", "blocked"} : TryMove(s, to)
          \/ state' = state
      BY <1>2 DEF CommitLanded, CommitRefused, NoCommit, TryMove, boardVars
    <3> QED
      BY <1>0, <2>1, <3>1, TryMoveType, StateNames DEF BoardTypeOK
  <2>3. PokerIsCurrent' /\ AcceptanceIsCurrent'
    BY <1>0, <1>c, <2>1, <2>2, OthersStayCurrent
  <2>4. WorkIsCurrent'
    BY <1>0, <2>1, <2>2 DEF WorkIsCurrent, DeliveryTypeOK
  <2>5. QueueIsCurrent'
    <3>1. CASE CommitLanded(a)
      <4> DEFINE r == [story |-> s, actor |-> a]
      <4>1. /\ queue' = Append(queue, r) /\ worker' = worker /\ queue \in Seq(Requests)
            /\ r \in Requests
        BY <1>0, <2>1, <3>1 DEF CommitLanded, Enqueue, MergeTypeOK, Requests
      <4>2. /\ \A i \in 1 .. Len(queue) : queue[i].story \in Stories \ {s}
            /\ worker.phase # "idle" => worker.req.story \in Stories \ {s}
        BY <1>0, <2>1, RequestedStories DEF QueueIsCurrent
      <4>3. state'[s] = "review"
        BY <1>0, <2>1, <3>1, MoveType, StateNames DEF CommitLanded, BoardTypeOK
      <4>4. /\ Len(queue') = Len(queue) + 1 /\ Len(queue) \in Nat
            /\ queue'[Len(queue) + 1].story = s
            /\ \A i \in 1 .. Len(queue) : queue'[i] = queue[i]
        BY <4>1
      <4>5. \A i \in 1 .. Len(queue') : i \in 1 .. Len(queue) \/ i = Len(queue) + 1
        BY <4>4
      <4>6. \A i \in 1 .. Len(queue') : state'[queue'[i].story] = "review"
        BY <2>2, <4>2, <4>3, <4>4, <4>5 DEF QueueIsCurrent
      <4>7. \A i, j \in 1 .. Len(queue') : queue'[i].story = queue'[j].story => i = j
        BY <4>2, <4>4, <4>5 DEF QueueIsCurrent
      <4>8. worker.phase # "idle" =>
              /\ state'[worker.req.story] = "review"
              /\ \A i \in 1 .. Len(queue') : queue'[i].story # worker.req.story
        BY <2>2, <4>2, <4>4, <4>5 DEF QueueIsCurrent
      <4> QED
        BY <4>1, <4>6, <4>7, <4>8 DEF QueueIsCurrent
    <3>2. CASE CommitRefused(a) \/ \E hard \in BOOLEAN : NoCommit(a, hard)
      <4>1. UNCHANGED mergeVars
        BY <3>2 DEF CommitRefused, NoCommit
      <4> QED
        BY <1>0, <2>1, <2>2, <4>1, OthersStayCurrent
    <3> QED
      BY <1>2, <3>1, <3>2
  <2> QED
    BY <1>c, <2>1, <2>2, <2>3, <2>4, <2>5 DEF StaysDone
<1>3. CASE RestartAgent(a)
  BY <1>3, <1>c
  DEF RestartAgent, boardVars, mergeVars, pokerVars, PokerIsCurrent, AcceptanceIsCurrent,
      WorkIsCurrent, QueueIsCurrent, StaysDone
<1> QED
  BY <1>1, <1>2, <1>3

(* The merge worker of a steady team: its request is the only one for its     *)
(* story, which is still in review.                                           *)
LEMMA QuietMerge ==
  ASSUME TypeInv, Quiet, ~CollectionGate, MergeNext, UNCHANGED <<deliveryVars, ceremonyVars>>
  PROVE  Quiet' /\ StaysDone
<1> USE DEF Quiet
<1>0. BoardTypeOK /\ MergeTypeOK /\ DeliveryTypeOK /\ CeremoniesTypeOK
  BY DEF TypeInv, TypeOK
<1>c. UNCHANGED <<work, pokerVars, batch, reviewing>>
  BY DEF deliveryVars, ceremonyVars, acceptVars, customerVars
<1>1. CASE Dequeue
  <2>1. UNCHANGED state
    BY <1>1 DEF Dequeue, boardVars
  <2>2. PokerIsCurrent' /\ AcceptanceIsCurrent' /\ WorkIsCurrent' /\ StaysDone
    BY <1>c, <2>1
    DEF pokerVars, PokerIsCurrent, AcceptanceIsCurrent, WorkIsCurrent, StaysDone
  <2>3. /\ worker'.phase = "merging" /\ worker'.req = queue[1]
        /\ 1 \in 1 .. Len(queue) /\ Len(queue) \in Nat
        /\ Len(queue') = Len(queue) - 1
        /\ \A i \in 1 .. Len(queue') : queue'[i] = queue[i + 1] /\ i + 1 \in 1 .. Len(queue)
    BY <1>0, <1>1 DEF Dequeue, MergeTypeOK
  <2>4. /\ \A i \in 1 .. Len(queue') : state[queue'[i].story] = "review"
        /\ state[worker'.req.story] = "review"
    BY <2>3 DEF QueueIsCurrent
  <2>5. \A i, j \in 1 .. Len(queue') : queue'[i].story = queue'[j].story => i = j
    <3> SUFFICES ASSUME NEW i \in 1 .. Len(queue'), NEW j \in 1 .. Len(queue'),
                        queue'[i].story = queue'[j].story
                 PROVE  i = j
      OBVIOUS
    <3>1. i + 1 = j + 1
      BY <2>3 DEF QueueIsCurrent
    <3> QED
      BY <3>1, <2>3
  <2>6. \A i \in 1 .. Len(queue') : queue'[i].story # worker'.req.story
    <3> SUFFICES ASSUME NEW i \in 1 .. Len(queue'), queue'[i].story = worker'.req.story
                 PROVE  FALSE
      OBVIOUS
    <3>1. i + 1 = 1
      BY <2>3 DEF QueueIsCurrent
    <3> QED
      BY <3>1, <2>3
  <2> QED
    BY <1>c, <2>1, <2>2, <2>3, <2>4, <2>5, <2>6 DEF QueueIsCurrent
<1>2. CASE MergeCompleted \/ MergeConflict
  <2> DEFINE s == worker.req.story
  <2>1. /\ s \in Stories /\ state[s] = "review"
        /\ \A i \in 1 .. Len(queue) : queue[i].story # s
        /\ queue' = queue /\ worker'.phase = "idle"
    BY <1>0, <1>2
    DEF MergeCompleted, MergeConflict, WorkerIdle, MergeTypeOK, Requests, QueueIsCurrent
  <2>2. \A t \in Stories \ {s} : state'[t] = state[t]
    BY <1>0, <1>2, <2>1, TryMoveType, StateNames DEF MergeCompleted, MergeConflict, BoardTypeOK
  <2>3. PokerIsCurrent' /\ AcceptanceIsCurrent' /\ WorkIsCurrent'
    BY <1>0, <1>c, <2>1, <2>2, OthersStayCurrent
  <2>4. \A i \in 1 .. Len(queue) : queue[i].story \in Stories \ {s}
    BY <1>0, <2>1, RequestedStories
  <2>5. QueueIsCurrent'
    BY <2>1, <2>2, <2>4 DEF QueueIsCurrent
  <2> QED
    BY <1>c, <2>1, <2>2, <2>3, <2>5 DEF StaysDone
<1>3. CASE WorkerDies
  <2>1. /\ UNCHANGED <<state, queue>> /\ worker'.phase = "dead" /\ worker'.req = worker.req
        /\ worker.phase # "idle"
    BY <1>0, <1>3 DEF WorkerDies, boardVars, MergeTypeOK
  <2> QED
    BY <1>c, <2>1
    DEF pokerVars, PokerIsCurrent, AcceptanceIsCurrent, WorkIsCurrent, QueueIsCurrent, StaysDone
<1>4. CASE GateOK \/ GateBroken
  BY <1>4 DEF GateOK, GateBroken, QueueIsCurrent
<1> QED
  BY <1>1, <1>2, <1>3, <1>4 DEF MergeNext

(* A steady team has no elevation pass under way. *)
LEMMA ElevationStaysOff ==
  ASSUME Steady, elevation = NoElevation, [Next]_vars
  PROVE  elevation' = NoElevation
<1>1. CASE (DeliveryNext(sprint) \/ MergeNext) /\ UNCHANGED ceremonyVars
  BY <1>1 DEF ceremonyVars
<1>2. CASE CeremoniesNext
  <2>1. ~ \/ ElevationStart
          \/ \E s \in Stories : ReclaimCount(s) \/ Reclaim(s)
    BY BoardAssumption DEF Steady, ElevationStart, ReclaimCount, Reclaim, NoElevation
  <2>2. CASE \/ PokerStart \/ PokerConverge \/ PokerFails \/ AcceptTimeout
             \/ \E e \in pokerList : PokerPick(e)
             \/ \E b \in Batches : AcceptStart(b)
    BY <2>2
    DEF PokerStart, PokerConverge, PokerFails, AcceptTimeout, PokerPick, AcceptStart
  <2>3. CASE \/ CustomerPick \/ CustomerDone
             \/ \E s \in reviewing : CustomerReject(s)
             \/ \E s \in Stories : Draft(s) \/ Unblock(s) \/ Drop(s)
    BY <2>3
    DEF CustomerPick, CustomerDone, CustomerReject, Draft, Unblock, Drop, ceremonyVars
  <2>4. CASE \E b \in Batches : \E s \in batch[b].left :
               RejectOutright(b, s) \/ Accept(b, s) \/ RejectCriteria(b, s)
    BY <2>4 DEF RejectOutright, Accept, RejectCriteria, Judged
  <2>5. CASE \/ BoundaryStart \/ CloseSprint \/ PlanSprint \/ OpenSprint
             \/ \E s \in boundary.todo : CloseStory(s) \/ CommitToSprint(s)
    BY <2>5 DEF BoundaryStart, CloseSprint, PlanSprint, OpenSprint, CloseStory, CommitToSprint
  <2> QED
    BY <1>2, <2>1, <2>2, <2>3, <2>4, <2>5 DEF CeremoniesNext
<1>3. CASE ProcessRestart \/ UNCHANGED vars
  BY <1>3 DEF ProcessRestart, vars, ceremonyVars
<1> QED
  BY <1>1, <1>2, <1>3 DEF Next

(* The ceremonies of a steady team: poker and acceptance judge each story by  *)
(* what they listed it for.                                                   *)
LEMMA QuietCeremonies ==
  ASSUME TypeInv, Quiet, Steady, elevation = NoElevation, CeremoniesNext,
         UNCHANGED <<mergeVars, deliveryVars>>
  PROVE  Quiet' /\ StaysDone
<1> USE DEF Quiet
<1>0. BoardTypeOK /\ MergeTypeOK /\ DeliveryTypeOK /\ CeremoniesTypeOK
  BY DEF TypeInv, TypeOK
<1>c. UNCHANGED <<work, mergeVars>>
  BY DEF deliveryVars
<1>f. ASSUME UNCHANGED <<state, pokerVars, batch, reviewing>> PROVE Quiet' /\ StaysDone
  BY <1>c, <1>f
  DEF pokerVars, mergeVars, PokerIsCurrent, AcceptanceIsCurrent, WorkIsCurrent,
      QueueIsCurrent, StaysDone
<1>1. CASE PokerStart
  <2>1. /\ UNCHANGED <<state, pokerStory, batch, reviewing>> /\ pokerStory = None
        /\ \A e \in pokerList' : e[1] \in Stories /\ e[2] = state[e[1]]
    BY <1>1 DEF PokerStart, ScrumMasterIdle, boardVars, acceptVars, customerVars
  <2>2. PokerIsCurrent'
    BY <2>1, BoardAssumption DEF PokerIsCurrent
  <2> QED
    BY <1>c, <2>1, <2>2
    DEF mergeVars, AcceptanceIsCurrent, WorkIsCurrent, QueueIsCurrent, StaysDone
<1>2. CASE \E e \in pokerList : PokerPick(e)
  <2> PICK e \in pokerList : PokerPick(e)
    BY <1>2
  <2> DEFINE s == e[1]
  <2>1. /\ s \in Stories /\ state[s] = e[2] /\ e[2] \in {"draft", "refinement"}
        /\ pokerList' = pokerList \ {e} /\ UNCHANGED <<batch, reviewing>>
    BY <1>0 DEF PokerPick, acceptVars, customerVars, PokerIsCurrent, CeremoniesTypeOK
  <2>2. Legal(s, "refinement") \/ e[2] = "refinement"
    BY <2>1 DEF Legal, Transitions
  <2>3. pokerStory' = s /\ state' = [state EXCEPT ![s] = "refinement"]
    <3>1. CASE e[2] = "draft"
      BY <1>0, <2>1, <2>2, <3>1, MoveType, StateNames DEF PokerPick
    <3>2. CASE e[2] = "refinement"
      BY <1>0, <2>1, <3>2 DEF PokerPick, BoardTypeOK
    <3> QED
      BY <2>1, <3>1, <3>2
  <2>4. \A t \in Stories \ {s} : state'[t] = state[t]
    BY <1>0, <2>3 DEF BoardTypeOK
  <2>5. \A d \in pokerList' : d[1] \in Stories \ {s} /\ state[d[1]] = d[2]
    <3> SUFFICES ASSUME NEW d \in pokerList' PROVE d[1] \in Stories \ {s} /\ state[d[1]] = d[2]
      OBVIOUS
    <3>1. d \in pokerList /\ d # e
      BY <2>1
    <3>2. /\ d \in Stories \X {"draft", "refinement"} /\ e \in Stories \X {"draft", "refinement"}
          /\ state[d[1]] = d[2]
      BY <1>0, <3>1 DEF CeremoniesTypeOK, PokerIsCurrent
    <3> QED
      BY <2>1, <3>1, <3>2
  <2>6. PokerIsCurrent'
    BY <1>0, <2>1, <2>3, <2>4, <2>5 DEF PokerIsCurrent, BoardTypeOK
  <2>7. AcceptanceIsCurrent' /\ WorkIsCurrent' /\ QueueIsCurrent'
    BY <1>0, <1>c, <2>1, <2>4, OthersStayCurrent
  <2> QED
    BY <2>1, <2>4, <2>6, <2>7 DEF StaysDone
<1>3. CASE PokerConverge
  <2> DEFINE s == pokerStory
  <2>1. /\ s \in Stories /\ state[s] = "refinement"
        /\ pokerStory' = None /\ UNCHANGED <<pokerList, batch, reviewing>>
    BY <1>0, <1>3
    DEF PokerConverge, acceptVars, customerVars, PokerIsCurrent, CeremoniesTypeOK
  <2>2. \A t \in Stories \ {s} : state'[t] = state[t]
    BY <1>0, <1>3, <2>1, TryMoveType, StateNames DEF PokerConverge, BoardTypeOK
  <2>3. \A e \in pokerList : e[1] \in Stories \ {s} /\ e[1] # None
    BY <1>0, BoardAssumption DEF PokerIsCurrent, CeremoniesTypeOK
  <2>4. PokerIsCurrent'
    BY <2>1, <2>2, <2>3 DEF PokerIsCurrent
  <2>5. AcceptanceIsCurrent' /\ WorkIsCurrent' /\ QueueIsCurrent'
    BY <1>0, <1>c, <2>1, <2>2, OthersStayCurrent
  <2> QED
    BY <2>1, <2>2, <2>4, <2>5 DEF StaysDone
<1>4. CASE PokerFails
  <2>1. UNCHANGED <<state, batch, reviewing>> /\ pokerStory' = None /\ pokerList' = {}
    BY <1>4 DEF PokerFails, boardVars, acceptVars, customerVars
  <2> QED
    BY <1>c, <2>1
    DEF mergeVars, PokerIsCurrent, AcceptanceIsCurrent, WorkIsCurrent, QueueIsCurrent,
        StaysDone
<1>6. CASE \/ BoundaryStart \/ CloseSprint \/ PlanSprint \/ OpenSprint \/ AcceptTimeout
           \/ \E s \in boundary.todo : CloseStory(s) \/ CommitToSprint(s)
  BY <1>6, <1>f
  DEF BoundaryStart, CloseSprint, PlanSprint, OpenSprint, AcceptTimeout, CloseStory,
      CommitToSprint, boardVars, acceptVars, customerVars
<1>7. CASE \E b \in Batches : AcceptStart(b)
  <2> PICK b \in Batches : AcceptStart(b)
    BY <1>7
  <2>1. UNCHANGED <<state, pokerVars, reviewing>>
    BY DEF AcceptStart, boardVars, customerVars
  <2>2. AcceptanceIsCurrent'
    BY <1>0, <2>1 DEF AcceptStart, AcceptanceIsCurrent, CeremoniesTypeOK
  <2> QED
    BY <1>c, <2>1, <2>2
    DEF mergeVars, pokerVars, PokerIsCurrent, WorkIsCurrent, QueueIsCurrent, StaysDone
<1>8. CASE \E b \in Batches : \E s \in batch[b].left :
             RejectOutright(b, s) \/ Accept(b, s) \/ RejectCriteria(b, s)
  <2> PICK b \in Batches : \E s \in batch[b].left :
             RejectOutright(b, s) \/ Accept(b, s) \/ RejectCriteria(b, s)
    BY <1>8
  <2> PICK s \in batch[b].left :
             RejectOutright(b, s) \/ Accept(b, s) \/ RejectCriteria(b, s)
    OBVIOUS
  <2>1. s \in Stories /\ state[s] = "pending_acceptance"
    BY <1>0 DEF AcceptanceIsCurrent, CeremoniesTypeOK, Snapshots
  <2>2. \E to \in {"blocked", "done", "ready"} : TryMove(s, to)
    BY DEF RejectOutright, Accept, RejectCriteria, TryMove
  <2>3. \A t \in Stories \ {s} : state'[t] = state[t]
    BY <1>0, <2>1, <2>2, TryMoveType, StateNames DEF BoardTypeOK
  <2>4. /\ UNCHANGED <<pokerVars, reviewing>>
        /\ batch' = [batch EXCEPT ![b] = [left |-> @.left \ {s}, sha |-> @.sha \ {s}]]
    BY DEF RejectOutright, Accept, RejectCriteria, Judged, customerVars
  <2>5. \A c \in Batches : batch'[c].left = batch[b].left \ {s}
    BY <1>0, <2>4 DEF Steady, CeremoniesTypeOK
  <2>6. AcceptanceIsCurrent'
    BY <1>0, <2>3, <2>5 DEF AcceptanceIsCurrent, CeremoniesTypeOK, Snapshots
  <2>7. PokerIsCurrent' /\ WorkIsCurrent' /\ QueueIsCurrent'
    BY <1>0, <1>c, <2>1, <2>3, <2>4, OthersStayCurrent
  <2> QED
    BY <2>1, <2>3, <2>4, <2>6, <2>7 DEF StaysDone
<1>9. ~ \/ CustomerPick \/ CustomerDone
        \/ \E s \in reviewing : CustomerReject(s)
        \/ \E s \in Stories : Draft(s) \/ Unblock(s) \/ Drop(s)
        \/ ElevationStart
        \/ \E s \in Stories : ReclaimCount(s) \/ Reclaim(s)
  BY BoardAssumption
  DEF Steady, CustomerPick, CustomerDone, CustomerReject, Draft, Unblock, Drop,
      ElevationStart, NoElevation, ReclaimCount, Reclaim
<1> QED
  BY <1>1, <1>2, <1>3, <1>4, <1>6, <1>7, <1>8, <1>9 DEF CeremoniesNext

(* In a steady team every step keeps the team's view of the board current,    *)
(* and moves no story that is done.                                           *)
LEMMA QuietStep ==
  ASSUME TypeInv, SingleExecutor, Steady, elevation = NoElevation, Quiet, [Next]_vars
  PROVE  Quiet' /\ StaysDone
<1>1. CASE DeliveryNext(sprint) /\ UNCHANGED <<ceremonyVars, processVars>>
  BY <1>1, QuietDelivery DEF DeliveryNext
<1>2. CASE MergeNext /\ UNCHANGED <<deliveryVars, ceremonyVars, processVars>>
  BY <1>2, QuietMerge DEF Steady
<1>3. CASE CeremoniesNext /\ UNCHANGED <<mergeVars, deliveryVars, processVars>>
  BY <1>3, QuietCeremonies
<1>4. CASE ProcessRestart
  BY <1>4
  DEF ProcessRestart, EmptyBatch, Quiet, PokerIsCurrent, AcceptanceIsCurrent, WorkIsCurrent,
      QueueIsCurrent, StaysDone
<1>5. CASE UNCHANGED vars
  BY <1>5
  DEF vars, boardVars, mergeVars, deliveryVars, ceremonyVars, pokerVars, acceptVars,
      customerVars, Quiet, PokerIsCurrent, AcceptanceIsCurrent, WorkIsCurrent,
      QueueIsCurrent, StaysDone
<1> QED
  BY <1>1, <1>2, <1>3, <1>4, <1>5 DEF Next

(* Every step keeps the dependencies of the stories being worked on done: a   *)
(* claim checks them, and nothing undoes them.                                *)
LEMMA DependencyStep ==
  TypeInv /\ SingleExecutor /\ SteadyInv /\ DependenciesComeFirst /\ [Next]_vars =>
    SteadyInv' /\ DependenciesComeFirst'
<1> SUFFICES ASSUME TypeInv, SingleExecutor, SteadyInv, DependenciesComeFirst, [Next]_vars,
                    Steady
             PROVE  /\ elevation' = NoElevation /\ Quiet'
                    /\ \A a \in Actors : work'[a] # None =>
                         \A d \in DependsOn[work'[a]] : state'[d] = "done"
  BY DEF SteadyInv, Steady, Quiet, DependenciesComeFirst
<1>0. BoardTypeOK /\ DeliveryTypeOK
  BY DEF TypeInv, TypeOK
<1>1. elevation' = NoElevation /\ Quiet' /\ StaysDone
  BY QuietStep, ElevationStaysOff DEF SteadyInv, Quiet
<1>2. \A s \in Stories : DependsOn[s] \subseteq Stories
  BY BoardAssumption
<1>3. ASSUME NEW a \in Actors, work'[a] # None
      PROVE  work'[a] \in Stories /\ \A d \in DependsOn[work'[a]] : state[d] = "done"
  <2>1. CASE work'[a] = work[a]
    BY <1>0, <1>3, <2>1 DEF DependenciesComeFirst, DeliveryTypeOK
  <2>2. ASSUME NEW b \in Actors, NEW s \in Stories, Pull(b, s, sprint)
        PROVE  work'[a] = work[a] \/ (work'[a] = s /\ \A d \in DependsOn[s] : state[d] = "done")
    BY <1>0, <2>2 DEF Pull, ClaimStory, Candidates, DeliveryTypeOK
  <2>3. ASSUME NEW b \in Actors,
               CommitLanded(b) \/ CommitRefused(b) \/ \E hard \in BOOLEAN : NoCommit(b, hard)
        PROVE  work'[a] = work[a]
    BY <1>0, <1>3, <2>3 DEF CommitLanded, CommitRefused, NoCommit, Free, DeliveryTypeOK
  <2>4. CASE (\E b \in Actors : RestartAgent(b)) \/ UNCHANGED work \/ UNCHANGED vars
    BY <2>1, <2>4 DEF RestartAgent, vars, deliveryVars
  <2>5. ~ProcessRestart
    BY <1>3 DEF ProcessRestart
  <2> QED
    BY <2>1, <2>2, <2>3, <2>4, <2>5, StepCases
<1> QED
  BY <1>1, <1>2, <1>3 DEF StaysDone

(* Whatever order agents, merge worker, poker, acceptance and restarts take,  *)
(* an agent of a steady team never works on a story before those it depends   *)
(* on are done.                                                               *)
THEOREM DependenciesAreDone == Spec => []DependenciesComeFirst
<1>1. Init => SteadyInv /\ DependenciesComeFirst
  BY DEF Init, BoardInit, MergeInit, DeliveryInit, CeremoniesInit, EmptyBatch, SteadyInv,
         PokerIsCurrent, AcceptanceIsCurrent, WorkIsCurrent, QueueIsCurrent,
         DependenciesComeFirst
<1>2. Init => SingleExecutor
  BY DEF Init, DeliveryInit, SingleExecutor
<1> QED
  BY <1>1, <1>2, DependencyStep, ExecutorStep, TypeInvariant, PTL DEF Spec
=============================================================================
