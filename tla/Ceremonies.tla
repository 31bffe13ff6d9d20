-------------------------------- MODULE Ceremonies -------------------------------
(*****************************************************************************)
(* The ceremonies of the coordination agents: planning poker, elevation and  *)
(* the sprint boundary (scrum master), acceptance, replan and PR feedback    *)
(* (product owner), and the customer review.                                 *)
(*                                                                           *)
(* A ceremony works in a pool thread.  It reads the board, waits for an LLM  *)
(* and then writes the board: each of these is a step of its own, so what it *)
(* read may be stale when it writes.  _bounded lets the agent go on after a  *)
(* timeout while the thread keeps running.                                   *)
(*****************************************************************************)
EXTENDS Board

CONSTANTS
  Criteria,             \* the stories that carry acceptance_criteria
  MaxAcRetries,         \* MAX_AC_RETRIES
  Batches,              \* the pool threads acceptance may occupy
  CustomerMaxRejects,   \* CUSTOMER_MAX_REJECTS
  VelocityTarget,       \* velocity_target of the next sprint
  MaxSprints,           \* bound: sprints opened in a behaviour
  Active                \* the ceremonies that take place in this team

CeremonyNames == {"poker", "elevation", "sprints", "acceptance", "replan", "customer"}

ASSUME CeremoniesAssumption ==
  /\ Criteria \subseteq Stories
  /\ MaxAcRetries \in 1 .. AttemptCap - 1
  /\ None \notin Batches
  /\ CustomerMaxRejects \in Nat
  /\ VelocityTarget \in Nat
  /\ MaxSprints \in Nat
  /\ Active \subseteq CeremonyNames

VARIABLES
  pokerList,   \* <<story, state when listed>> still to be refined
  pokerStory,  \* the story being voted on, or None
  batch,       \* acceptance thread -> what is left of its snapshot
  poWaits,     \* the acceptance thread the product owner awaits, or None
  reviewing,   \* the done stories the customer has been shown
  rejects,     \* story -> the customer's reject comments on it
  elevation,   \* the stories an elevation pass has still to reclaim, and the counted one
  boundary,    \* how far the sprint boundary's thread is
  sprint,      \* current_sprint.txt
  sprintOpen,  \* Sprint.is_open of the current sprint
  backlog,     \* committed_backlog of the current sprint
  credits      \* story -> in how many closed sprints it is in stories_done

pokerVars == <<pokerList, pokerStory>>
acceptVars == <<batch, poWaits>>
customerVars == <<reviewing, rejects>>
sprintVars == <<sprint, sprintOpen, backlog, credits>>
ceremonyVars == <<pokerVars, acceptVars, customerVars, elevation, boundary, sprintVars>>

Snapshots == [left : SUBSET Stories, sha : SUBSET Stories]

EmptyBatch == [left |-> {}, sha |-> {}]

Boundaries == [phase : {"none", "close", "plan", "open"}, todo : SUBSET Stories,
               chosen : SUBSET Stories]

NoBoundary == [phase |-> "none", todo |-> {}, chosen |-> {}]

NoElevation == [stuck |-> {}, counted |-> None]

CeremoniesInit ==
  /\ pokerList = {}
  /\ pokerStory = None
  /\ batch = [b \in Batches |-> EmptyBatch]
  /\ poWaits = None
  /\ reviewing = {}
  /\ rejects = [s \in Stories |-> 0]
  /\ elevation = NoElevation
  /\ boundary = NoBoundary
  /\ sprint = 0
  /\ sprintOpen = FALSE
  /\ backlog = {}
  /\ credits = [s \in Stories |-> 0]

CeremoniesTypeOK ==
  /\ pokerList \in SUBSET (Stories \X {"draft", "refinement"})
  /\ pokerStory \in Stories \cup {None}
  /\ batch \in [Batches -> Snapshots]
  /\ poWaits \in Batches \cup {None}
  /\ reviewing \in SUBSET Stories
  /\ rejects \in [Stories -> 0 .. CustomerMaxRejects]
  /\ elevation \in [stuck : SUBSET Stories, counted : Stories \cup {None}]
  /\ boundary \in Boundaries
  /\ sprint \in 0 .. MaxSprints
  /\ sprintOpen \in BOOLEAN
  /\ backlog \in SUBSET Stories
  /\ credits \in [Stories -> Nat]

-----------------------------------------------------------------------------
(* Planning poker.  _run_poker awaits every story in turn, and the scrum       *)
(* master does nothing else until its list is empty (nor while it waits for   *)
(* an elevation pass or the sprint boundary).                                 *)

ScrumMasterIdle ==
  pokerList = {} /\ pokerStory = None /\ elevation = NoElevation /\ boundary.phase = "none"

PokerStart ==
  LET found == {s \in Stories : state[s] \in {"draft", "refinement"}} IN
  /\ "poker" \in Active
  /\ ScrumMasterIdle
  /\ found # {}
  /\ pokerList' = {<<s, state[s]>> : s \in found}
  /\ UNCHANGED <<boardVars, pokerStory, acceptVars, customerVars, elevation, boundary,
                 sprintVars>>

(* A story listed as a draft is moved to refinement, and skipped if it can no *)
(* longer be; one listed in refinement goes straight to the vote.             *)
PokerPick(e) ==
  LET s == e[1] IN
  /\ pokerStory = None
  /\ e \in pokerList
  /\ pokerList' = pokerList \ {e}
  /\ \/ e[2] = "draft" /\ Move(s, "refinement") /\ pokerStory' = s
     \/ e[2] = "draft" /\ ~Legal(s, "refinement")
        /\ UNCHANGED <<state, activation, pokerStory>>
     \/ e[2] = "refinement" /\ pokerStory' = s /\ UNCHANGED <<state, activation>>
  /\ UNCHANGED <<assignee, attempts, committed, sprintOf, acceptVars, customerVars,
                 elevation, boundary, sprintVars>>

(* The votes are in: set_points and the transition to ready. *)
PokerConverge ==
  /\ pokerStory # None
  /\ TryMove(pokerStory, "ready")
  /\ pokerStory' = None
  /\ UNCHANGED <<pokerList, assignee, attempts, committed, sprintOf, acceptVars,
                 customerVars, elevation, boundary, sprintVars>>

(* A vote raises: the rest of the list is abandoned. *)
PokerFails ==
  /\ pokerStory # None
  /\ pokerStory' = None
  /\ pokerList' = {}
  /\ UNCHANGED <<boardVars, acceptVars, customerVars, elevation, boundary, sprintVars>>

-----------------------------------------------------------------------------
(* Elevation.  The in_progress half of run_elevation_pass lists the stories    *)
(* once and goes through the listing in a pool thread: a story may be moved   *)
(* before its turn comes, or between the two calls of its turn.  The age is   *)
(* taken from activated_at, the first stint.  The ready half and the bumps    *)
(* change priorities only.                                                    *)

ElevationStart ==
  LET stuck == {s \in Stories : state[s] = "in_progress" /\ activation[s] = "earlier"} IN
  /\ "elevation" \in Active
  /\ ScrumMasterIdle
  /\ stuck # {}
  /\ elevation' = [elevation EXCEPT !.stuck = stuck]
  /\ UNCHANGED <<boardVars, pokerVars, acceptVars, customerVars, boundary, sprintVars>>

ReclaimCount(s) ==
  /\ elevation.counted = None
  /\ s \in elevation.stuck
  /\ elevation' = [stuck |-> elevation.stuck \ {s}, counted |-> s]
  /\ attempts' = [attempts EXCEPT ![s] = NextAttempt(s)]
  /\ UNCHANGED <<state, assignee, committed, activation, sprintOf, pokerVars, acceptVars,
                 customerVars, boundary, sprintVars>>

(* Mutant of Reclaim: the story is taken from its assignee as well. *)
ReclaimUnassigned(s) ==
  /\ elevation.counted = s
  /\ TryMove(s, "ready")
  /\ assignee' = [assignee EXCEPT ![s] = None]
  /\ elevation' = [elevation EXCEPT !.counted = None]
  /\ UNCHANGED <<attempts, committed, sprintOf, pokerVars, acceptVars, customerVars,
                 boundary, sprintVars>>

Reclaim(s) ==
  /\ elevation.counted = s
  /\ TryMove(s, "ready")
  /\ elevation' = [elevation EXCEPT !.counted = None]
  /\ UNCHANGED <<assignee, attempts, committed, sprintOf, pokerVars, acceptVars,
                 customerVars, boundary, sprintVars>>

-----------------------------------------------------------------------------
(* _run_sprint_boundary, in a pool thread: close_sprint, then open_sprint.     *)
(* Stories are read and written one at a time while the team goes on; only    *)
(* the order of a story's read and write does not matter to anybody.          *)

BoundaryStart ==
  /\ "sprints" \in Active
  /\ ScrumMasterIdle
  /\ sprint < MaxSprints
  /\ boundary' = IF sprintOpen THEN [phase |-> "close", todo |-> backlog, chosen |-> {}]
                              ELSE [phase |-> "plan", todo |-> {}, chosen |-> {}]
  /\ UNCHANGED <<boardVars, pokerVars, acceptVars, customerVars, elevation, sprint,
                 sprintOpen, backlog, credits>>

(* A story of the closing sprint counts if it is done; otherwise it returns   *)
(* to sprint 0, for the next planning.                                        *)
CloseStory(s) ==
  /\ boundary.phase = "close"
  /\ s \in boundary.todo
  /\ \/ /\ state[s] = "done"
        /\ boundary' = [boundary EXCEPT !.todo = @ \ {s}, !.chosen = @ \cup {s}]
        /\ UNCHANGED sprintOf
     \/ /\ state[s] # "done"
        /\ boundary' = [boundary EXCEPT !.todo = @ \ {s}]
        /\ sprintOf' = [sprintOf EXCEPT ![s] = 0]
  /\ UNCHANGED <<state, assignee, attempts, committed, activation, pokerVars, acceptVars,
                 customerVars, elevation, sprint, sprintOpen, backlog, credits>>

CloseSprint ==
  /\ boundary.phase = "close"
  /\ boundary.todo = {}
  /\ credits' = [s \in Stories |-> IF s \in boundary.chosen THEN credits[s] + 1 ELSE credits[s]]
  /\ sprintOpen' = FALSE
  /\ boundary' = [phase |-> "plan", todo |-> {}, chosen |-> {}]
  /\ UNCHANGED <<boardVars, pokerVars, acceptVars, customerVars, elevation, sprint, backlog>>

(* Mutant of PlanSprint: stories of earlier sprints are planned again. *)
PlanSprintAgain ==
  LET candidates == {s \in Stories : state[s] = "ready"} IN
  /\ boundary.phase = "plan"
  /\ \E picked \in SUBSET candidates :
       /\ \/ Cardinality(picked) = VelocityTarget
          \/ Cardinality(picked) < VelocityTarget /\ picked = candidates
       /\ boundary' = [phase |-> "open", todo |-> picked, chosen |-> picked]
  /\ UNCHANGED <<boardVars, pokerVars, acceptVars, customerVars, elevation, sprintVars>>

(* Up to VelocityTarget ready stories of sprint 0, the choice being by        *)
(* priority.                                                                  *)
PlanSprint ==
  LET candidates == {s \in Stories : state[s] = "ready" /\ sprintOf[s] = 0} IN
  /\ boundary.phase = "plan"
  /\ \E picked \in SUBSET candidates :
       /\ \/ Cardinality(picked) = VelocityTarget
          \/ Cardinality(picked) < VelocityTarget /\ picked = candidates
       /\ boundary' = [phase |-> "open", todo |-> picked, chosen |-> picked]
  /\ UNCHANGED <<boardVars, pokerVars, acceptVars, customerVars, elevation, sprintVars>>

(* Mutant of CommitToSprint: the number of the sprint that is ending. *)
CommitToOldSprint(s) ==
  /\ boundary.phase = "open"
  /\ s \in boundary.todo
  /\ sprintOf' = [sprintOf EXCEPT ![s] = sprint]
  /\ boundary' = [boundary EXCEPT !.todo = @ \ {s}]
  /\ UNCHANGED <<state, assignee, attempts, committed, activation, pokerVars, acceptVars,
                 customerVars, elevation, sprint, sprintOpen, backlog, credits>>

CommitToSprint(s) ==
  /\ boundary.phase = "open"
  /\ s \in boundary.todo
  /\ sprintOf' = [sprintOf EXCEPT ![s] = sprint + 1]
  /\ boundary' = [boundary EXCEPT !.todo = @ \ {s}]
  /\ UNCHANGED <<state, assignee, attempts, committed, activation, pokerVars, acceptVars,
                 customerVars, elevation, sprint, sprintOpen, backlog, credits>>

(* The sprint file and current_sprint.txt.  A crash between the two is as one *)
(* before both: the next open_sprint overwrites the file.                     *)
OpenSprint ==
  /\ boundary.phase = "open"
  /\ boundary.todo = {}
  /\ sprint' = sprint + 1
  /\ sprintOpen' = TRUE
  /\ backlog' = boundary.chosen
  /\ boundary' = NoBoundary
  /\ UNCHANGED <<boardVars, pokerVars, acceptVars, customerVars, elevation, credits>>

-----------------------------------------------------------------------------
(* Acceptance.  _accept_batch lists pending_acceptance once, then judges the  *)
(* listed stories one by one.  Its grading cap of two stories per tick only   *)
(* adds ways to accept, so it needs no state here.                            *)

AcceptStart(b) ==
  LET pending == {s \in Stories : state[s] = "pending_acceptance"} IN
  /\ "acceptance" \in Active
  /\ poWaits = None
  /\ batch[b] = EmptyBatch
  /\ pending # {}
  /\ batch' = [batch EXCEPT ![b] = [left |-> pending, sha |-> pending \cap committed]]
  /\ poWaits' = b
  /\ UNCHANGED <<boardVars, pokerVars, customerVars, elevation, boundary, sprintVars>>

(* _bounded gives up on the thread, which goes on regardless. *)
AcceptTimeout ==
  /\ poWaits # None
  /\ poWaits' = None
  /\ UNCHANGED <<boardVars, batch, pokerVars, customerVars, elevation, boundary, sprintVars>>

Judged(b, s) ==
  /\ s \in batch[b].left
  /\ batch' = [batch EXCEPT ![b] = [left |-> @.left \ {s}, sha |-> @.sha \ {s}]]
  /\ poWaits' = IF poWaits = b /\ batch[b].left = {s} THEN None ELSE poWaits
  /\ UNCHANGED <<pokerVars, customerVars, elevation, boundary, sprintVars>>

(* No commit_sha in the snapshot, or an architecture story without a         *)
(* decision on record.                                                       *)
RejectOutright(b, s) ==
  /\ Judged(b, s)
  /\ s \notin batch[b].sha \/ TypeOf[s] = "architecture"
  /\ TryMove(s, "blocked")
  /\ UNCHANGED <<assignee, attempts, committed, sprintOf>>

(* Mutant of Accept: the story is written to done, wherever it is by now. *)
AcceptAnywhere(b, s) ==
  /\ Judged(b, s)
  /\ s \in batch[b].sha
  /\ state' = [state EXCEPT ![s] = "done"]
  /\ UNCHANGED <<assignee, attempts, committed, activation, sprintOf>>

Accept(b, s) ==
  /\ Judged(b, s)
  /\ s \in batch[b].sha
  /\ TryMove(s, "done")
  /\ UNCHANGED <<assignee, attempts, committed, sprintOf>>

(* Mutant of RejectCriteria: the rejection is not counted. *)
RejectCriteriaUncounted(b, s) ==
  /\ Judged(b, s)
  /\ s \in batch[b].sha \cap Criteria
  /\ committed' = committed \ {s}
  /\ IF Legal(s, "ready") THEN Move(s, "ready") ELSE TryMove(s, "blocked")
  /\ UNCHANGED <<assignee, attempts, sprintOf>>

(* Some criterion is UNMET.  Below the cap _inject_ac_feedback_and_retry      *)
(* clears the commit and returns the story to ready, or blocks it if that is  *)
(* not possible; above the cap the story is blocked.                          *)
RejectCriteria(b, s) ==
  /\ Judged(b, s)
  /\ s \in batch[b].sha \cap Criteria
  /\ attempts' = [attempts EXCEPT ![s] = NextAttempt(s)]
  /\ IF NextAttempt(s) <= MaxAcRetries
       THEN /\ committed' = committed \ {s}
            /\ IF Legal(s, "ready") THEN Move(s, "ready") ELSE TryMove(s, "blocked")
       ELSE /\ TryMove(s, "blocked")
            /\ UNCHANGED committed
  /\ UNCHANGED <<assignee, sprintOf>>

-----------------------------------------------------------------------------
(* Replan applies the decision of an LLM that saw an older board: any story   *)
(* may be named, and its state is read again when its turn comes.  New        *)
(* stories (replan's and those from PR comments) are drafted.                 *)
Draft(s) ==
  /\ "replan" \in Active
  /\ DraftStory(s)
  /\ UNCHANGED ceremonyVars

(* Mutant of Unblock: the story is up for grabs again. *)
UnblockUnassigned(s) ==
  /\ "replan" \in Active
  /\ state[s] = "blocked"
  /\ Move(s, "draft")
  /\ assignee' = [assignee EXCEPT ![s] = None]
  /\ UNCHANGED <<attempts, committed, sprintOf, ceremonyVars>>

Unblock(s) ==
  /\ "replan" \in Active
  /\ state[s] = "blocked"
  /\ Move(s, "draft")
  /\ UNCHANGED <<assignee, attempts, committed, sprintOf, ceremonyVars>>

Drop(s) ==
  /\ "replan" \in Active
  /\ state[s] \notin {"absent", "done", "blocked"}
  /\ Move(s, "blocked")
  /\ UNCHANGED <<assignee, attempts, committed, sprintOf, ceremonyVars>>

-----------------------------------------------------------------------------
(* Customer review of the stories that are done. *)

CustomerPick ==
  LET eligible == {s \in Stories : state[s] = "done" /\ rejects[s] < CustomerMaxRejects} IN
  /\ "customer" \in Active
  /\ reviewing = {}
  /\ eligible # {}
  /\ reviewing' = eligible
  /\ UNCHANGED <<boardVars, rejects, pokerVars, acceptVars, elevation, boundary, sprintVars>>

(* A reject verdict: blocked, and a comment that counts the reject; nothing   *)
(* if the transition is refused.                                              *)
CustomerReject(s) ==
  /\ s \in reviewing
  /\ reviewing' = reviewing \ {s}
  /\ TryMove(s, "blocked")
  /\ rejects' = IF Legal(s, "blocked") THEN [rejects EXCEPT ![s] = @ + 1] ELSE rejects
  /\ UNCHANGED <<assignee, attempts, committed, sprintOf, pokerVars, acceptVars, elevation,
                 boundary, sprintVars>>

(* Every other verdict (and a story without one) leaves the board alone. *)
CustomerDone ==
  /\ reviewing # {}
  /\ reviewing' = {}
  /\ UNCHANGED <<boardVars, rejects, pokerVars, acceptVars, elevation, boundary, sprintVars>>

-----------------------------------------------------------------------------
CeremoniesNext ==
  \/ PokerStart
  \/ \E e \in pokerList : PokerPick(e)
  \/ PokerConverge
  \/ PokerFails
  \/ ElevationStart
  \/ \E s \in Stories : ReclaimCount(s) \/ Reclaim(s)
  \/ BoundaryStart \/ CloseSprint \/ PlanSprint \/ OpenSprint
  \/ \E s \in boundary.todo : CloseStory(s) \/ CommitToSprint(s)
  \/ \E b \in Batches : AcceptStart(b)
  \/ AcceptTimeout
  \/ \E b \in Batches : \E s \in batch[b].left :
       RejectOutright(b, s) \/ Accept(b, s) \/ RejectCriteria(b, s)
  \/ \E s \in Stories : Draft(s) \/ Unblock(s) \/ Drop(s)
  \/ CustomerPick
  \/ \E s \in reviewing : CustomerReject(s)
  \/ CustomerDone
=============================================================================
