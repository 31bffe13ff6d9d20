---------------------------------- MODULE Board ----------------------------------
(*****************************************************************************)
(* The story board of an orgos team (agile/board_store.py), seen at the      *)
(* granularity of one BoardStore call: a read-modify-write of a story is one *)
(* step.  Module BoardFiles has the reads and writes below that.             *)
(*                                                                           *)
(* The agents, the merge worker and the ceremonies are separate modules that *)
(* extend this one and act on the board through the operators below.         *)
(*****************************************************************************)
EXTENDS BoardColumns, Integers, FiniteSets

CONSTANTS
  Stories,        \* issue ids
  Actors,         \* delivery agents, one per (role, instance)
  None,           \* "no assignee", "no story"
  TypeOf,         \* story -> type
  RoleOf,         \* actor -> delivery role
  ComponentOf,    \* story -> component (its ownership lock)
  FilesOf,        \* story -> files_to_touch
  DependsOn,      \* story -> depends_on
  AttemptCap      \* Story.attempts is counted up to this value and no further

StoryTypes == {"architecture", "test", "security", "feature", "docs"}

Roles == {"architect", "test", "devsecops"}

ASSUME BoardAssumption ==
  /\ None \notin Actors
  /\ None \notin Stories
  /\ TypeOf \in [Stories -> StoryTypes]
  /\ RoleOf \in [Actors -> Roles]
  /\ DependsOn \in [Stories -> SUBSET Stories]
  /\ AttemptCap \in Nat \ {0}

VARIABLES
  state,       \* story -> its column, or "absent" before draft_story
  assignee,    \* story -> the actor that claimed it, or None
  attempts,    \* story -> Story.attempts
  committed,   \* the stories whose commit_sha is set
  activation,  \* story -> when activated_at was stamped
  sprintOf     \* story -> Story.sprint_number, 0 = in no sprint

boardVars == <<state, assignee, attempts, committed, activation, sprintOf>>

-----------------------------------------------------------------------------
(* activated_at is stamped on the first entry to in_progress and never reset. *)
(* Elapsed time is abstracted to what elevation can tell apart: the stamp     *)
(* belongs to the stint that is running now ("current"; the executor timeout  *)
(* of 300 s keeps it younger than the 900 s threshold), or to an earlier one. *)
Activations == {"never", "current", "earlier"}

Legal(s, to) == to \in Transitions[state[s]]

(* BoardStore.transition on a legal edge. *)
Move(s, to) ==
  /\ Legal(s, to)
  /\ state' = [state EXCEPT ![s] = to]
  /\ activation' = [activation EXCEPT ![s] =
       IF to = "in_progress" /\ @ = "never" THEN "current"
       ELSE IF state[s] = "in_progress" /\ @ = "current" THEN "earlier"
       ELSE @]

(* A call of transition whose InvalidTransition the caller swallows. *)
TryMove(s, to) ==
  \/ Move(s, to)
  \/ ~Legal(s, to) /\ UNCHANGED <<state, activation>>

(* increment_attempts.  The counter is only compared with the retry limits,  *)
(* so counting stops at AttemptCap, above both of them.                      *)
NextAttempt(s) == IF attempts[s] < AttemptCap THEN attempts[s] + 1 ELSE AttemptCap

-----------------------------------------------------------------------------
(* Claiming: the filters of list_ready_for_sprint and try_claim_next_for.    *)

PrimaryTypes ==
  [ architect |-> {"architecture", "feature"},
    test      |-> {"test"},
    devsecops |-> {"security"} ]

InFlight == {"in_progress", "review", "pending_acceptance"}

ComponentsInFlight == {ComponentOf[t] : t \in {u \in Stories : state[u] \in InFlight}}

LockedFiles ==
  UNION {FilesOf[t] : t \in {u \in Stories : state[u] \in {"in_progress", "review"}}}

(* Mutants of Candidates: claiming does not look at the assignee; it does not  *)
(* look at the components in flight; a merged dependency counts as done.      *)
CandidatesOfAnyone(a, sn) ==
  {s \in Stories :
     /\ state[s] = "ready"
     /\ TypeOf[s] \in PrimaryTypes[RoleOf[a]]
     /\ \A d \in DependsOn[s] : state[d] = "done"
     /\ sn > 0 => sprintOf[s] = sn
     /\ ComponentOf[s] \notin ComponentsInFlight
     /\ FilesOf[s] \cap LockedFiles = {}}

CandidatesOfAnyComponent(a, sn) ==
  {s \in Stories :
     /\ state[s] = "ready"
     /\ TypeOf[s] \in PrimaryTypes[RoleOf[a]]
     /\ \A d \in DependsOn[s] : state[d] = "done"
     /\ sn > 0 => sprintOf[s] = sn
     /\ FilesOf[s] \cap LockedFiles = {}
     /\ assignee[s] \in {None, a}}

CandidatesAfterMerge(a, sn) ==
  {s \in Stories :
     /\ state[s] = "ready"
     /\ TypeOf[s] \in PrimaryTypes[RoleOf[a]]
     /\ \A d \in DependsOn[s] : state[d] \in {"pending_acceptance", "done"}
     /\ sn > 0 => sprintOf[s] = sn
     /\ ComponentOf[s] \notin ComponentsInFlight
     /\ FilesOf[s] \cap LockedFiles = {}
     /\ assignee[s] \in {None, a}}

(* The stories actor a may claim while sprint sn is current.  Which of them   *)
(* is on top depends on priorities, which are not modelled.                   *)
Candidates(a, sn) ==
  {s \in Stories :
     /\ state[s] = "ready"
     /\ TypeOf[s] \in PrimaryTypes[RoleOf[a]]
     /\ \A d \in DependsOn[s] : state[d] = "done"
     /\ sn > 0 => sprintOf[s] = sn
     /\ ComponentOf[s] \notin ComponentsInFlight
     /\ FilesOf[s] \cap LockedFiles = {}
     /\ assignee[s] \in {None, a}}

(* assign, then transition to in_progress. *)
ClaimStory(a, s, sn) ==
  /\ s \in Candidates(a, sn)
  /\ assignee' = [assignee EXCEPT ![s] = a]
  /\ Move(s, "in_progress")
  /\ UNCHANGED <<attempts, committed, sprintOf>>

(* draft_story: the id is new. *)
DraftStory(s) ==
  /\ state[s] = "absent"
  /\ state' = [state EXCEPT ![s] = "draft"]
  /\ UNCHANGED <<assignee, attempts, committed, activation, sprintOf>>

-----------------------------------------------------------------------------
(* A board whose backlog (any subset of the ids) has just been decomposed.   *)
BoardInit ==
  /\ state \in [Stories -> {"absent", "draft"}]
  /\ assignee = [s \in Stories |-> None]
  /\ attempts = [s \in Stories |-> 0]
  /\ committed = {}
  /\ activation = [s \in Stories |-> "never"]
  /\ sprintOf = [s \in Stories |-> 0]

BoardTypeOK ==
  /\ state \in [Stories -> States]
  /\ assignee \in [Stories -> Actors \cup {None}]
  /\ attempts \in [Stories -> 0 .. AttemptCap]
  /\ committed \in SUBSET Stories
  /\ activation \in [Stories -> Activations]
  /\ sprintOf \in [Stories -> Nat]
=============================================================================
