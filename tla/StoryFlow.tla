-------------------------------- MODULE StoryFlow --------------------------------
(*****************************************************************************)
(* The way of a story over the board, without the agents, the merge queue    *)
(* and the ceremonies that move it.  ScrumTeam implements this module, and   *)
(* Campaign, which follows a backlog through many starts and stops, moves    *)
(* its stories by the steps below.                                           *)
(*                                                                           *)
(* It promises less than the transition table of board_store.py offers:      *)
(* work begins only by a claim from ready, with everything the story depends *)
(* on done; done is only reached from review or from acceptance; and a done  *)
(* or a blocked story does not move by itself.                               *)
(*****************************************************************************)
CONSTANT Stories

VARIABLES
  column,   \* story -> its column, or "absent" before it is drafted
  deps      \* story -> depends_on

vars == <<column, deps>>

Columns == {"absent", "draft", "refinement", "ready", "in_progress", "review",
            "pending_acceptance", "done", "blocked"}

Init ==
  /\ column \in [Stories -> {"absent", "draft"}]
  /\ deps \in [Stories -> SUBSET Stories]

MoveTo(s, from, to) ==
  /\ column[s] \in from
  /\ column' = [column EXCEPT ![s] = to]
  /\ UNCHANGED deps

Draft(s) == MoveTo(s, {"absent"}, "draft")
Refine(s) == MoveTo(s, {"draft"}, "refinement")
Vote(s) == MoveTo(s, {"refinement"}, "ready")

Claim(s) ==
  /\ \A d \in deps[s] : column[d] = "done"
  /\ MoveTo(s, {"ready"}, "in_progress")

(* The commit may come when another run's has already been merged. *)
Commit(s) == MoveTo(s, {"in_progress", "pending_acceptance"}, "review")
Merge(s) == MoveTo(s, {"review"}, "pending_acceptance")

(* The verdict may come when a later commit is already in review. *)
Accept(s) == MoveTo(s, {"review", "pending_acceptance"}, "done")

Block(s) == MoveTo(s, Columns \ {"absent", "blocked"}, "blocked")

(* Another attempt: no commit, elevation, the collection gate or a rejection. *)
Retry(s) == MoveTo(s, {"in_progress", "pending_acceptance"}, "ready")

(* Replan returns a blocked story to draft.  What was dropped under an agent, *)
(* a vote or a merge goes on where that leaves it.                           *)
Resume(s) ==
  \E to \in {"draft", "refinement", "ready", "review", "pending_acceptance"} :
    MoveTo(s, {"blocked"}, to)

Next ==
  \E s \in Stories :
    \/ Draft(s) \/ Refine(s) \/ Vote(s) \/ Claim(s) \/ Commit(s) \/ Merge(s)
    \/ Accept(s) \/ Block(s) \/ Retry(s) \/ Resume(s)

Spec == Init /\ [][Next]_vars
=============================================================================
