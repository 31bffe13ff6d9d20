------------------------------ MODULE StoryOwnership -----------------------------
(*****************************************************************************)
(* What story claiming promises, without the board: a story belongs to the   *)
(* first agent that takes it, for good, and only its holder may work on it.  *)
(* ScrumTeam implements this module with the assignee field of a story as    *)
(* its holder.  The code has unassign (board_store.py), but nothing calls it *)
(* on a story that was ever claimed, so there is no step that gives a story  *)
(* up.                                                                       *)
(*****************************************************************************)
CONSTANTS Stories, Actors, None

VARIABLES
  holder,   \* story -> the actor it belongs to, or None
  busy      \* actor -> the story it works on, or None

vars == <<holder, busy>>

Init ==
  /\ holder = [s \in Stories |-> None]
  /\ busy = [a \in Actors |-> None]

Take(a, s) ==
  /\ busy[a] = None
  /\ holder[s] \in {None, a}
  /\ holder' = [holder EXCEPT ![s] = a]
  /\ busy' = [busy EXCEPT ![a] = s]

Release(a) ==
  /\ busy[a] # None
  /\ busy' = [busy EXCEPT ![a] = None]
  /\ UNCHANGED holder

(* The process stops: everybody lets go, and the stories keep their holders.  *)
ReleaseAll ==
  /\ busy' = [a \in Actors |-> None]
  /\ UNCHANGED holder

Next ==
  \/ \E a \in Actors, s \in Stories : Take(a, s)
  \/ \E a \in Actors : Release(a)
  \/ ReleaseAll

Spec == Init /\ [][Next]_vars
=============================================================================
