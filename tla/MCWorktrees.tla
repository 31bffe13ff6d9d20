------------------------------- MODULE MCWorktrees -------------------------------
(* Two agents of one role, architect and architect#1, and three stories that *)
(* share no component and no file.                                           *)
EXTENDS Worktrees

CONSTANTS a1, a2

MCTypeOf == [s \in Stories |-> "feature"]
MCRoleOf == [a \in Actors |-> "architect"]
MCOwnComponents == [s \in Stories |-> s]
MCFiles == [s \in Stories |-> {}]
MCNoDependencies == [s \in Stories |-> {}]

(* Agents of one role are interchangeable, and so are these stories. *)
WorktreesSymmetry == Permutations(Actors) \cup Permutations(Stories)
=============================================================================
