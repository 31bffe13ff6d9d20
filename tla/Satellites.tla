------------------------------- MODULE Satellites -------------------------------
(*****************************************************************************)
(* What stands beside the running team: the waterfall campaign, the ingestion *)
(* of reviewers' comments, and the files of the board below the granularity   *)
(* at which the team's modules take them.  A behaviour is one of them: they   *)
(* share no variable, a waterfall campaign has no product owner that reads    *)
(* comments, and BoardFiles is about the calls themselves, whoever makes them *)
(* (one initial board will do where none is called).                         *)
(*****************************************************************************)
EXTENDS Waterfall, PrFeedback, BoardFiles

VARIABLE program

vars == <<waterVars, feedbackVars, fileVars, program>>

Init ==
  /\ WaterfallInit /\ FeedbackInit /\ BoardFilesInit
  /\ program \in {"waterfall", "feedback", "board"}
  /\ program # "board" => index = [i \in Ids |-> "absent"]

Next ==
  \/ program = "waterfall" /\ WaterfallNext /\ UNCHANGED <<feedbackVars, fileVars, program>>
  \/ program = "feedback" /\ FeedbackNext /\ UNCHANGED <<waterVars, fileVars, program>>
  \/ program = "board" /\ BoardFilesNext /\ UNCHANGED <<waterVars, feedbackVars, program>>

Spec == Init /\ [][Next]_vars

(* The variables have their types. *)
TypeOK ==
  /\ WaterfallTypeOK /\ FeedbackTypeOK /\ BoardFilesTypeOK
  /\ program \in {"waterfall", "feedback", "board"}
=============================================================================
