------------------------------- MODULE BoardColumns -------------------------------
(* The state machine of agile/board_store.py, with "absent" for an id that has *)
(* no story file yet.                                                         *)

States == {"absent", "draft", "refinement", "ready", "in_progress", "review",
           "pending_acceptance", "done", "blocked"}

Transitions ==
  [ absent             |-> {},
    draft              |-> {"refinement", "blocked"},
    refinement         |-> {"ready", "draft", "blocked"},
    ready              |-> {"in_progress", "blocked"},
    in_progress        |-> {"review", "blocked", "ready"},
    review             |-> {"pending_acceptance", "done", "in_progress", "blocked"},
    pending_acceptance |-> {"done", "blocked", "review", "ready"},
    done               |-> {"blocked"},
    blocked            |-> {"draft", "refinement", "ready", "in_progress",
                            "review", "pending_acceptance"} ]
=============================================================================
