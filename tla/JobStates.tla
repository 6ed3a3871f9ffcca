----------------------------- MODULE JobStates -----------------------------
(***************************************************************************)
(* The durable job states, the terminal ones and the transition table      *)
(* (domain.py, jobs/state_machine.py).  ABSENT stands for "no job row";    *)
(* it is not a JobState of the program.                                    *)
(***************************************************************************)

ABSENT == "ABSENT"

\* Value of a nullable column that is NULL.
NONE == "NONE"

JobState ==
    {"RECEIVED", "FETCHING", "REVIEWING", "VALIDATING", "READY_TO_PUBLISH",
     "PUBLISHING", "RETRY_WAIT", "FAILED_TRANSIENT", "FAILED_PERMANENT",
     "SUPERSEDED", "SKIPPED_SCOPE", "DONE"}

TerminalJobStates ==
    {"FAILED_PERMANENT", "SUPERSEDED", "SKIPPED_SCOPE", "DONE"}

\* States a RETRY_WAIT job may resume in.
RetryTargets ==
    {"FETCHING", "REVIEWING", "VALIDATING", "READY_TO_PUBLISH", "PUBLISHING"}

\* What every state that is still being worked on may always turn into.
Exits == {"RETRY_WAIT", "FAILED_TRANSIENT", "FAILED_PERMANENT", "SUPERSEDED"}

AllowedTransitions(current) ==
    CASE current = "RECEIVED"         -> {"FETCHING"} \cup Exits
      [] current = "FETCHING"         -> {"REVIEWING"} \cup Exits
      [] current = "REVIEWING"        -> {"VALIDATING"} \cup Exits
      [] current = "VALIDATING"       -> {"READY_TO_PUBLISH"} \cup Exits
      [] current = "READY_TO_PUBLISH" -> {"PUBLISHING"} \cup Exits
      [] current = "PUBLISHING"       -> {"DONE", "READY_TO_PUBLISH"} \cup Exits
      [] current = "RETRY_WAIT"       ->
            RetryTargets \cup {"FAILED_PERMANENT", "SUPERSEDED"}
      [] current = "FAILED_TRANSIENT" ->
            RetryTargets \cup {"RETRY_WAIT", "FAILED_PERMANENT", "SUPERSEDED"}
      [] OTHER                        -> {}

CanTransition(current, target) ==
    current = target \/ target \in AllowedTransitions(current)

\* States _process_claimed hands to _process_publish.
PublishStates == {"READY_TO_PUBLISH", "PUBLISHING"}

PublicationStatus == {"PENDING", "POSTED", "FAILED", "AMBIGUOUS"}

=============================================================================
