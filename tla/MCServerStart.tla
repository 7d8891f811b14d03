---------------------------- MODULE MCServerStart ----------------------------
(* Small instances of ServerStart for TLC. *)
EXTENDS ServerStart

\* Recommendations off, on, and on with an expression cron does not accept.
MCConfigs ==
  { [llm |-> FALSE, cron |-> "weekly", queue |-> 2],
    [llm |-> TRUE,  cron |-> "weekly", queue |-> 3],
    [llm |-> TRUE,  cron |-> "never",  queue |-> 2] }
=============================================================================
