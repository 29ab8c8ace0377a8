------------------------------ MODULE MCPanel -------------------------------
(* Panel instantiated for TLC: every kind of trouble alone, and pairs.     *)
EXTENDS Panel

MCRegimes ==
  {{}} \cup {{kind} : kind \in Trouble}
       \cup {{"operations", "restarts"}, {"calls", "restarts"},
            {"answers", "operations"}, {"answers", "calls"}}

=============================================================================
