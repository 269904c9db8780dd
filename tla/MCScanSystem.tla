---------------------------- MODULE MCScanSystem ----------------------------
(***************************************************************************)
(* Small instances of ScanSystem for TLC: the phases of a run's plan.      *)
(***************************************************************************)
EXTENDS ScanProperties, TLC

\* Ids and requests are interchangeable where no constant singles one out.
MCSymmetry == Permutations(Jobs) \cup Permutations(Tasks)

\* All five phases.
MCFullPlan == FullPlan

\* One phase of each kind: a command with a follow-up, whose failure ends
\* the scan; one the level may leave out; no command at all.
MCShortPlan == <<"host_discovery", "vuln_scan", "analysis">>

\* A command with a follow-up, then no command.
MCTinyPlan == <<"host_discovery", "analysis">>

\* Only the phases with follow-ups.
MCFollowUps == <<"host_discovery", "ssl_analysis">>

\* A single phase that stores nothing.
MCAnalysis == <<"analysis">>
=============================================================================
