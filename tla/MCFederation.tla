---------------------------- MODULE MCFederation ----------------------------
(* Instances of Federation for TLC: the desktop's loop, and one CLI command *)
(* that synchronises at any time.                                           *)
EXTENDS Federation

CONSTANTS loop, cli

MCSyncs   == {loop, cli}
MCReports == {"mail", "succeeded"}

\* Both synchronise; or the loop alone with one round that breaks off; or the
\* loop alone while others write the Task.
MCScenarios == {Scenario({loop, cli}, 2, 2, 0, 0, 0), Scenario({loop, cli}, 2, 1, 2, 0, 0),
                Scenario({loop}, 1, 2, 2, 1, 0), Scenario({loop}, 2, 2, 0, 0, 2)}
MCStuck == {Scenario({loop, cli}, 2, 2, 1, 0, 0)}
MCLost  == {Scenario({loop}, 2, 1, 0, 0, 0)}
=============================================================================
