--------------------------- MODULE MCSessionView ---------------------------
(* Instances of SessionView for TLC: three resizes, two resizes with a     *)
(* change, failures among them; three copies with two changes or a failure; *)
(* and a resize under a selection.                                          *)
EXTENDS SessionView

MCScenarios == {Scenario(0, 3, 1, 0), Scenario(1, 2, 1, 0),
                Scenario(2, 0, 0, 3), Scenario(1, 0, 1, 3), Scenario(1, 1, 0, 1)}
MCCatchup   == {Scenario(4, 0, 0, 0)}
=============================================================================
