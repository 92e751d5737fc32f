---------------------------- MODULE MCDriftWatch ----------------------------
(* Two subscribers of the pilot project and one of another, and a golden set *)
(* of two examples, or one whose ratings are all high.                    *)
EXTENDS DriftProperties

All == {"judge.calibration.drift", "run.reproducibility.drift", "platform.rollback.requested"}
MCSubs ==
  {[name |-> "ops", project |-> "pilot", events |-> All],
   [name |-> "judges", project |-> "pilot", events |-> {"judge.calibration.drift"}],
   [name |-> "other", project |-> "other", events |-> All]}
MCGolden == <<10, 90>>
HighGolden == <<90, 90>>
=============================================================================
