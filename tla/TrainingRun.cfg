SPECIFICATION Spec
CONSTANTS
  Builders = {b1, b2}
  Constructions <- MCConstructions
  Resources <- MCResources
  Fold <- MCFold
  Spaces = {"nl"}
  Upper = {"LAMP"}
  Structural = {"condition", "hazard"}
  Required = {"condition"}
  Required2 = {"condition", "source.casing_upper", "terminology.canonical_surface"}
  Counts2 <- MCCounts2
  Disturbances = 2
  Capacity <- MCCapacity
  Room <- MCRoom
  Schedules <- MCSchedules
  Modules <- MCModules
  Reproduced = {"lamp", "LAMP", "fan", "on"}
  Limits <- MCLimits
SYMMETRY MCSymmetry
CHECK_DEADLOCK FALSE
INVARIANTS
  AcceptedIsDerived
  AcceptedIsThePinnedBuild
  VerifiedIsAccepted
  TrainedAsRecorded
  EndedRunIsUsable
