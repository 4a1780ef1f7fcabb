\* Two applications, two starts of one component and an edit; everyone may be interrupted.
\* Commands end.
SPECIFICATION Spec
CONSTANTS
  Appliers = {reviewed, other}
  Starters = {starter, rival}
  Edits = {edit}
  Paths = {intent, index, interface, relation, source}
  Base = Base
  Nobody = Nobody
  Intent = intent
  Original <- MCOriginal
  Inputs <- MCInputs
  Updates <- MCUpdates
  Reviewed <- MCReviewed
  Source <- MCSource
  Interruptible = {reviewed, other, starter, rival}
  reviewed = reviewed
  other = other
  starter = starter
  rival = rival
  edit = edit
  intent = intent
  index = index
  interface = interface
  relation = relation
  source = source
CHECK_DEADLOCK FALSE
INVARIANTS
  TypeOK
  PartialHasRecovery
  ReportsTruth
  StartAllOrNothing
PROPERTIES
  CooperatingUpdatesSurvive
  BuildsOnWhole
  EditsSeenSurvive
SYMMETRY StarterSymmetry
