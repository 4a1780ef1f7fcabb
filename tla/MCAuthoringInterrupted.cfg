\* A start that gets a KeyboardInterrupt.
SPECIFICATION Spec
CONSTANTS
  Appliers = {reviewed}
  Starters = {starter, rival}
  Edits = {edit}
  Paths = {intent, index, interface, relation, source}
  Base = Base
  Nobody = Nobody
  Intent = intent
  Original <- MCOriginal
  Inputs <- MCInputsOne
  Updates <- MCUpdatesOne
  Reviewed <- MCReviewedOne
  Source <- MCSource
  Interruptible = {starter}
  reviewed = reviewed
  other = other
  starter = starter
  rival = rival
  edit = edit
  intent = intent
  index = index
  interface = interface
  relation = relation
  source = source
CHECK_DEADLOCK FALSE
INVARIANTS
  InterruptedStartUndone
