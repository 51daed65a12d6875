\* Two programs beside the main interface, two sessions open at once.
SPECIFICATION FairSpec
CONSTANTS
  a1 = a1
  a2 = a2
  r1 = r1
  Apps = {a1, a2}
  Resources = {r1}
  MainInterface = MainInterface
  NoProgram = NoProgram
  MaxHandlers = 4
  MaxDacs = 2
INVARIANTS TypeOK SessionOwnsReturn ControlInvariant
PROPERTIES PrgExitEndsProgram CleanStart ImplementsLifecycle
