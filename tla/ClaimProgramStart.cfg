SPECIFICATION Spec
CONSTANTS
  a1 = a1
  r1 = r1
  Apps = {a1}
  Resources = {r1}
  MainInterface = MainInterface
  NoProgram = NoProgram
  MaxHandlers = 4
  MaxDacs = 1
PROPERTIES EretStartsProgram
