CONSTANTS
  NumPages = 8
  KernelPages = 1
  PagesPerGiB = 4
  EntryMod = 2
  MaxSize = 3
  Starts <- MCStarts
  Sizes <- MCSizes
SPECIFICATION Spec
INVARIANTS TypeOK PagesOwnedOnce Contiguous SectionsApart NoAlias
