SPECIFICATION FairSpec
CONSTANTS
  h1 = h1
  h2 = h2
  e1 = e1
  e2 = e2
  e3 = e3
  Nil = Nil
  Heads <- MCHeads
  Entries <- MCEntries
INVARIANTS
  TypeOK
  RingsIntact
  TraversalsAgree
PROPERTIES
  ListsAsNamed
  FreeListTerminates
