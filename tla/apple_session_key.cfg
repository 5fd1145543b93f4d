SPECIFICATION Spec
CONSTANTS
  Hosts <- MCHosts
  Stores <- MCStores
  LibraryOps <- MCLibraryOps
INVARIANTS
  KeyCompletesLogin
