\* Every build of config.mk's modules in every order, and descriptors for two
\* clients.
CONSTANTS
  Modules <- AllModules
  Login = "login"
  Game = "game"
  Type <- Types
  Set <- Sets
  Protocol <- Protocols
  MaxFd = 6
SPECIFICATION Spec
INVARIANTS
  PartsInUseRegistered
  WholeListenersOnly
  DescriptorsOwned
  CrashesExplained
  RegistriesEmptied
PROPERTIES
  ShutdownCompletes
