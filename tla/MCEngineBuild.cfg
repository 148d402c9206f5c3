\* Two releases, so that an engine of one meets a crate of the other, and two
\* builds of the host, so that the second may reuse the first.
SPECIFICATION Spec
CONSTANTS
  Null = Null
  Contracts <- MCContracts
  FirstContract <- MCFirstContract
  Dirs = {"dir1", "dir2"}
  Envs <- MCEnvs
  MaxVersion = 2
  MaxReleases = 2
  MaxBuilds = 2
CONSTRAINT
  Guarded
ACTION_CONSTRAINT
  HostComesLast
INVARIANTS
  
  NothingStaleLinked
\* A running host does nothing more here.
CHECK_DEADLOCK FALSE
