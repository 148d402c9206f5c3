\* Two releases of tested trees; the contracts include one that differs from the
\* first in a struct's field alone.
SPECIFICATION Spec
CONSTANTS
  Null = Null
  Contracts <- MCContracts
  FirstContract <- MCFirstContract
  Dirs = {"dir1", "dir2"}
  Envs <- MCEnvs
  MaxVersion = 2
  MaxReleases = 2
  MaxBuilds = 0
CONSTRAINT
  Guarded
ACTION_CONSTRAINT
  HostComesLast
INVARIANT
  VersionMovesWithDeclarations
\* After the second release nothing is left to do.
CHECK_DEADLOCK FALSE
