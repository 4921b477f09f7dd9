\* A PYPI_MIRRORS entry the pypi regex does not match ends the mirror list early.
CONSTANTS
  sf0 = sf0  sfm1 = sfm1  sfm2 = sfm2  sfm3 = sfm3  py0 = py0  pym1 = pym1  other = other  plain = plain
  Hosts = {sf0, sfm1, sfm2, sfm3, py0, pym1, other, plain}
  StartHosts = {py0}
  Match <- MCMatch
  Env <- MCEnvPlain
  NoEnv = NoEnv
  NoHost = NoHost
  FileScheme = FALSE
SPECIFICATION Spec
INVARIANT GivesUpOnlyWhenExhausted
