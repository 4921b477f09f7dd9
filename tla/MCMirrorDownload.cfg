\* Start hosts of both mirror classes and of none; all mirror names match their class.
CONSTANTS
  sf0 = sf0  sfm1 = sfm1  sfm2 = sfm2  sfm3 = sfm3  py0 = py0  pym1 = pym1  other = other  plain = plain
  Hosts = {sf0, sfm1, sfm2, sfm3, py0, pym1, other, plain}
  StartHosts = {sf0, sfm2, py0, other}
  Match <- MCMatch
  Env <- MCEnv
  NoEnv = NoEnv
  NoHost = NoHost
  FileScheme = FALSE
SPECIFICATION Spec
INVARIANTS TypeOK AttemptsAccounted GivesUpOnlyWhenExhausted
