\* file: URLs (no status check); the loop ends once with an outcome, as DownloadResult says.
CONSTANTS
  sf0 = sf0  sfm1 = sfm1  sfm2 = sfm2  sfm3 = sfm3  py0 = py0  pym1 = pym1  other = other  plain = plain
  Hosts = {sf0, sfm1, sfm2, sfm3, py0, pym1, other, plain}
  StartHosts = {sf0, sfm2, py0, other}
  Match <- MCMatch
  Env <- MCEnv
  NoEnv = NoEnv
  NoHost = NoHost
  FileScheme = TRUE
SPECIFICATION Spec
PROPERTY Refines
