\* Two workers whose permission checks run in parallel.
CONSTANTS
  Node = {n1, n2}
  Master = {}
  VCenter = {vc1, vc2}
  HostRef = {h1}
  NoHost = NoHost
  HwVersion = {hwA, hwB}
  EsxiVersion = {esxiA, esxiB}
SPECIFICATION Spec
INVARIANT NoMapRace
