\* Three nodes on one or two hosts of two vCenters, or on none: nodes share a
\* host, share only its reference value, or have no host.  Two are masters.
CONSTANTS
  Node = {n1, n2, n3}
  Master = {n1, n2}
  VCenter = {vc1, vc2}
  HostRef = {h1, h2}
  NoHost = NoHost
  HwVersion = {hwA, hwB}
  EsxiVersion = {esxiA, esxiB}
SPECIFICATION Spec
SYMMETRY MCSymmetry
INVARIANTS
  HostLoadedOnce
  EmptyVersionReported
  CountsExact
  HostsCounted
  PerfMapGuarded
