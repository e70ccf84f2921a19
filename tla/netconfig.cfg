\* Two addresses and one value of the others, setMTU() at any time, any ioctl()
\* may fail; another thread receives and sends.  9999 is the largest MTU that
\* read_mtu() does not cut; 1514 and 10013 are frames of a full MTU.
SPECIFICATION IOSpec
CONSTANTS
  m1 = m1
  a1 = a1
  a2 = a2
  n1 = n1
  b1 = b1
  x1 = x1
  x2 = x2
  x3 = x3
  LowerCase = LowerCase
  Short = Short
  Printed <- Spelling
  Unset = Unset
  Derived = Derived
  IfIndex = 7
  Macs = {m1}
  Addrs = {a1, a2}
  Masks = {n1}
  Brds = {b1}
  V6s = {x1, x2, x3}
  Mtus = {13, 2000, 70000}
  KernelMtus = {9999}
  IoErrors = TRUE
  Lengths = {1514, 10013}
  MaxQueue = 1
INVARIANTS TypeOK ReadFits SendWithinMtu LosesAtMostHeader
PROPERTIES UpApplies UpIsStable
