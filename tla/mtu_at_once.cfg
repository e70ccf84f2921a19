\* setMTU() on an interface that was up: receive() asks for the new MTU before
\* up() has resized the buffer.
SPECIFICATION IOSpec
CONSTANTS
  m1 = m1
  a1 = a1
  a2 = a2
  n1 = n1
  b1 = b1
  x1 = x1
  x2 = x2
  x3 = x3
  LowerCase = LowerCase
  Short = Short
  Printed <- Spelling
  Unset = Unset
  Derived = Derived
  IfIndex = 7
  Macs = {}
  Addrs = {}
  Masks = {}
  Brds = {}
  V6s = {}
  Mtus = {2000}
  KernelMtus = {1500}
  IoErrors = FALSE
  Lengths = {14, 1514}
  MaxQueue = 1
INVARIANTS ReadInBounds
