SPECIFICATION Spec
CONSTANTS
  Commands = {p1, p2}
  Brokers = {b1, b2}
  Destinations = {d1, d2}
  Requests = {q1}
  p1 = p1
  p2 = p2
  b1 = b1
  b2 = b2
  d1 = d1
  d2 = d2
  MaxKey = 3
  FirstID = None
  None = None
SYMMETRY Symmetry
PROPERTIES
  PutKeepsCapabilities
