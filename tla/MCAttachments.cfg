SPECIFICATION Spec

CONSTANTS
  k1 = k1  k2 = k2  out = out  r1 = r1  planner = planner
  Person = Person
  Runs = {r1}
  AgentOf <- TheAgent
  Items = {i1}
  Keys = {k1, k2, out}
  Source <- TheSource
  Files = {"a"}
  Refused = {"x"}
  TooBig = {}
  Puts = {p1, p2}
  Messages = {m1, m2}
  MaxRows = 1
  MaxTroubles = 3
  None = None

SYMMETRY AttachmentsSymmetry

INVARIANTS
  LinksStand
  
  ReadersAgree

CHECK_DEADLOCK FALSE
