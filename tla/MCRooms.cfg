SPECIFICATION Spec

CONSTANTS
  main = main  side = side  direct = direct
  su = su  ann = ann  bo = bo  planner = planner  helper = helper
  GroupRooms = {main, side}
  DirectRooms = {direct}
  Humans = {su}
  Agents = {planner, helper}
  Owner = su
  Seeds = {planner}
  Human <- TheHuman
  Agent <- TheAgent
  Policy <- ThePolicy
  FirstRoom = main
  Clients = {c1, c2}
  Messages = {m1, m2}
  Keys = {k1}
  Contents = {"a", "b"}
  Senders = {su}
  Lists = {"hide", "show"}
  Posts <- TheMentions
  MaxRevision = 2
  MaxRequests = 4
  MaxBoots = 2
  NoMessage = NoMessage
  NoKey = NoKey
  Idle = Idle
  Shown = Shown

SYMMETRY RoomsSymmetry

INVARIANTS
  SomeRoomActive
  AnswersStand
  HistoryTellsMessage

CHECK_DEADLOCK FALSE
