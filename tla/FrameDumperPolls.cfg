SPECIFICATION DumperSpec
CONSTANTS
  can0 = can0
  vcan = vcan
  jeep = jeep
  id = id
  id2 = id2
  x = x
  y = y
  speed = speed
  None = None
  Empty = empty
  empty = empty
  Every = Every
  Interfaces = {can0}
  Ports = {can0}
  CanIds = {id, id2}
  Payloads = {x, y}
  Protocols = {jeep}
  Registrations <- OneProtocol
  Keys = {}
  KeyOf <- NoKeyOf
  TagLimit = 2
  MaxEtag = 2
  Modes = {"frames", "values"}
  Commands = {"read"}
SYMMETRY Symmetry
INVARIANTS DumperTypeOK ScreenFollowsPoll EtagsBehindCounter
PROPERTIES ScreenIsMirror
