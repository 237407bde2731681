SPECIFICATION DumperFairSpec
CONSTANTS
  can0 = can0
  vcan = vcan
  jeep = jeep
  id = id
  id2 = id2
  x = x
  y = y
  empty = empty
  speed = speed
  None = None
  Empty = empty
  Every = Every
  Interfaces = {can0, vcan}
  Ports = {can0}
  CanIds = {id}
  Payloads = {x, empty}
  Protocols = {jeep}
  Registrations <- OneProtocol
  Keys = {speed}
  KeyOf <- MCKeyOf
  TagLimit = 2
  MaxEtag = 2
  Modes = {"both"}
  Commands = {"sniff"}
INVARIANTS TypeOK EtagsDistinct RefnumsResolve ValuesFollowFrames
PROPERTIES FramesCatchUp ValuesCatchUp
