SPECIFICATION Spec
CONSTANTS
  can0 = can0
  can1 = can1
  id7E8 = id7E8
  vin = vin
  name = name
  None = None
  Ecus = {can0, can1}
  CanIds = {id7E8}
  IdOf <- SameId
  Messages = {vin, name}
  Length <- MCLength
  RollingLimit = 2
INVARIANTS TypeOK CleanIsWhole
PROPERTIES IntactIsAnswered
