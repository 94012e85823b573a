CONSTANTS
  None = None
  Conn = {k1}
  Adopt = {}
  Reply = {}
  Gor = {g1}
SPECIFICATION FairSpec
PROPERTIES EndsExits PostedTaken
CHECK_DEADLOCK FALSE
