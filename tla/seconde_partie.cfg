\* The smallest limits: the process must only live long enough for two games.
SPECIFICATION SpecProgramme
CONSTANTS
  MAX_PLAYER = 2
  MAX_BOARD_SIZE = 11
  MAX_BOAT_SIZE = 5
  TIMEOUT_MAX = 15
  MAX_FD = 4
PROPERTIES EntreeOuvreSalle
