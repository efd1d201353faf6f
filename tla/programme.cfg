\* Small limits: two or three players, boards up to 14, boats up to 6.
SPECIFICATION SpecProgramme
CONSTANTS
  MAX_PLAYER = 3
  MAX_BOARD_SIZE = 14
  MAX_BOAT_SIZE = 6
  TIMEOUT_MAX = 16
  MAX_FD = 8
INVARIANTS TypeOK TypeProgramme BateauTient
