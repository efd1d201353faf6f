\* Three messages with texts of one to three bytes; the longest just fits, and
\* two of them need not.
SPECIFICATION Spec
CONSTANTS
  Messages <- Trois
  Texte <- Textes
  MAX_BUFFER = 4
  Souvenirs <- Tout
  Rien = "rien"
  Melange = "melange"
INVARIANTS TypeOK
PROPERTIES Raffine
