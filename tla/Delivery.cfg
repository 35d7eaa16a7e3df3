CONSTANTS
  ViewingIds = {v1}
  Workers = {w1, w2}
  None = None
  BatchSize = 2
  WindowSize = 2
  MaxNotes = 3
  MaxCrashes = 1
SPECIFICATION Spec
INVARIANTS
  TypeOK
  NoneShownTwice
PROPERTIES
  RemindersAreDue
  NotesAreRelayed
  ViewingsAreReminded
