SPECIFICATION Spec
CONSTANTS
  t1 = t1
  t2 = t2
  t3 = t3
  NoThread = NoThread
  Layer = {"files", "contents", "flash"}
  FileDuties = {"sole", "alone", "unopened", "once"}
  ContentDuties = {"inner", "room", "scanned"}
  FlashDuties = {"apart", "settled", "calm"}
INVARIANTS PointersAlive NothingLeaks OpenFileExists KeepsContents StoredOnSuccess StaysInRange
SYMMETRY Symmetry
