CONSTANTS
  aisle = aisle window = window short = short work = work make = make makeFor = makeFor switch = switch middle = middle drop = drop dropSeat = dropSeat dropAnd = dropAnd dropBoth = dropBoth ask = ask once = once phone = phone aisleNote = aisleNote windowNote = windowNote shortNote = shortNote workNote = workNote middleNote = middleNote phoneNote = phoneNote
  None = None
  Ids = {1, 2, 3, 4}
  Contents = {aisle, window, short, work, make, makeFor, switch, middle, drop, dropSeat, dropAnd, dropBoth, ask, once, phone, aisleNote, windowNote, shortNote, workNote, middleNote, phoneNote}
  Meaning <- MeaningOf
  Reading <- ReadingOf
  Words <- WordsTable
  Prefixed <- PrefixedTokens
  Statements = {drop, window, short, middle, dropSeat, dropBoth, makeFor}
  Noted <- NoteOf
  Configs <- ConfigsOf
  Stores <- StoresOf
  MaxTurns = 2
  MaxMemories = 4
  MaxReceipts = 1
SPECIFICATION Spec
INVARIANTS AcceptedIsBounded EffectIsProjected CorrectionTakesEffect NeverAGuess SeamCovers
PROPERTIES RetireReceiptOnce
CHECK_DEADLOCK FALSE
