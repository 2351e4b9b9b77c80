CONSTANTS
  e1 = e1
  e2 = e2
  Elements <- MCElements
  Free = {e1, e2}
  Base = 3
  SomeCount = 1
  LastDate = 56
  Programs <- MCPrograms
  Message <- MCMessage
  MessagesOf <- MCMessagesOf
  LoadDates <- MCLoadDates
  MaxLag = 1
  None = None
SPECIFICATION PlayerSpec
SYMMETRY MCSymmetry
INVARIANTS TypeOK Filed OnTime SentInOrder PlayedAsWritten
PROPERTIES AgendaSpec

