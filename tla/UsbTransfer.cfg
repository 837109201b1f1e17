CONSTANTS
  NakLimit = 2
  RetryLimit = 3
  Packets = 2
  MaxReports = 3
  MaxSlow = 1
SPECIFICATION FairSpec
INVARIANTS TransferInv TogglesAgree
PROPERTIES ImplementsReports ReportsArrive
