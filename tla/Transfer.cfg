SPECIFICATION FairSpec
CONSTANTS
  Lens = {7, 118}
  Requests <- MCRequests
  MaxMsgs = 2
  MaxLost = 1
  MaxTxFail = 1
CHECK_DEADLOCK FALSE
INVARIANTS EndToEnd VerdictAgrees BlocksAgree PaceHonoured
PROPERTIES AcceptedIsDelivered ImplementsMessageService
