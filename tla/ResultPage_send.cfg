\* One tab and one request, on a contract that is analysed up to twice, while
\* answers are lost and the database, the mail server and the process fail.
CONSTANTS
  Agents = {"counter"}
  Payload <- MCPayload
  Error = "error"
  NoRow = "none"
  NoDraft = "empty"
  Requests = {r1}
  MaxAnalyses = 2
  Faults = {"db", "smtp", "crash", "net"}
SPECIFICATION FairPageSpec
INVARIANTS
  SentIsDelivered
  AnswerIsTrue
  MailIsTheDraft
  DonePageIsComplete
  MailIsWhatWasShown
PROPERTIES
  PageShowsVerdict
CHECK_DEADLOCK FALSE
