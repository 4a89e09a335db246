\* The configured retries; ten timeouts of a minute in a job.
CONSTANTS
  Replies <- MCReplies
  MaxRetries = 2
  JsonRetries = 1
  JobTimeout = 10
SPECIFICATION Spec
INVARIANTS
  ObjectReplyAccepted
CHECK_DEADLOCK FALSE
