\* Script after metadata, REST exporter: batches are cut again into chunks;
\* next to it the limit zero.
CONSTANTS
  MaxBatches = 3
  MaxChunks = 2
  Concurrency = 2
  AfterMetadata = TRUE
  Rest = TRUE
SPECIFICATION MCSpec
INVARIANTS
  SendBudget
  NothingAbandoned
PROPERTIES
  EveryRunAnswers
  Shipped
\* An invocation stops once it has answered; that it never stops earlier is
\* EveryRunAnswers.
CHECK_DEADLOCK FALSE
