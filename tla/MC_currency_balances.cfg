\* One call for an account with up to three currencies.  It stops when the
\* call and its goroutines are over.
CONSTANT Currency = {"USD", "EUR", "GBP"}
SPECIFICATION FairSpec
INVARIANTS SendsAreFree AnswerComplete
PROPERTIES CallEnds WorkersEnd
CHECK_DEADLOCK FALSE
