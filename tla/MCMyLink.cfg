SPECIFICATION Spec
CONSTANTS
  HELLO = 2
  MaxCalls = 2
INVARIANTS
  TypeOK
  GreetedOnce
  AnswerFits
PROPERTY NumbersContiguous
\* The link is silent when mtsyscal has made its calls and no answer fits.
CHECK_DEADLOCK FALSE
