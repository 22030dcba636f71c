SPECIFICATION FairSpec
CONSTANTS
  get = get
  put = put
  long = long
  Endpoint <- MCEndpoint
  Units <- MCUnits
  Answers <- MCAnswers
  MaxChunk = 4
  MaxMessages = 4
INVARIANTS CleanDelivery AnswersReadable
PROPERTY RequestAnswered
