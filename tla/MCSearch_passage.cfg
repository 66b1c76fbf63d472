SPECIFICATION Spec
CONSTANTS
    heading = heading
    none = none
    Leads = {heading, none}
    Ceiling = 3
    Neighbours = 1
    MaxChunks = 4
    MaxIngests = 2
INVARIANT TypeOK
INVARIANT AnswerIsThePassage
INVARIANT PassageHoldsTogether
INVARIANT AnswersOneIngestion
PROPERTY SearchEnds
