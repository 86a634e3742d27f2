CONSTANTS
    Sentences <- FourSentences
    Wire <- OneUnended
    BufSize = 5
SPECIFICATION Spec
INVARIANTS AcceptedInOrder LineFits UnsplitParsed
PROPERTY UnendedLineBlocks
