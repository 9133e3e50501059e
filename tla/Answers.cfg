\* Documents of four lines, and a few larger ones, in chunks of two words; plans of up
\* to three items on two threads; searches that keep two hits; runs of two nodes and
\* answers of two markers.
CONSTANTS
  Part = {"documents", "local", "search", "citations"}
  Printed <- PrintedDef
  ChunkSize = 2
  Overlap = 1
  MinChars = 2
  MaxFigures = 1
  Proposal <- Proposals
  First = "n1"
  MaxThreads = 2
  Backend <- Backends
  Corpus <- CorpusDef
  Legacy = {"page"}
  Sessions <- Everything
  Short <- ShortDef
  Scorings <- ScoringsDef
  Plans <- PlansDef
  Like <- LikeDef
  K = 2
  Overfetch = 2
  Cutoff <- CutoffDef
  Radius = 1
  MaxRevision = 1
  Whatever = Whatever
  Empty = Empty
  Doc = {"A", "B", "W"}
  Retrieved <- RetrievedDef
  Label <- LabelDef
  Textless = {"w"}
  Nodes = 2
  Marks <- MarksDef
  MaxMarker = 4
  MaxMarkers = 2
  Invented = Invented
  Fabricated = Fabricated
  NoAnswer = NoAnswer
SPECIFICATION Spec
INVARIANTS LocalRunInv SearchInv ExpansionIsExact NothingWithheld CitationsInv MarkersMean DocumentsInv 
PROPERTIES LocalRunKeepsPromise EveryRunEnds
