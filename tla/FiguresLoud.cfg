\* figure_vlm.py:126-127
CONSTANTS
  Part = {"documents"}
  Printed <- PrintedDef
  ChunkSize = 2
  Overlap = 1
  MinChars = 2
  MaxFigures = 1
  Proposal <- Proposals
  First = "n1"
  MaxThreads = 2
  Backend <- Backends
  Corpus <- CorpusDef
  Legacy = {"page"}
  Sessions <- NotesOrNone
  Short <- ShortDef
  Scorings <- ScoringsDef
  Plans <- PlansDef
  Like <- LikeDef
  K = 2
  Overfetch = 2
  Cutoff <- CutoffDef
  Radius = 1
  MaxRevision = 1
  Whatever = Whatever
  Empty = Empty
  Doc = {"A", "B", "W"}
  Retrieved <- RetrievedDef
  Label <- LabelDef
  Textless = {"w"}
  Nodes = 2
  Marks <- MarksDef
  MaxMarker = 4
  MaxMarkers = 2
  Invented = Invented
  Fabricated = Fabricated
  NoAnswer = NoAnswer
SPECIFICATION Spec
INVARIANT MisconfiguredIsLoud
