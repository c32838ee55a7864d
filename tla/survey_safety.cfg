SPECIFICATION Spec
CONSTANTS
  D1 = D1
  D2 = D2
  D3 = D3
  X1 = X1
  X2 = X2
  X3 = X3
  S1 = S1
  S2 = S2
  T1 = T1
  T2 = T2
  T3 = T3
  T4 = T4
  Ids = { D1, D2, D3, X1, X2, X3, S1, S2, T1, T2, T3, T4 }
  None = None
  Sources = { "openalex", "s2", "arxiv" }
  Incoming <- IncomingRecords
  Graph <- GraphRecords
  Arxiv <- ArxivRecords
  Crossref <- CrossrefTitles
  ArxivDois = { D3 }
  SimilarTitles <- TitlesOfFirst
  MaxRetrieved = 5
  MaxFound = 2
  MaxPapers = 2
  MinCitable = 1
INVARIANTS
  LinkedByKeys
  OwnVerdict
CHECK_DEADLOCK FALSE
