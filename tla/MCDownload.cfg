CONSTANTS
  Contents = {c1, c2}
  Total = 4
  NoTail = NoTail
  NoContent = NoContent
SPECIFICATION FetchSpec
INVARIANTS FetchTypeOK OverlayHonest FullMeansRight BarOutlivesWorker
PROPERTY WinGetReturns
