CONSTANTS
  Name = {"banner", "test", "bad", "typo"}
  Symbol <- MCSymbol
  Embedded <- MCEmbedded
  Files = {"banner", "test"}
  Lockable = {"banner"}
  Results <- MCResults
  MaxFrames = 5
  MaxStack = 1
SPECIFICATION Spec
INVARIANTS TypeOK SourceExplained LoadFailureExplained HostStackExact GuardTargetLive
