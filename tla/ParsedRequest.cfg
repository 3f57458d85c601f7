\* Texts with up to three header lines and room for calls that set one more;
\* an array of two slots that grows twice; some texts, and what is printed of
\* some, are longer than MAX_REQ_LEN.  A process that has crashed stops.
CONSTANTS
  Symbols <- MCSymbols
  Keys <- Strings
  Values <- Strings
  DEFAULT_NHDRS = 2
  NULL = NULL
  Texts <- MCTexts
  MAX_REQ_LEN = 36
  BeyondBuffer <- MCBeyond
  SetKeys <- MCSetKeys
  SetValues <- MCSetValues
  MaxUsed = 4
SPECIFICATION Spec
INVARIANT TypeOK
INVARIANT MemoryOwned
INVARIANT PrintedReparses
PROPERTY ImplementsHeaderMap
CHECK_DEADLOCK FALSE
