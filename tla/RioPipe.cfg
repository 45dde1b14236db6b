CONSTANTS
  Bytes = {"newline", "x", "y"}
  Messages <- MCMessages
  MaxWire = 4
  Faults = {"eintr", "zero", "error"}
  Newline = "newline"
  Nul = "nul"
  Junk = "junk"
  BufSize = 2
  UsrSize = 9
  IntMod = 8
  Calls <- MCCalls
SPECIFICATION PipeSpec
INVARIANTS WireIsPrefix BufferIsStream
PROPERTIES HandsOverTheStream StaysInUsrbuf AllReturn
