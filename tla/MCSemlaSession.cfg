SPECIFICATION FairSession
CONSTANTS
  NotAnInt = NotAnInt
  NoBody = NoBody
  empty = empty
  lib = lib
  secret = secret
  plain = plain
  fglobal = fglobal
  flicensed = flicensed
  funlicensed = funlicensed
  trusted = trusted
  untrusted = untrusted
  Data <- MCData
  EmptyData = empty
  Requests <- MCRequests
  Keys <- MCKeys
  TrustedKeys <- MCTrusted
  NoKey = NoKey
  Directories <- MCDirectories
  Readable <- MCReadable
  Encrypted <- MCEncrypted
  Licensed <- MCLicensed
  GlobalFeature = fglobal
  NoFeature = NoFeature
  CommandLines <- MCNoCommandLines
  ServeTool = ServeTool
  NoPath = NoPath
  NoContext = NoContext
  NoLicense = NoLicense
  NoMessage = NoMessage
  AllocMayFail = FALSE
  MaxInbox = 1
  Calls <- MCCalls
  LateCalls <- MCLateCalls
  LargeFiles <- MCLargeFiles
  Pieces = 3
  MaxPipe = 2
  MaxCalls = 4
  MinVersion = 1
  MaxVersion = 1
INVARIANTS
  SessionTypeOK
  InStep
  LicencesAreHeld
  FileAsAsked
PROPERTIES
  ToolIsAPeer
  CallReturns
  LveFollows
