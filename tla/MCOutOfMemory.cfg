SPECIFICATION Spec
CONSTANTS
  NotAnInt = NotAnInt
  NoBody = NoBody
  empty = empty
  lib = lib
  nolib = nolib
  secret = secret
  plain = plain
  fglobal = fglobal
  flicensed = flicensed
  funlicensed = funlicensed
  trusted = trusted
  untrusted = untrusted
  Data <- MCData
  EmptyData = empty
  Requests <- MCRequests
  Keys <- MCKeys
  TrustedKeys <- MCTrusted
  NoKey = NoKey
  Directories <- MCDirectories
  Readable <- MCReadable
  Encrypted <- MCEncrypted
  Licensed <- MCLicensed
  GlobalFeature = fglobal
  NoFeature = NoFeature
  CommandLines <- MCCommandLines
  ServeTool = ServeTool
  NoPath = NoPath
  NoContext = NoContext
  NoLicense = NoLicense
  NoMessage = NoMessage
  AllocMayFail = TRUE
  MaxInbox = 1
INVARIANTS
  DeliveredUnderGlobalLicense
