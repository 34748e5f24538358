-------------------------- MODULE SemlaSession_proofs --------------------------
(***************************************************************************)
(* A tool and its LVE, for every set of calls, files and keys, every room of  *)
(* the pipe and every number of records: what travels between them belongs    *)
(* to the call being made, and what a call returns is true.                   *)
(***************************************************************************)
EXTENDS SemlaSession, LveSession_proofs

-----------------------------------------------------------------------------
(* Lemmas on calls, replies and records.                                     *)

\* The message a call sends names the call and carries its argument.
LEMMA RequestOf ==
  ASSUME NEW c \in Calls
  PROVE  /\ c.api \in Apis /\ c.arg \in Data
         /\ Request(c) \in Requests /\ Request(c).name = c.api
         /\ c.api \in {"LIB", "FEATURE", "RETURNFEATURE", "FILE"} =>
              ParsedCommand(Request(c)).data = c.arg
  <1>1. c.api \in Apis /\ c.arg \in Data /\ Request(c) \in Requests
    BY CallAssumption
  <1>2. Request(c).name = c.api
    BY DEF Request
  <1>3. ASSUME c.api \in {"LIB", "FEATURE", "RETURNFEATURE", "FILE"}
        PROVE  ParsedCommand(Request(c)).data = c.arg
    BY <1>3 DEF ParsedCommand, Request, LengthCommands
  <1>4. QED
    BY <1>1, <1>2, <1>3

\* Taking the only element of a sequence of sequences, or none, apart.
LEMMA FlattenOne ==
  /\ FlattenSeq(<<>>) = <<>>
  /\ \A s : FlattenSeq(<<s>>) = s
  <1>1. FlattenSeq(<<>>) = <<>>
    BY DEF FlattenSeq
  <1>2. ASSUME NEW s PROVE FlattenSeq(<<s>>) = s
    <2> DEFINE body(f) == [i \in 1..1 |-> IF i = 1 THEN <<s>>[i] ELSE f[i-1] \o <<s>>[i]]
               only    == [i \in 1..1 |-> s]
    <2>1. only = body(only)
      OBVIOUS
    <2>2. Len(<<s>>) = 1
      OBVIOUS
    <2>3. (CHOOSE f : f = body(f)) = body(CHOOSE f : f = body(f))
      BY <2>1
    <2>4. (CHOOSE f : f = body(f))[1] = s
      BY <2>3
    <2>5. FlattenSeq(<<s>>) = (CHOOSE f : f = body(f))[1]
      BY <2>2 DEF FlattenSeq
    <2>6. QED
      BY <2>4, <2>5
  <1>3. QED
    BY <1>1, <1>2

\* The records a reply is cut into (ssl_write_message).
PiecesOf(r) == IF r.command = "FILECONT" /\ r.data[2] \in LargeFiles THEN Pieces ELSE 1

Record(r, n) == [reply |-> r, piece |-> n, last |-> n = PiecesOf(r), to |-> Len(asked)]
Records      == [reply : Replies, piece : 1..Pieces, last : BOOLEAN, to : 0..MaxCalls]

\* A record taken apart.
LEMMA RecordFields ==
  ASSUME NEW r, NEW n, NEW x, x = Record(r, n)
  PROVE  x.reply = r /\ x.piece = n /\ (x.last <=> n = PiecesOf(r))
  <1>1. x.last = (n = PiecesOf(r))
    BY Zenon DEF Record
  <1>2. QED
    BY <1>1 DEF Record

\* The records of a reply number from 1 to the last one.
LEMMA RecordsType ==
  ASSUME Len(asked) \in 0..MaxCalls, NEW r \in Replies
  PROVE  /\ PiecesOf(r) \in 1..Pieces
         /\ RecordsOf(r) \in Seq(Records) /\ Len(RecordsOf(r)) = PiecesOf(r)
         /\ \A n \in 1..PiecesOf(r) : RecordsOf(r)[n] = Record(r, n)
  <1>1. PiecesOf(r) \in 1..Pieces
    BY CallAssumption DEF PiecesOf
  <1>2. RecordsOf(r) = [n \in 1..PiecesOf(r) |-> Record(r, n)]
    BY DEF RecordsOf, PiecesOf, Record
  <1>3. \A n \in 1..PiecesOf(r) : Record(r, n) \in Records
    BY <1>1, CallAssumption DEF Record, Records
  <1>4. QED
    BY <1>1, <1>2, <1>3

\* What the LVE writes after a handler that sent one reply, or none.
LEMMA WrittenRecords ==
  /\ sent' = <<>> => FlattenSeq([i \in DOMAIN sent' |-> RecordsOf(sent'[i])]) = <<>>
  /\ \A r : sent' = <<r>> =>
       FlattenSeq([i \in DOMAIN sent' |-> RecordsOf(sent'[i])]) = RecordsOf(r)
  <1>1. ASSUME sent' = <<>> PROVE FlattenSeq([i \in DOMAIN sent' |-> RecordsOf(sent'[i])]) = <<>>
    <2>1. [i \in DOMAIN sent' |-> RecordsOf(sent'[i])] = <<>>
      BY <1>1
    <2>2. QED
      BY <2>1, FlattenOne
  <1>2. ASSUME NEW r, sent' = <<r>>
        PROVE  FlattenSeq([i \in DOMAIN sent' |-> RecordsOf(sent'[i])]) = RecordsOf(r)
    <2>1. [i \in DOMAIN sent' |-> RecordsOf(sent'[i])] = <<RecordsOf(r)>>
      BY <1>2
    <2>2. QED
      BY <2>1, FlattenOne
  <1>3. QED
    BY <1>1, <1>2

-----------------------------------------------------------------------------
(* What the LVE does for the call whose request it handles.                  *)

\* The reply r suits the call c: a file is the one asked for, out of the open
\* library, for an approved tool; a feature that is granted is held.
Suits(c, r) ==
  /\ r.command = "FILECONT" =>
       c.api = "FILE" /\ r.data = <<libpath, c.arg>> /\ approved /\ libpath \in Data
  /\ r.command = "YES" /\ c.api = "FEATURE" => c.arg \in held'

\* The effect of a request while the tool listens: the process lives on and
\* writes at most one reply, which suits, or ends without one; only VERSION
\* leaves the first state, only LIB after it opens a library, and only
\* RETURNFEATURE gives a licence up, which it then says.
Serves(c) ==
  /\ pc' = pc \/ (pc' = "crashed" /\ sent' = <<>>)
  /\ sent' = <<>> \/ \E r \in Replies : sent' = <<r>> /\ Suits(c, r)
  /\ state' # "VERSION" => state # "VERSION" \/ c.api = "VERSION"
  /\ libpath' # libpath => c.api = "LIB" /\ state # "VERSION" /\ libpath' = c.arg
  /\ \/ held \subseteq held'
     \/ c.api = "RETURNFEATURE" /\ sent' = <<Yes>> /\ held \ {c.arg} \subseteq held'

\* Replies of the handlers that deliver no file and grant no feature suit any call.
LEMMA PlainSuits ==
  ASSUME NEW c, NEW n \in Nat
  PROVE  /\ Suits(c, Error(n)) /\ Suits(c, Version(n)) /\ Suits(c, No) /\ Suits(c, NotSimple)
         /\ c.api # "FEATURE" => Suits(c, Yes)
  BY DEF Suits, Error, Version, No, NotSimple, Yes, Reply

\* Every handler serves the call that sent the request (lve.c, mlle_lve_*.c).
LEMMA HandlerServes ==
  ASSUME TypeOK, peerOpen, Handle, NEW c \in Calls, Head(inbox) = Request(c)
  PROVE  Serves(c)
  <1> USE ReplyTypes, PlainSuits DEF ctx
  <1>0. /\ Request(c).name = c.api
        /\ c.api \in {"LIB", "FEATURE", "RETURNFEATURE", "FILE"} =>
             ParsedCommand(Request(c)).data = c.arg
        /\ c.api \in Apis
    BY RequestOf
  <1>1. ASSUME NEW m, NEW a, Handles(m, a)
        PROVE  m = Request(c) /\ c.api = a /\ NextState(state, a) # Invalid
    BY <1>0, <1>1 DEF Handles, Reads
  <1>2. ASSUME NEW STATE rs, Emit(rs) PROVE (sent' = rs \/ sent' = <<>>) /\ pc' = pc
    BY <1>2, EmitHeard
  <1>3. CASE Reject
    <2>1. /\ sent' = <<Error(NotUnderstood)>> \/ sent' = <<>>
          /\ UNCHANGED <<pc, state, libpath, held>>
      BY <1>2, <1>3 DEF Reject
    <2>2. Error(NotUnderstood) \in Replies /\ Suits(c, Error(NotUnderstood))
      BY DEF NotUnderstood
    <2>3. QED
      BY <2>1, <2>2 DEF Serves
  <1>4. CASE HandleVersion
    <2>1. PICK m \in Requests :
            /\ Handles(m, "VERSION")
            /\ \/ Emit(<<Error(VersionTooLow)>>)
               \/ Emit(<<Version(MaxProtocolVersion)>>)
            /\ UNCHANGED <<ctx, held, granted>>
      BY <1>4 DEF HandleVersion
    <2>2. c.api = "VERSION"
      BY <1>1, <2>1
    <2>3. VersionTooLow \in Nat /\ MaxProtocolVersion \in Nat
      BY DEF VersionTooLow, MaxProtocolVersion
    <2>4. pc' = pc /\ (sent' = <<>> \/ \E r \in Replies : sent' = <<r>> /\ Suits(c, r))
      BY <1>2, <2>1, <2>3
    <2>5. QED
      BY <2>1, <2>2, <2>4 DEF Serves
  <1>5. CASE HandleTools
    <2>1. PICK m \in Requests : Handles(m, "TOOLS")
      BY <1>5 DEF HandleTools
    <2>2. QED
      BY <1>0, <1>1, <2>1 DEF Apis
  <1>6. CASE HandleLib
    <2>1. PICK m \in Requests :
            LET data   == ParsedCommand(m).data
                length == ParsedCommand(m).length
            IN /\ Handles(m, "LIB")
               /\ \/ LibMissing(data, length)        /\ Emit(<<>>)
                  \/ LibWithoutContext(data, length) /\ Emit(<<>>)
                  \/ LibUnlicensed(data, length)     /\ Emit(<<Error(LicenseError)>>)
                  \/ LibAccepted(data, length)       /\ Emit(<<Yes>>)
      BY <1>6 DEF HandleLib
    <2>2. c.api = "LIB" /\ ParsedCommand(m).data = c.arg /\ state # "VERSION"
      <3>1. m = Request(c) /\ c.api = "LIB" /\ NextState(state, "LIB") # Invalid
        BY <1>1, <2>1
      <3>2. QED
        BY <1>0, <3>1 DEF NextState, Invalid
    <2>3. libpath' \in {libpath, c.arg} /\ held \subseteq held'
      BY <2>1, <2>2
         DEF LibMissing, LibWithoutContext, LibUnlicensed, LibAccepted, CheckoutFeature, licence
    <2>4. sent' = <<>> \/ \E r \in Replies : sent' = <<r>> /\ Suits(c, r)
      <3>1. \/ sent' = <<>> \/ sent' = <<Yes>> \/ sent' = <<Error(LicenseError)>>
        BY <1>2, <2>1
      <3>2. LicenseError \in Nat /\ c.api # "FEATURE"
        BY <2>2 DEF LicenseError
      <3>3. QED
        BY <3>1, <3>2
    <2>5. pc' = pc
      BY <1>2, <2>1
    <2>6. QED
      BY <2>2, <2>3, <2>4, <2>5 DEF Serves
  <1>7. CASE HandleFeature
    <2>1. PICK m \in Requests :
            /\ Handles(m, "FEATURE")
            /\ \/ LicensingFails                        /\ Emit(<<Error(LicenseError)>>)
               \/ FeatureGranted(ParsedCommand(m).data) /\ Emit(<<Yes>>)
               \/ FeatureDenied                         /\ Emit(<<No>>)
            /\ UNCHANGED <<state, libpath, approved, errType, crContext>>
      BY <1>7 DEF HandleFeature
    <2>2. ParsedCommand(m).data = c.arg
      BY <1>0, <1>1, <2>1
    <2>3. held \subseteq held'
      BY <2>1 DEF LicensingFails, FeatureGranted, FeatureDenied, CheckoutFeature
    <2>4. sent' = <<>> \/ \E r \in Replies : sent' = <<r>> /\ Suits(c, r)
      <3>1. CASE FeatureGranted(c.arg) /\ Emit(<<Yes>>)
        <4>1. c.arg \in held'
          BY <3>1 DEF FeatureGranted, CheckoutFeature
        <4>2. Suits(c, Yes)
          BY <4>1 DEF Suits, Yes, Reply
        <4>3. QED
          BY <1>2, <3>1, <4>2
      <3>2. CASE Emit(<<Error(LicenseError)>>) \/ Emit(<<No>>)
        <4>1. sent' = <<Error(LicenseError)>> \/ sent' = <<No>> \/ sent' = <<>>
          BY <1>2, <3>2
        <4>2. LicenseError \in Nat
          BY DEF LicenseError
        <4>3. QED
          BY <4>1, <4>2
      <3>3. QED
        BY <2>1, <2>2, <3>1, <3>2
    <2>5. pc' = pc
      BY <1>2, <2>1
    <2>6. QED
      BY <2>1, <2>3, <2>4, <2>5 DEF Serves
  <1>8. CASE HandleReturnFeature
    <2>1. PICK m \in Requests :
            /\ Handles(m, "RETURNFEATURE")
            /\ \/ LicensingFails /\ Emit(<<Error(LicenseError)>>)
               \/ /\ SetupLicensing(libpath)
                  /\ CheckinFeature(ParsedCommand(m).data)
                  /\ Emit(<<Yes>>)
               \/ FeatureDenied  /\ Emit(<<Error(LicenseError)>>)
            /\ UNCHANGED <<state, libpath, approved, errType, crContext>>
      BY <1>8 DEF HandleReturnFeature
    <2>2. c.api = "RETURNFEATURE" /\ ParsedCommand(m).data = c.arg
      BY <1>0, <1>1, <2>1
    <2>3. \/ held' = held /\ (sent' = <<Error(LicenseError)>> \/ sent' = <<>>)
          \/ held' = held \ {c.arg} /\ sent' = <<Yes>>
      <3>1. Emit(<<Yes>>) => sent' = <<Yes>>
        BY EmitHeard, SuccessIsTold
      <3>2. QED
        BY <1>2, <2>1, <2>2, <3>1 DEF LicensingFails, CheckinFeature, FeatureDenied
    <2>4. sent' = <<>> \/ \E r \in Replies : sent' = <<r>> /\ Suits(c, r)
      BY <2>2, <2>3 DEF LicenseError
    <2>5. pc' = pc
      BY <1>2, <2>1
    <2>6. QED
      BY <2>1, <2>2, <2>3, <2>4, <2>5 DEF Serves
  <1>9. CASE HandleLicense
    <2>1. /\ sent' = <<NotSimple>> \/ sent' = <<>>
          /\ UNCHANGED <<pc, state, libpath, held>>
      BY <1>2, <1>9 DEF HandleLicense
    <2>2. Suits(c, NotSimple)
      BY DEF Suits, NotSimple, Reply
    <2>3. QED
      BY <2>1, <2>2 DEF Serves
  <1>10. CASE HandleFile
    <2>1. PICK m \in Requests :
            /\ Handles(m, "FILE")
            /\ \/ FileRefused \/ FileFails(ParsedCommand(m).data)
               \/ FileDelivered(ParsedCommand(m).data) \/ FileWithoutLibrary
            /\ UNCHANGED <<state, ctx, held, granted>>
      BY <1>10 DEF HandleFile
    <2>2. c.api = "FILE" /\ ParsedCommand(m).data = c.arg
      BY <1>0, <1>1, <2>1
    <2>3. sent' = <<>> \/ \E r \in Replies : sent' = <<r>> /\ Suits(c, r)
      <3>1. CASE FileRefused
        <4>1. errType \in Nat
          BY DEF TypeOK, ErrorIds
        <4>2. QED
          BY <1>2, <3>1, <4>1 DEF FileRefused
      <3>2. CASE FileFails(c.arg)
        BY <1>2, <3>2 DEF FileFails, FileIoError, OtherError
      <3>3. CASE FileDelivered(c.arg)
        <4>1. FileCont(libpath, c.arg) \in Replies /\ libpath \in Data
          BY <3>3, DataAssumption DEF FileDelivered
        <4>2. Suits(c, FileCont(libpath, c.arg))
          BY <2>2, <3>3, <4>1 DEF FileDelivered, Suits, FileCont, Reply
        <4>3. QED
          BY <1>2, <3>3, <4>1, <4>2 DEF FileDelivered
      <3>4. QED
        BY <2>1, <2>2, <3>1, <3>2, <3>3 DEF FileWithoutLibrary
    <2>4. pc' = pc \/ (pc' = "crashed" /\ sent' = <<>>)
      BY <1>2, <2>1 DEF FileRefused, FileFails, FileDelivered, FileWithoutLibrary
    <2>5. QED
      BY <2>1, <2>3, <2>4 DEF Serves
  <1>11. QED
    BY <1>3, <1>4, <1>5, <1>6, <1>7, <1>8, <1>9, <1>10 DEF Handle

-----------------------------------------------------------------------------
(* What travels from the LVE to the tool, in the order it is read.            *)

Travelling == toTool \o outgoing

\* Reading takes the first record away, writing moves one along.
LEMMA Moves ==
  ASSUME toTool \in Seq(Records), outgoing \in Seq(Records)
  PROVE  /\ Travelling \in Seq(Records) /\ Len(Travelling) = Len(toTool) + Len(outgoing)
         /\ Travelling = <<>> <=> toTool = <<>> /\ outgoing = <<>>
         /\ toTool # <<>> => /\ Head(toTool) = Travelling[1]
                             /\ Tail(toTool) \o outgoing = Tail(Travelling)
         /\ outgoing # <<>> => Append(toTool, Head(outgoing)) \o Tail(outgoing) = Travelling
  <1> USE DEF Travelling
  <1>1. Travelling \in Seq(Records) /\ Len(Travelling) = Len(toTool) + Len(outgoing)
    OBVIOUS
  <1>2. Travelling = <<>> <=> toTool = <<>> /\ outgoing = <<>>
    BY <1>1
  <1>3. ASSUME toTool # <<>>
        PROVE  Head(toTool) = Travelling[1] /\ Tail(toTool) \o outgoing = Tail(Travelling)
    BY <1>3
  <1>4. ASSUME outgoing # <<>>
        PROVE  Append(toTool, Head(outgoing)) \o Tail(outgoing) = Travelling
    BY <1>4
  <1>5. QED
    BY <1>1, <1>2, <1>3, <1>4

\* To a tool that has gone nothing is sent (ssl_write_message fails).
LEMMA SilentHandler ==
  ASSUME Handle, ~peerOpen
  PROVE  sent' = <<>>
  <1> USE DEF Emit
  <1>1. CASE Reject \/ HandleVersion \/ HandleTools \/ HandleLicense
    BY <1>1 DEF Reject, HandleVersion, HandleTools, HandleLicense
  <1>2. CASE HandleLib \/ HandleFeature \/ HandleReturnFeature
    BY <1>2 DEF HandleLib, HandleFeature, HandleReturnFeature
  <1>3. CASE HandleFile
    BY <1>3 DEF HandleFile, FileRefused, FileFails, FileDelivered, FileWithoutLibrary
  <1>4. QED
    BY <1>1, <1>2, <1>3 DEF Handle

-----------------------------------------------------------------------------
(* The invariant of a session.                                               *)

ToolTypes ==
  /\ tool \in Waiting \cup Gone \cup {"idle"}
  /\ asked \in Seq(Calls) /\ Len(asked) <= MaxCalls
  /\ toTool \in Seq(Records) /\ outgoing \in Seq(Records)
  /\ reply \in Replies \cup {NoReply} /\ read \in Nat
  /\ result \in {"none", "ok", "failed", "no_license", "not_simplified"}
  /\ licences \subseteq Data /\ starved \in BOOLEAN

\* Where the LVE is, as far as the tool can know it.
Places ==
  /\ argv = ServeTool
  /\ peerOpen <=> tool \notin Gone
  /\ tool \in {"idle", "waiting", "reading"} => pc \in {"validate", "receive"} \cup Stopped
  /\ tool \in {"waiting", "reading"} => asked # <<>>
  /\ tool = "connecting" => asked = <<>>
  /\ pc \in Stopped => outgoing = <<>>

\* What travels are the next records of the reply r, to the call being made.
Carries(r) ==
  /\ read + Len(Travelling) <= PiecesOf(r)
  /\ \A i \in 1..Len(Travelling) : Travelling[i] = Record(r, read + i)

\* The calls made so far opened the library l.
Opened(l) ==
  \E i, j \in DOMAIN asked :
    i < j /\ asked[i].api = "VERSION" /\ asked[j].api = "LIB" /\ asked[j].arg = l

\* The reply r is an answer to the call being made.
Answers(r) ==
  /\ r.command = "FILECONT" =>
       /\ Call.api = "FILE" /\ r.data[2] = Call.arg
       /\ Opened(r.data[1]) /\ peerKey \in TrustedKeys
  /\ r.command = "YES" /\ Call.api = "FEATURE" /\ pc \notin Stopped => Call.arg \in held

\* Requests and replies alternate: there is the request of the call, or records
\* of one reply to it, or neither.
Flight ==
  /\ tool \in {"connecting", "idle"} => Travelling = <<>>
  /\ tool = "waiting" => read = 0
  /\ tool = "waiting" /\ Travelling # <<>> =>
       LET r == Travelling[1].reply IN r \in Replies /\ Carries(r) /\ Answers(r)
  /\ tool = "reading" =>
       /\ reply \in Replies /\ reply.command = "FILECONT"
       /\ Carries(reply) /\ Answers(reply) /\ read < PiecesOf(reply)
  /\ tool \notin Gone /\ pc \notin Stopped /\ inbox # <<>> =>
       tool = "waiting" /\ Travelling = <<>> /\ inbox = <<Request(Call)>>

\* What the LVE has open the tool asked it to open.
LibraryAsked ==
  tool \notin Gone /\ pc \notin Stopped =>
    /\ state # "VERSION" => \E i \in DOMAIN asked : asked[i].api = "VERSION"
    /\ libpath # NoPath => Opened(libpath)

\* A licence the LVE has taken back and the tool still believes it has is the
\* one whose return is being confirmed.
LicencesKept ==
  tool \notin Gone /\ pc \notin Stopped =>
    \/ licences \subseteq held
    \/ /\ tool = "waiting" /\ Call.api = "RETURNFEATURE"
       /\ Travelling # <<>> /\ Travelling[1].reply = Yes
       /\ licences \ {Call.arg} \subseteq held

InOrder == Flight /\ LibraryAsked /\ LicencesKept /\ FileAsAsked

\* The session while memory lasts; once it has failed the tool, replies may be
\* left over from one call to the next, and only the places remain.
FedInv  == ToolTypes /\ Places /\ InOrder
ToolInv == ToolTypes /\ Places /\ (starved \/ InOrder)
SInv    == KeyInv /\ AnswerInv /\ ToolInv

-----------------------------------------------------------------------------
(* The tool as a peer of the LVE.                                            *)

\* Every step of a session is a step of the LVE with its peer, or one the LVE
\* does not see: the tool writes a request where there is room for one, and
\* only to an LVE that finished the handshake.
LEMMA PeerStep == SInv /\ [SessionNext]_sessionVars => [Next]_vars
  <1> SUFFICES ASSUME SInv, [SessionNext]_sessionVars PROVE [Next]_vars
    OBVIOUS
  <1> USE DEF SInv, ToolInv, Next
  <1>1. CASE LveHandles \/ LveRuns
    BY <1>1 DEF LveHandles, LveRuns, Lve
  <1>2. CASE LveWrites \/ LveWriteFails \/ LveDies
    BY <1>2 DEF LveWrites, LveWriteFails, LveDies
  <1>3. CASE \/ Connects \/ ReadsReply \/ ReadsMore \/ ReadsIntoNothing
             \/ ReadStarves \/ RequestStarves
    BY <1>3 DEF Connects, ReadsReply, ReadsMore, ReadsIntoNothing, ReadStarves, RequestStarves
  <1>4. CASE ReadFails \/ CallsDeadLve \/ Frees \/ ToolDies
    BY <1>4 DEF ReadFails, CallsDeadLve, Frees, ToolDies
  <1>5. CASE CallsLve
    <2>1. pc \in {"validate", "receive"} /\ peerOpen
      BY <1>5 DEF CallsLve, Places, Gone
    <2>3. Len(inbox) < MaxInbox
      BY <1>5 DEF CallsLve
    <2>4. \E m \in Requests : inbox' = Append(inbox, m)
      BY <1>5, RequestOf, CallAssumption DEF CallsLve
    <2>5. PeerSends
      BY <1>5, <2>1, <2>3, <2>4 DEF CallsLve, PeerSends
    <2>6. QED
      BY <2>5
  <1>6. CASE SessionOver \/ UNCHANGED sessionVars
    BY <1>6 DEF SessionOver, sessionVars
  <1>7. QED
    BY <1>1, <1>2, <1>3, <1>4, <1>5, <1>6 DEF SessionNext, LveSteps, ToolReads

-----------------------------------------------------------------------------
(* The steps of the tool.                                                    *)

\* What a call makes of a reply: success is the command that the call waits for.
LEMMA Judged ==
  ASSUME NEW c, NEW r
  PROVE  /\ Judge(c, r) \in {"ok", "failed", "no_license", "not_simplified"}
         /\ Judge(c, r) = "ok" /\ c.api = "FILE" => r.command = "FILECONT"
         /\ Judge(c, r) = "ok" /\ c.api \in {"FEATURE", "RETURNFEATURE"} => r.command = "YES"
  BY DEF Judge

\* Where the connection is over nothing is left to be wrong.
LEMMA OverStep ==
  ASSUME NEW how \in Gone, Over(how), ~peerOpen'
  PROVE  InOrder'
  BY DEF Over, Gone, InOrder, Flight, LibraryAsked, LicencesKept, FileAsAsked

\* Connecting and freeing the connection, the end of the tool, and a read that
\* finds a dead LVE.
LEMMA ConnectionStep ==
  ASSUME FedInv, Connects \/ ReadFails \/ Frees \/ ToolDies
  PROVE  InOrder'
  <1> USE DEF FedInv, InOrder
  <1>0. "closed" \in Gone /\ "killed" \in Gone
    BY DEF Gone
  <1>1. CASE PeerCloses /\ (Over("closed") \/ Over("killed")) /\ UNCHANGED pipe
    BY <1>0, <1>1, OverStep DEF PeerCloses
  <1>2. CASE Connects /\ tool' = "idle"
    <2>1. /\ tool = "connecting" /\ pc \in {"validate", "receive"}
          /\ UNCHANGED <<vars, asked, reply, read, result, licences, pipe>>
      BY <1>2 DEF Connects, Over
    <2>2. Flight'
      BY <1>2, <2>1 DEF Flight, Travelling, pipe, vars, Gone
    <2>3. LibraryAsked' /\ LicencesKept'
      BY <1>2, <2>1 DEF LibraryAsked, LicencesKept, Opened, vars, Gone
    <2>4. FileAsAsked'
      BY <2>1 DEF Places, FileAsAsked
    <2>5. QED
      BY <2>2, <2>3, <2>4
  <1>3. CASE ReadFails /\ tool = "waiting"
    <2>1. /\ pc \in Stopped /\ tool' = "idle" /\ reply' = NoReply /\ result' = "failed"
          /\ UNCHANGED <<vars, asked, read, licences, pipe>> /\ toTool = <<>>
      BY <1>3 DEF ReadFails, Returns
    <2>2. Travelling = <<>>
      BY <2>1, Moves DEF Places, ToolTypes
    <2>3. QED
      BY <2>1, <2>2 DEF Flight, LibraryAsked, LicencesKept, FileAsAsked, Travelling, pipe, vars
  <1>4. QED
    BY <1>1, <1>2, <1>3 DEF Connects, ReadFails, Frees, ToolDies

\* A call that starts: the request is the only thing that travels. What was
\* asked before it stays asked.
LEMMA CallStep ==
  ASSUME FedInv, CallsLve \/ CallsDeadLve
  PROVE  InOrder'
  <1> USE DEF FedInv, InOrder
  <1>1. CASE PeerCloses /\ Over("killed") /\ UNCHANGED pipe
    BY <1>1, OverStep DEF PeerCloses, Gone
  <1>2. CASE ~(PeerCloses /\ Over("killed") /\ UNCHANGED pipe)
    <2>1. PICK c \in Calls :
            /\ tool = "idle" /\ Len(asked) < MaxCalls /\ asked' = Append(asked, c)
            /\ reply' = NoReply /\ read' = 0
            /\ \/ tool' = "waiting" /\ result' = "none"
               \/ tool' = "idle" /\ result' = "failed" /\ pc \in Stopped
            /\ inbox' = Append(inbox, Request(c)) \/ (pc \in Stopped /\ inbox' = inbox)
            /\ UNCHANGED <<argv, pc, peerKey, peerOpen, state, libpath, held, licences, pipe>>
      BY <1>2, CallAssumption DEF CallsLve, CallsDeadLve, process, ctx, vars
    <2>2. /\ asked' \in Seq(Calls) /\ Len(asked') = Len(asked) + 1 /\ Call' = c
          /\ \A i \in DOMAIN asked : asked'[i] = asked[i]
          /\ DOMAIN asked \subseteq DOMAIN asked'
      BY <2>1 DEF ToolTypes, Call
    <2>3. \A l : Opened(l) => Opened(l)'
      BY <2>2 DEF Opened
    <2>4. Travelling' = <<>>
      BY <2>1 DEF Flight, Travelling, pipe
    <2>5. Flight'
      <3>1. pc \notin Stopped => inbox = <<>>
        BY <2>1 DEF Flight, Gone
      <3>2. Append(<<>>, Request(c)) = <<Request(c)>>
        OBVIOUS
      <3>3. pc \notin Stopped => inbox' = <<Request(c)>> /\ tool' = "waiting"
        BY <2>1, <3>1, <3>2
      <3>4. QED
        BY <2>1, <2>2, <2>4, <3>3 DEF Flight
    <2>6. LibraryAsked'
      BY <2>1, <2>2, <2>3 DEF LibraryAsked, Gone
    <2>7. LicencesKept'
      BY <2>1 DEF LicencesKept, Gone
    <2>8. FileAsAsked'
      BY <2>1 DEF FileAsAsked
    <2>9. QED
      BY <2>5, <2>6, <2>7, <2>8
  <1>3. QED
    BY <1>1, <1>2

\* Reading one record off the front: the rest are the next records.
LEMMA ReadOne ==
  ASSUME ToolTypes, NEW r \in Replies, Carries(r), toTool # <<>>,
         toTool' = Tail(toTool), read' = read + 1, UNCHANGED <<asked, outgoing>>
  PROVE  /\ Head(toTool) = Record(r, read + 1)
         /\ Carries(r)' /\ read' <= PiecesOf(r)
         /\ toTool' \in Seq(Records)
         /\ read' = PiecesOf(r) => Travelling' = <<>>
         /\ Travelling' # <<>> => Travelling'[1].reply = r
  <1>1. /\ Travelling \in Seq(Records) /\ Len(Travelling) > 0 /\ Head(toTool) = Travelling[1]
        /\ Travelling' = Tail(Travelling)
    BY Moves DEF ToolTypes, Travelling
  <1>2. /\ read \in Nat /\ PiecesOf(r) \in 1..Pieces
        /\ Len(asked) \in 0..MaxCalls /\ Pieces \in Nat
    BY RecordsType, CallAssumption DEF ToolTypes
  <1>3. Head(toTool) = Record(r, read + 1)
    BY <1>1, <1>2 DEF Carries
  <1>4. /\ Travelling' \in Seq(Records) /\ Len(Travelling') = Len(Travelling) - 1
        /\ \A i \in 1..Len(Travelling') : Travelling'[i] = Travelling[i + 1]
    BY <1>1
  <1>5. \A i \in 1..Len(Travelling') : Travelling'[i] = Record(r, read + (i + 1))
    BY <1>1, <1>2, <1>4 DEF Carries
  <1>6. \A i \in 1..Len(Travelling') : Travelling'[i] = Record(r, read' + i)
    BY <1>2, <1>5
  <1>7. read' + Len(Travelling') <= PiecesOf(r)
    BY <1>1, <1>2, <1>4 DEF Carries
  <1>8. Carries(r)'
    BY <1>6, <1>7 DEF Carries, Record
  <1>9. read' <= PiecesOf(r) /\ (read' = PiecesOf(r) => Travelling' = <<>>)
    BY <1>2, <1>4, <1>7
  <1>10. Travelling' # <<>> => Travelling'[1].reply = r
    <2>1. Travelling' # <<>> => 1 \in 1..Len(Travelling')
      BY <1>4
    <2>2. Record(r, read' + 1).reply = r
      BY DEF Record
    <2>3. QED
      BY <1>6, <2>1, <2>2
  <1>11. QED
    BY <1>2, <1>3, <1>8, <1>9, <1>10 DEF ToolTypes

\* The last record makes the call return, with nothing left in the pipe.
LEMMA ReturnStep ==
  ASSUME FedInv, tool \in {"waiting", "reading"}, NEW r \in Replies, Carries(r), Answers(r),
         toTool # <<>>, toTool' = Tail(toTool), read' = read + 1, read' = PiecesOf(r),
         \/ pc \in Stopped \/ licences \subseteq held
         \/ Call.api = "RETURNFEATURE" /\ r = Yes /\ licences \ {Call.arg} \subseteq held,
         Returns(r, Judge(Call, r)), UNCHANGED <<vars, asked, outgoing>>
  PROVE  InOrder'
  <1> USE DEF FedInv, InOrder
  <1>1. /\ tool' = "idle" /\ reply' = r /\ result' = Judge(Call, r)
        /\ UNCHANGED <<argv, pc, peerKey, peerOpen, inbox, state, libpath, held, asked, outgoing>>
    BY DEF Returns, vars
  <1>2. Call \in Calls /\ Call' = Call /\ Call.arg \in Data
    BY <1>1, RequestOf DEF Places, ToolTypes, Call
  <1>3. toTool' \in Seq(Records) /\ Travelling' = <<>>
    BY <1>1, ReadOne
  <1>4. Flight'
    <2>1. Travelling # <<>>
      BY Moves DEF ToolTypes
    <2>2. pc \in Stopped \/ inbox = <<>>
      BY <2>1 DEF Flight, Gone
    <2>3. QED
      BY <1>1, <1>3, <2>2 DEF Flight
  <1>5. LibraryAsked'
    BY <1>1 DEF LibraryAsked, Opened, Gone
  <1>6. LicencesKept'
    <2> SUFFICES ASSUME pc \notin Stopped PROVE licences' \subseteq held
      BY <1>1 DEF LicencesKept
    <2>1. CASE licences \subseteq held
      BY <2>1, Judged DEF Returns, Answers
    <2>2. CASE Call.api = "RETURNFEATURE" /\ r = Yes /\ licences \ {Call.arg} \subseteq held
      BY <2>2 DEF Returns, Judge, Yes, Reply
    <2>3. QED
      BY <2>1, <2>2
  <1>7. FileAsAsked'
    <2> SUFFICES ASSUME result' = "ok", Call.api = "FILE"
                 PROVE  /\ r.data[2] = Call.arg /\ read' = Len(RecordsOf(r)')
                        /\ Opened(r.data[1]) /\ peerKey \in TrustedKeys
      BY <1>1, <1>2 DEF FileAsAsked, Opened
    <2>1. r.command = "FILECONT"
      BY <1>1, Judged
    <2>2. Len(RecordsOf(r)') = PiecesOf(r)
      <3>1. RecordsOf(r)' = RecordsOf(r)
        BY <1>1 DEF RecordsOf
      <3>2. Len(asked) \in 0..MaxCalls
        BY CallAssumption DEF ToolTypes
      <3>3. QED
        BY <3>1, <3>2, RecordsType
    <2>3. QED
      BY <2>1, <2>2 DEF Answers
  <1>8. QED
    BY <1>4, <1>5, <1>6, <1>7

\* The loop goes on while there is more of a file.
LEMMA GoesOnStep ==
  ASSUME FedInv, tool \in {"waiting", "reading"}, NEW r \in Replies, Carries(r), Answers(r),
         toTool # <<>>, toTool' = Tail(toTool), read' = read + 1, read' # PiecesOf(r),
         tool' = "reading", reply' = r, UNCHANGED <<result, licences, vars, asked, outgoing>>,
         \/ pc \in Stopped \/ licences \subseteq held \/ r = Yes
  PROVE  InOrder'
  <1> USE DEF FedInv, InOrder
  <1>1. UNCHANGED <<argv, pc, peerKey, peerOpen, inbox, state, libpath, held>>
    BY DEF vars
  <1>2. /\ toTool' \in Seq(Records) /\ Carries(r)' /\ read' <= PiecesOf(r)
        /\ PiecesOf(r) \in 1..Pieces /\ Pieces \in Nat
    <2>1. Len(asked) \in 0..MaxCalls
      BY CallAssumption DEF ToolTypes
    <2>2. QED
      BY <1>1, <2>1, ReadOne, RecordsType, CallAssumption
  <1>3. read \in Nat /\ read' < PiecesOf(r) /\ r.command = "FILECONT"
    BY <1>2 DEF ToolTypes, PiecesOf
  <1>4. Flight'
    <2>1. Travelling # <<>>
      BY Moves DEF ToolTypes
    <2>2. pc \in Stopped \/ inbox = <<>>
      BY <2>1 DEF Flight, Gone
    <2>3. Answers(r)'
      BY <1>1, <1>3 DEF Answers, Call, Opened
    <2>4. Carries(reply)' /\ Answers(reply)' /\ read' < PiecesOf(reply)'
      BY <1>2, <1>3, <2>3 DEF Carries, Answers, PiecesOf, Record
    <2>5. QED
      BY <1>1, <1>3, <2>2, <2>4 DEF Flight
  <1>5. LibraryAsked'
    BY <1>1 DEF LibraryAsked, Opened, Gone
  <1>6. LicencesKept'
    BY <1>1, <1>3 DEF LicencesKept, Yes, Reply
  <1>7. FileAsAsked'
    BY DEF FileAsAsked
  <1>8. QED
    BY <1>4, <1>5, <1>6, <1>7

\* Reading a record: the first one of a reply, or a further one.
LEMMA ReadStep ==
  ASSUME FedInv, ReadsReply \/ ReadsMore
  PROVE  InOrder'
  <1> USE DEF FedInv, InOrder
  <1>0. toTool # <<>> /\ toTool' = Tail(toTool) /\ UNCHANGED <<vars, asked, outgoing>>
    BY DEF ReadsReply, ReadsMore
  <1>1. Travelling # <<>> /\ Head(toTool) = Travelling[1] /\ read \in Nat
    BY <1>0, Moves, CallAssumption DEF ToolTypes
  <1>2. ASSUME NEW r \in Replies, Carries(r), tool \in {"waiting", "reading"}
        PROVE  Head(toTool) = Record(r, read + 1)
    <2>1. Travelling \in Seq(Records) /\ 1 \in 1..Len(Travelling)
      BY <1>1, Moves DEF ToolTypes
    <2>2. QED
      BY <1>1, <1>2, <2>1 DEF Carries
  <1>3. CASE ReadsReply
    <2> DEFINE r == Travelling[1].reply
    <2>1. tool = "waiting" /\ read = 0 /\ r \in Replies /\ Carries(r) /\ Answers(r)
      BY <1>1, <1>3 DEF ReadsReply, Flight
    <2>2. Head(toTool) = Record(r, 1)
      BY <1>2, <2>1
    <2>3. \/ pc \in Stopped \/ licences \subseteq held
          \/ Call.api = "RETURNFEATURE" /\ r = Yes /\ licences \ {Call.arg} \subseteq held
      BY <2>1 DEF LicencesKept, Gone
    <2>4. /\ read' = 1
          /\ IF 1 = PiecesOf(r) THEN Returns(r, Judge(Call, r))
             ELSE tool' = "reading" /\ reply' = r /\ UNCHANGED <<result, licences>>
      <3>1. LET rec == Head(toTool)
            IN  ~(rec.piece > 1) /\ (rec.last <=> 1 = PiecesOf(r)) /\ rec.reply = r
        <4> HIDE DEF r
        <4>1. LET rec == Head(toTool)
              IN  rec.piece = 1 /\ (rec.last <=> 1 = PiecesOf(r)) /\ rec.reply = r
          BY <2>2, RecordFields
        <4>2. QED
          BY <4>1
      <3> HIDE DEF r
      <3>2. QED
        BY <1>3, <3>1 DEF ReadsReply
    <2> HIDE DEF r
    <2>5. CASE 1 = PiecesOf(r)
      BY <1>0, <2>1, <2>3, <2>4, <2>5, ReturnStep
    <2>6. CASE 1 # PiecesOf(r)
      BY <1>0, <2>1, <2>3, <2>4, <2>6, GoesOnStep
    <2>7. QED
      BY <2>5, <2>6
  <1>4. CASE ReadsMore
    <2>1. /\ tool = "reading" /\ reply \in Replies /\ Carries(reply) /\ Answers(reply)
          /\ reply.command = "FILECONT"
      BY <1>4 DEF ReadsMore, Flight
    <2>2. Head(toTool) = Record(reply, read + 1)
      BY <1>2, <2>1
    <2>3. pc \in Stopped \/ licences \subseteq held
      BY <2>1 DEF LicencesKept, Gone
    <2>4. /\ read' = read + 1
          /\ IF read' = PiecesOf(reply) THEN Returns(reply, Judge(Call, reply))
             ELSE UNCHANGED <<tool, reply, result, licences>>
      <3>1. Head(toTool).last <=> read + 1 = PiecesOf(reply)
        BY <2>2, RecordFields
      <3>2. QED
        BY <1>4, <3>1 DEF ReadsMore
    <2>5. CASE read' = PiecesOf(reply)
      BY <1>0, <2>1, <2>3, <2>4, <2>5, ReturnStep
    <2>6. CASE read' # PiecesOf(reply)
      BY <1>0, <2>1, <2>3, <2>4, <2>6, GoesOnStep
    <2>7. QED
      BY <2>5, <2>6
  <1>5. QED
    BY <1>3, <1>4

-----------------------------------------------------------------------------
(* The steps of the LVE.                                                     *)

\* A handler answers the call whose request it took, if the tool is still there.
LEMMA HandlesStep ==
  ASSUME KeyInv, FedInv, LveHandles
  PROVE  InOrder'
  <1> USE DEF FedInv, InOrder
  <1>0. TypeOK /\ ApprovedKey /\ Handle /\ outgoing = <<>> /\ UNCHANGED <<toolVars, toTool>>
    BY DEF KeyInv, LveHandles
  <1>1. /\ pc = "receive" /\ pc' \in {"receive", "killed", "crashed"}
        /\ UNCHANGED <<argv, peerKey, peerOpen>>
    BY <1>0, HandleControl
  <1>2. /\ UNCHANGED <<tool, asked, reply, read, result, licences, toTool>>
        /\ inbox # <<>> /\ inbox' = Tail(inbox)
    <2>1. \E m \in Requests : Reads(m)
      BY <1>0 DEF Handle, Reject, HandleVersion, HandleTools, HandleLib, HandleFeature,
         HandleReturnFeature, HandleLicense, HandleFile, Handles
    <2>2. QED
      BY <1>0, <2>1 DEF Reads, toolVars
  <1>3. CASE tool \in Gone
    BY <1>1, <1>2, <1>3 DEF Flight, LibraryAsked, LicencesKept, FileAsAsked, Gone
  <1>4. CASE tool \notin Gone
    <2>1. /\ tool = "waiting" /\ Travelling = <<>> /\ inbox = <<Request(Call)>> /\ read = 0
          /\ peerOpen /\ asked # <<>>
      BY <1>1, <1>2, <1>4 DEF Flight, Places, Stopped
    <2>2. Call \in Calls /\ Call' = Call /\ toTool = <<>>
      BY <1>2, <2>1, Moves DEF Call, ToolTypes
    <2>3. Serves(Call) /\ inbox' = <<>>
      BY <1>0, <1>2, <2>1, <2>2, HandlerServes
    <2>4. \A l : Opened(l)' <=> Opened(l)
      BY <1>2 DEF Opened
    <2>5. /\ outgoing' \in Seq(Records)
          /\ \/ outgoing' = <<>>
             \/ \E r \in Replies : sent' = <<r>> /\ Suits(Call, r) /\ outgoing' = RecordsOf(r)
      <3>1. Len(asked) \in 0..MaxCalls /\ <<>> \in Seq(Records)
        BY CallAssumption DEF ToolTypes
      <3>2. CASE sent' = <<>>
        BY <3>1, <3>2, WrittenRecords DEF LveHandles
      <3>3. CASE \E r \in Replies : sent' = <<r>> /\ Suits(Call, r)
        BY <3>1, <3>3, WrittenRecords, RecordsType DEF LveHandles
      <3>4. QED
        BY <2>3, <3>2, <3>3 DEF Serves
    <2>6. Travelling' = outgoing'
      BY <1>2, <2>2, <2>5 DEF Travelling
    <2>7. LibraryAsked'
      <3> SUFFICES ASSUME pc' \notin Stopped
                   PROVE  /\ state' # "VERSION" => \E i \in DOMAIN asked : asked[i].api = "VERSION"
                          /\ libpath' # NoPath => Opened(libpath')
        BY <1>2 DEF LibraryAsked, Opened
      <3>1. /\ state # "VERSION" => \E i \in DOMAIN asked : asked[i].api = "VERSION"
            /\ libpath # NoPath => Opened(libpath)
        BY <1>1, <1>4 DEF LibraryAsked, Stopped
      <3>2. Call = asked[Len(asked)] /\ Len(asked) \in DOMAIN asked /\ DOMAIN asked = 1..Len(asked)
        BY <2>1 DEF Call, ToolTypes
      <3>3. state' # "VERSION" => \E i \in DOMAIN asked : asked[i].api = "VERSION"
        BY <2>3, <3>1, <3>2 DEF Serves
      <3>4. ASSUME libpath' # libpath PROVE Opened(libpath')
        <4>1. Call.api = "LIB" /\ libpath' = Call.arg /\ state # "VERSION"
          BY <2>3, <3>4 DEF Serves
        <4>2. PICK i \in DOMAIN asked : asked[i].api = "VERSION"
          BY <3>1, <4>1
        <4>3. i < Len(asked)
          BY <3>2, <4>1, <4>2 DEF ToolTypes
        <4>4. QED
          BY <3>2, <4>1, <4>2, <4>3 DEF Opened
      <3>5. QED
        BY <3>1, <3>3, <3>4
    <2>8. Flight'
      <3>1. ASSUME NEW r \in Replies, Suits(Call, r), outgoing' = RecordsOf(r)
            PROVE  Travelling'[1].reply = r /\ Carries(r)' /\ Answers(r)'
        <4>1. /\ Len(outgoing') = PiecesOf(r) /\ PiecesOf(r) \in 1..Pieces /\ Pieces \in Nat
              /\ \A n \in 1..PiecesOf(r) : outgoing'[n] = Record(r, n)
          BY <3>1, RecordsType, CallAssumption DEF ToolTypes
        <4>2. outgoing'[1].reply = r
          BY <4>1 DEF Record
        <4>3. Carries(r)'
          BY <1>2, <2>1, <2>6, <4>1 DEF Carries, Record
        <4>4. r.command = "FILECONT" =>
                /\ Call.api = "FILE" /\ r.data[2] = Call.arg
                /\ Opened(r.data[1]) /\ peerKey \in TrustedKeys
          <5>1. libpath \in Data => libpath # NoPath
            BY DataAssumption
          <5>2. libpath # NoPath => Opened(libpath)
            BY <1>1, <1>4 DEF LibraryAsked, Stopped
          <5>3. QED
            BY <3>1, <5>1, <5>2, <1>0 DEF Suits, ApprovedKey
        <4>5. Answers(r)'
          BY <1>1, <2>2, <2>4, <3>1, <4>4 DEF Answers, Suits
        <4>6. QED
          BY <2>6, <4>2, <4>3, <4>5
      <3>2. Travelling' # <<>> =>
              (LET r == Travelling[1].reply IN r \in Replies /\ Carries(r) /\ Answers(r))'
        <4> SUFFICES ASSUME Travelling' # <<>>
                     PROVE  (LET r == Travelling[1].reply
                             IN r \in Replies /\ Carries(r) /\ Answers(r))'
          OBVIOUS
        <4>1. PICK r \in Replies : Suits(Call, r) /\ outgoing' = RecordsOf(r)
          BY <2>5, <2>6
        <4>2. Travelling'[1].reply = r /\ Carries(r)' /\ Answers(r)'
          BY <3>1, <4>1
        <4>3. QED
          BY <4>2 DEF Carries, Answers, PiecesOf, Record
      <3>3. QED
        BY <1>2, <2>1, <2>3, <3>2 DEF Flight
    <2>9. LicencesKept'
      <3> SUFFICES ASSUME pc' \notin Stopped PROVE LicencesKept'
        BY DEF LicencesKept
      <3>1. licences \subseteq held
        BY <1>1, <2>1 DEF LicencesKept, Stopped, Gone
      <3>2. CASE held \subseteq held'
        BY <1>2, <3>1, <3>2 DEF LicencesKept
      <3>3. CASE Call.api = "RETURNFEATURE" /\ sent' = <<Yes>> /\ held \ {Call.arg} \subseteq held'
        <4>1. FlattenSeq([i \in DOMAIN sent' |-> RecordsOf(sent'[i])]) = RecordsOf(Yes)
          BY <3>3, WrittenRecords
        <4>2. Len(asked) \in 0..MaxCalls /\ Yes \in Replies
          BY CallAssumption, ReplyTypes DEF ToolTypes
        <4>3. /\ Len(outgoing') = PiecesOf(Yes) /\ PiecesOf(Yes) \in 1..Pieces
              /\ outgoing'[1] = Record(Yes, 1) /\ Pieces \in Nat
          BY <4>1, <4>2, RecordsType, CallAssumption DEF LveHandles
        <4>4. Travelling' # <<>> /\ Travelling'[1].reply = Yes
          BY <2>6, <4>3 DEF Record
        <4>5. QED
          BY <1>2, <2>1, <2>2, <3>1, <3>3, <4>4 DEF LicencesKept
      <3>4. QED
        BY <2>3, <3>2, <3>3 DEF Serves
    <2>10. FileAsAsked'
      BY <1>2, <2>1 DEF FileAsAsked
    <2>11. QED
      BY <2>7, <2>8, <2>9, <2>10
  <1>5. QED
    BY <1>3, <1>4

\* Writing a record moves it along; an LVE that fails to write has no reader.
LEMMA WritesStep ==
  ASSUME FedInv, LveWrites \/ LveWriteFails \/ LveDies
  PROVE  InOrder'
  <1> USE DEF FedInv, InOrder
  <1>1. CASE LveWrites
    <2>1. UNCHANGED <<argv, pc, peerKey, peerOpen, inbox, state, libpath, held, tool, asked, reply,
                      read, result, licences, starved>>
      BY <1>1 DEF LveWrites, vars, toolVars
    <2>2. Travelling' = Travelling
      BY <1>1, Moves DEF LveWrites, Travelling, ToolTypes
    <2>3. Flight'
      BY <2>1, <2>2 DEF Flight, Carries, Answers, Opened, Record, PiecesOf, Call
    <2>4. LibraryAsked' /\ LicencesKept' /\ FileAsAsked'
      BY <2>1, <2>2, ZenonT(60) DEF LibraryAsked, LicencesKept, FileAsAsked, Opened, Call, RecordsOf
    <2>5. QED
      BY <2>3, <2>4
  <1>2. CASE LveWriteFails
    <2>1. tool \in Gone /\ UNCHANGED tool
      BY <1>2 DEF LveWriteFails, Places, toolVars
    <2>2. QED
      BY <2>1 DEF Flight, LibraryAsked, LicencesKept, FileAsAsked, Gone
  <1>3. CASE LveDies
    <2>1. /\ UNCHANGED <<argv, peerKey, peerOpen>>
          /\ UNCHANGED <<tool, asked, reply, read, result, licences, starved>>
          /\ pc' \in Stopped /\ outgoing' = <<>> /\ <<>> \in Seq(Records) /\ UNCHANGED toTool
      BY <1>3 DEF LveDies, Dies, process, peer, toolVars, Stopped
    <2>2. /\ Travelling' = toTool /\ Len(toTool) <= Len(Travelling)
          /\ \A i \in 1..Len(toTool) : Travelling[i] = toTool[i]
      BY <2>1 DEF Travelling, ToolTypes
    <2>3. \A r : Carries(r) => Carries(r)'
      <3>1. Len(toTool) \in Nat /\ Len(Travelling) \in Nat /\ read \in Int
        BY CallAssumption, Moves DEF ToolTypes
      <3>2. \A r : Carries(r) => read + Len(toTool) <= PiecesOf(r)
        <4>1. \A r : PiecesOf(r) \in Int
          BY CallAssumption DEF PiecesOf
        <4>2. QED
          BY <2>2, <3>1, <4>1 DEF Carries
      <3>3. /\ Travelling' = toTool /\ Len(toTool) <= Len(Travelling)
            /\ read' = read /\ asked' = asked
            /\ \A i \in 1..Len(toTool) : Travelling[i] = toTool[i] /\ i \in 1..Len(Travelling)
        BY <2>1, <2>2, <3>1
      <3>4. ASSUME NEW r, Carries(r)
            PROVE  \A i \in 1..Len(toTool) : toTool[i] = Record(r, read + i)
        BY <3>3, <3>4 DEF Carries
      <3>5. QED
        BY <3>2, <3>3, <3>4 DEF Carries, Record
    <2>4. \A r : Answers(r) => Answers(r)'
      BY <2>1 DEF Answers, Opened, Call
    <2>5. tool = "waiting" /\ Travelling' # <<>> =>
            (LET r == Travelling[1].reply IN r \in Replies /\ Carries(r) /\ Answers(r))'
      <3> SUFFICES ASSUME tool = "waiting", toTool # <<>>
                   PROVE  (LET r == Travelling[1].reply
                           IN r \in Replies /\ Carries(r) /\ Answers(r))'
        BY <2>2
      <3>1. Travelling # <<>> /\ Travelling[1] = toTool[1]
        BY <2>2 DEF ToolTypes, Travelling
      <3>2. PICK r \in Replies : r = toTool[1].reply /\ Carries(r) /\ Answers(r)
        BY <3>1 DEF Flight
      <3>3. Carries(r)' /\ Answers(r)' /\ Travelling'[1].reply = r
        BY <2>2, <2>3, <2>4, <3>2
      <3>4. QED
        BY <3>3 DEF Carries, Answers, PiecesOf, Record
    <2>6. tool = "reading" => (Carries(reply) /\ Answers(reply))'
      <3> SUFFICES ASSUME tool = "reading" PROVE (Carries(reply) /\ Answers(reply))'
        OBVIOUS
      <3>1. PICK r : r = reply /\ Carries(r) /\ Answers(r)
        BY DEF Flight
      <3>2. Carries(r)' /\ Answers(r)' /\ reply' = r
        BY <2>1, <2>3, <2>4, <3>1
      <3>3. QED
        BY <3>2 DEF Carries, Answers, PiecesOf, Record
    <2>7. Travelling = <<>> => Travelling' = <<>>
      BY <2>2, Moves DEF ToolTypes
    <2>8. Flight'
      BY <2>1, <2>5, <2>6, <2>7 DEF Flight, PiecesOf
    <2>9. LibraryAsked' /\ LicencesKept' /\ FileAsAsked'
      BY <2>1 DEF LibraryAsked, LicencesKept, FileAsAsked, Opened, Call, RecordsOf
    <2>10. QED
      BY <2>8, <2>9
  <1>4. QED
    BY <1>1, <1>2, <1>3

\* The LVE runs on its own before the first request and after the tool has gone;
\* in between it only judges the key.
LEMMA RunsStep ==
  ASSUME FedInv, KeyInv, AnswerInv, LveRuns
  PROVE  InOrder'
  <1> USE DEF FedInv, InOrder
  <1>0. /\ SslSetup \/ Handshake \/ ValidatePubkey \/ ReadEof \/ Shutdown
        /\ UNCHANGED <<tool, asked, reply, read, result, licences, starved, toTool, outgoing>>
    BY DEF LveRuns, toolVars, pipe
  <1>1. UNCHANGED <<argv, peerOpen, inbox, held, state>>
    BY <1>0 DEF SslSetup, Handshake, ValidatePubkey, ReadEof, Shutdown, process, peer
  <1>2. Travelling' = Travelling
    BY <1>0 DEF Travelling
  <1>3. CASE tool \in Gone
    BY <1>0, <1>3 DEF Flight, LibraryAsked, LicencesKept, FileAsAsked, Gone
  <1>4. pc \notin Stopped
    BY <1>0 DEF SslSetup, Handshake, ValidatePubkey, ReadEof, Shutdown, Stopped
  <1>5. CASE tool = "connecting"
    <2>1. Flight'
      BY <1>0, <1>1, <1>2, <1>4, <1>5 DEF Flight, Gone
    <2>2. pc' \in Stopped \/ UNCHANGED libpath
      BY <1>0 DEF SslSetup, Handshake, ValidatePubkey, ReadEof, Shutdown, Stopped, ctx
    <2>3. LibraryAsked' /\ LicencesKept' /\ FileAsAsked'
      BY <1>0, <1>1, <1>4, <1>5, <2>2 DEF LibraryAsked, LicencesKept, FileAsAsked, Opened, Gone
    <2>4. QED
      BY <2>1, <2>3
  <1>6. CASE tool \in {"idle", "waiting", "reading"}
    <2>1. ValidatePubkey
      BY <1>0, <1>6 DEF Places, Gone, Stopped, SslSetup, Handshake, ReadEof, Shutdown
    <2>2. UNCHANGED <<peerKey, libpath>> /\ pc' \in {"receive", "crashed"}
      BY <2>1 DEF ValidatePubkey, peer
    <2>3. Flight'
      BY <1>0, <1>1, <1>2, <1>4, <1>6, <2>2
         DEF Flight, Carries, Answers, Opened, Record, PiecesOf, Call, Gone
    <2>4. LibraryAsked' /\ LicencesKept' /\ FileAsAsked'
      BY <1>0, <1>1, <1>2, <1>4, <1>6, <2>2, ZenonT(60)
         DEF LibraryAsked, LicencesKept, FileAsAsked, Opened, Call, RecordsOf, Gone
    <2>5. QED
      BY <2>3, <2>4
  <1>7. QED
    BY <1>3, <1>5, <1>6 DEF ToolTypes, Waiting, Gone

-----------------------------------------------------------------------------
(* What holds of every session.                                              *)

\* The types and places do not depend on the order of calls and replies: each
\* record, reply and request is one of its kind.
LEMMA LveTypes ==
  ASSUME TypeOK, ToolTypes, Places, LveSteps \/ LveDies
  PROVE  ToolTypes' /\ Places'
  <1>1. UNCHANGED <<tool, asked, reply, read, result, licences, starved>>
    BY DEF LveSteps, LveHandles, LveRuns, LveWrites, LveWriteFails, LveDies, toolVars
  <1>2. <<>> \in Seq(Records)
    OBVIOUS
  <1>3. CASE LveHandles
    <2>1. Handle /\ outgoing = <<>> /\ UNCHANGED toTool
      BY <1>3 DEF LveHandles
    <2>2. pc = "receive" /\ pc' \in {"receive", "killed", "crashed"} /\ UNCHANGED <<argv, peerOpen>>
      BY <2>1, HandleControl
    <2>3. CASE ~peerOpen
      <3>1. outgoing' = <<>>
        BY <1>3, <2>1, <2>3, SilentHandler, WrittenRecords DEF LveHandles
      <3>2. QED
        BY <1>1, <1>2, <2>1, <2>2, <3>1 DEF ToolTypes, Places, Stopped
    <2>4. CASE peerOpen
      <3>1. PICK m \in Requests : Reads(m)
        BY <2>1 DEF Handle, Reject, HandleVersion, HandleTools, HandleLib, HandleFeature,
           HandleReturnFeature, HandleLicense, HandleFile, Handles
      <3>2. PICK c \in Calls : Head(inbox) = Request(c)
        BY <3>1, CallAssumption DEF Reads
      <3>3. Serves(c)
        BY <2>1, <2>4, <3>2, HandlerServes
      <3>4. Len(asked) \in 0..MaxCalls
        BY CallAssumption DEF ToolTypes
      <3>5. outgoing' \in Seq(Records) /\ (sent' = <<>> => outgoing' = <<>>)
        <4>1. CASE sent' = <<>>
          BY <1>2, <1>3, <4>1, WrittenRecords DEF LveHandles
        <4>2. CASE \E r \in Replies : sent' = <<r>>
          BY <1>3, <3>4, <4>2, WrittenRecords, RecordsType DEF LveHandles
        <4>3. QED
          BY <3>3, <4>1, <4>2 DEF Serves
      <3>6. pc' = pc \/ outgoing' = <<>>
        BY <3>3, <3>5 DEF Serves
      <3>7. QED
        BY <1>1, <2>1, <2>2, <3>5, <3>6 DEF ToolTypes, Places, Stopped
    <2>5. QED
      BY <2>3, <2>4
  <1>4. CASE LveRuns
    <2>1. /\ SslSetup \/ Handshake \/ ValidatePubkey \/ ReadEof \/ Shutdown
          /\ outgoing = <<>> /\ UNCHANGED <<outgoing, toTool>>
      BY <1>4 DEF LveRuns, pipe
    <2>2. UNCHANGED <<argv, peerOpen>>
      BY <2>1 DEF SslSetup, Handshake, ValidatePubkey, ReadEof, Shutdown, process, peer
    <2>3. tool \in {"idle", "waiting", "reading"} => pc' \in {"receive", "crashed"}
      BY <2>1 DEF Places, Gone, Stopped, SslSetup, Handshake, ReadEof, Shutdown, ValidatePubkey
    <2>4. QED
      BY <1>1, <2>1, <2>2, <2>3 DEF ToolTypes, Places, Stopped
  <1>5. CASE LveWrites
    <2>1. /\ toTool' \in Seq(Records) /\ outgoing' \in Seq(Records)
          /\ pc \notin Stopped /\ UNCHANGED <<argv, pc, peerOpen>>
      BY <1>5 DEF LveWrites, ToolTypes, vars
    <2>2. QED
      BY <1>1, <2>1 DEF ToolTypes, Places
  <1>6. CASE LveWriteFails \/ LveDies
    <2>1. /\ outgoing' = <<>> /\ UNCHANGED <<argv, peerOpen, toTool>>
          /\ pc' = pc \/ pc' \in Stopped
      BY <1>6 DEF LveWriteFails, LveDies, Dies, process, peer, vars, Stopped
    <2>2. QED
      BY <1>1, <1>2, <2>1 DEF ToolTypes, Places
  <1>7. QED
    BY <1>3, <1>4, <1>5, <1>6 DEF LveSteps

\* Where the connection is over nothing is left to have a wrong type.
LEMMA OverTypes ==
  ASSUME ToolTypes, Places, PeerCloses, Over("closed") \/ Over("killed"), UNCHANGED pipe
  PROVE  ToolTypes' /\ Places'
  <1>1. <<>> \in Seq(Calls) /\ Len(<<>>) = 0 /\ 0 <= MaxCalls
    BY CallAssumption
  <1>2. ToolTypes'
    <2>1. /\ tool' \in Gone /\ starved' \in BOOLEAN /\ UNCHANGED <<outgoing, toTool>>
          /\ asked' = <<>> /\ reply' = NoReply /\ read' = 0 /\ result' = "none" /\ licences' = {}
      BY DEF Over, Gone, pipe
    <2>2. QED
      BY <1>1, <2>1 DEF ToolTypes
  <1>3. Places'
    BY DEF Over, Places, Gone, PeerCloses, process, pipe
  <1>4. QED
    BY <1>2, <1>3

\* A call returns what its reply amounts to.
LEMMA ReturnTypes ==
  ASSUME ToolTypes, asked # <<>>, NEW r \in Replies \cup {NoReply}, NEW res,
         res = "failed" \/ res = Judge(Call, r), Returns(r, res)
  PROVE  /\ tool' = "idle" /\ reply' \in Replies \cup {NoReply} /\ licences' \subseteq Data
         /\ result' \in {"none", "ok", "failed", "no_license", "not_simplified"}
  <1>1. Call \in Calls
    BY DEF ToolTypes, Call
  <1>2. Call.arg \in Data
    BY <1>1, RequestOf
  <1>3. licences' \subseteq Data
    BY <1>2 DEF Returns, ToolTypes
  <1>4. QED
    BY <1>3, Judged DEF Returns

\* The same of the steps of the tool.
LEMMA ToolStepTypes ==
  ASSUME ToolTypes, Places,
         \/ ToolReads \/ ReadFails \/ ReadStarves \/ CallsLve \/ RequestStarves
         \/ CallsDeadLve \/ Frees \/ ToolDies
  PROVE  ToolTypes' /\ Places'
  <1>1. CASE PeerCloses /\ (Over("closed") \/ Over("killed")) /\ UNCHANGED pipe
    BY <1>1, OverTypes
  <1>2. CASE Connects /\ tool' = "idle"
    <2>1. /\ tool = "connecting" /\ pc \in {"validate", "receive"}
          /\ UNCHANGED <<vars, asked, reply, read, result, licences, starved, pipe>>
      BY <1>2 DEF Connects, Over
    <2>2. QED
      BY <1>2, <2>1 DEF ToolTypes, Places, pipe, vars, Gone, Stopped
  <1>3. CASE ReadsReply \/ ReadsMore \/ ReadStarves \/ (ReadFails /\ tool = "waiting")
    <2>1. /\ tool \in {"waiting", "reading"} /\ asked # <<>>
          /\ UNCHANGED <<argv, pc, peerOpen, asked, outgoing>>
      BY <1>3 DEF ReadsReply, ReadsMore, ReadStarves, ReadFails, Places, vars, pipe
    <2>2. toTool' \in Seq(Records) /\ read' \in Nat /\ starved' \in BOOLEAN
      <3>1. toTool # <<>> => Tail(toTool) \in Seq(Records)
        BY DEF ToolTypes
      <3>2. toTool' = toTool \/ (toTool # <<>> /\ toTool' = Tail(toTool))
        BY <1>3 DEF ReadsReply, ReadsMore, ReadStarves, ReadFails, pipe
      <3>3. read' \in {read, 1, read + 1} /\ starved' \in {starved, TRUE}
        BY <1>3 DEF ReadsReply, ReadsMore, ReadStarves, ReadFails
      <3>4. toTool' \in Seq(Records)
        BY <3>1, <3>2 DEF ToolTypes
      <3>5. read' \in Nat
        BY <3>3 DEF ToolTypes
      <3>6. starved' \in BOOLEAN
        BY <3>3, Zenon DEF ToolTypes
      <3>7. QED
        BY <3>4, <3>5, <3>6
    <2>3. toTool # <<>> => Head(toTool).reply \in Replies
      <3>1. toTool # <<>> => Head(toTool) \in Records
        BY DEF ToolTypes
      <3>2. QED
        BY <3>1 DEF Records
    <2>4. \/ \E r \in Replies \cup {NoReply} : Returns(r, "failed") \/ Returns(r, Judge(Call, r))
          \/ /\ tool' = "reading" /\ reply' \in Replies \cup {NoReply}
             /\ UNCHANGED <<result, licences>>
      BY <1>3, <2>3 DEF ReadsReply, ReadsMore, ReadStarves, ReadFails, ToolTypes
    <2>5. /\ tool' \in {"idle", "reading"} /\ reply' \in Replies \cup {NoReply}
          /\ result' \in {"none", "ok", "failed", "no_license", "not_simplified"}
          /\ licences' \subseteq Data
      <3>1. CASE /\ tool' = "reading" /\ reply' \in Replies \cup {NoReply}
                 /\ UNCHANGED <<result, licences>>
        BY <3>1 DEF ToolTypes
      <3>2. CASE \E r \in Replies \cup {NoReply} :
                   Returns(r, "failed") \/ Returns(r, Judge(Call, r))
        <4>1. PICK r \in Replies \cup {NoReply} :
                Returns(r, "failed") \/ Returns(r, Judge(Call, r))
          BY <3>2
        <4>2. QED
          BY <2>1, <4>1, ReturnTypes
      <3>3. QED
        BY <2>4, <3>1, <3>2
    <2>6. ToolTypes'
      BY <2>1, <2>2, <2>5 DEF ToolTypes, Waiting
    <2>7. Places'
      BY <2>1, <2>5 DEF Places, Gone
    <2>8. QED
      BY <2>6, <2>7
  <1>4. CASE /\ ~(PeerCloses /\ Over("killed") /\ UNCHANGED pipe)
             /\ CallsLve \/ RequestStarves \/ CallsDeadLve
    <2>1. PICK c \in Calls :
            /\ tool = "idle" /\ Len(asked) < MaxCalls /\ asked' = Append(asked, c)
            /\ reply' = NoReply /\ read' = 0 /\ tool' \in {"waiting", "idle"}
            /\ result' \in {"none", "failed"} /\ starved' \in BOOLEAN
            /\ UNCHANGED <<argv, pc, peerOpen, licences, outgoing, toTool>>
      BY <1>4, CallAssumption
         DEF CallsLve, RequestStarves, CallsDeadLve, ToolTypes, process, vars, pipe
    <2>2. asked' \in Seq(Calls) /\ Len(asked') <= MaxCalls /\ asked' # <<>>
      BY <2>1, CallAssumption DEF ToolTypes
    <2>3. QED
      BY <2>1, <2>2 DEF ToolTypes, Places, Waiting, Gone
  <1>5. QED
    BY <1>1, <1>2, <1>3, <1>4
       DEF ToolReads, Connects, ReadsIntoNothing, ReadFails, CallsDeadLve, Frees, ToolDies

\* Every step keeps the types and places.
LEMMA TypesStep ==
  ASSUME TypeOK, ToolTypes, Places, [SessionNext]_sessionVars
  PROVE  ToolTypes' /\ Places'
  <1>1. CASE SessionOver \/ UNCHANGED sessionVars
    BY <1>1 DEF SessionOver, sessionVars, vars, toolVars, pipe, ToolTypes, Places
  <1>2. QED
    BY <1>1, LveTypes, ToolStepTypes DEF SessionNext

\* Every step of either process keeps calls and replies in order, unless memory
\* fails the tool in it.
LEMMA OrderStep ==
  ASSUME KeyInv, AnswerInv, FedInv, [SessionNext]_sessionVars
  PROVE  starved' \/ InOrder'
  <1>1. CASE LveHandles
    BY <1>1, HandlesStep
  <1>2. CASE LveRuns
    BY <1>2, RunsStep
  <1>3. CASE LveWrites \/ LveWriteFails \/ LveDies
    BY <1>3, WritesStep
  <1>4. CASE Connects \/ ReadFails \/ Frees \/ ToolDies
    BY <1>4, ConnectionStep
  <1>5. CASE ReadsReply \/ ReadsMore
    BY <1>5, ReadStep
  <1>6. CASE CallsLve \/ CallsDeadLve
    BY <1>6, CallStep
  <1>7. CASE RequestStarves \/ ReadStarves
    BY <1>7 DEF RequestStarves, ReadStarves
  <1>8. CASE ReadsIntoNothing
    BY <1>8, OverStep DEF ReadsIntoNothing, PeerCloses, Gone
  <1>9. CASE SessionOver \/ UNCHANGED sessionVars
    <2>1. UNCHANGED sessionVars
      BY <1>9 DEF SessionOver
    <2>2. /\ UNCHANGED <<argv, pc, peerKey, peerOpen, inbox, state, libpath, held>>
          /\ UNCHANGED <<tool, asked, reply, read, result, licences, starved, outgoing, toTool>>
      BY <2>1 DEF sessionVars, vars, toolVars, pipe
    <2>3. Flight'
      BY <2>2
         DEF FedInv, InOrder, Flight, Travelling, Carries, Answers, Opened, Record, PiecesOf, Call
    <2>4. LibraryAsked' /\ LicencesKept' /\ FileAsAsked'
      BY <2>2 DEF FedInv, InOrder, LibraryAsked, LicencesKept, FileAsAsked, Travelling, Opened, Call,
         RecordsOf
    <2>5. QED
      BY <2>3, <2>4 DEF InOrder
  <1>10. QED
    BY <1>1, <1>2, <1>3, <1>4, <1>5, <1>6, <1>7, <1>8, <1>9 DEF SessionNext, LveSteps, ToolReads

\* Where memory has failed the tool, nothing but the end of the connection
\* forgets it.
LEMMA StarvedLasts ==
  ASSUME starved = TRUE, [SessionNext]_sessionVars
  PROVE  starved' = TRUE \/ InOrder'
  <1>1. CASE Over("closed") \/ Over("killed")
    <2>1. ~peerOpen' => InOrder'
      BY <1>1, OverStep DEF Gone
    <2>2. QED
      BY <1>1, <2>1 DEF Over, Gone, InOrder, Flight, LibraryAsked, LicencesKept, FileAsAsked
  <1>2. CASE UNCHANGED starved \/ starved' = TRUE
    BY <1>2
  <1>3. QED
    BY <1>1, <1>2
       DEF SessionNext, LveSteps, ToolReads, LveHandles, LveRuns, LveWrites, LveWriteFails, LveDies,
           Connects, ReadsReply, ReadsMore, ReadsIntoNothing, ReadFails, ReadStarves, CallsLve,
           RequestStarves, CallsDeadLve, Frees, ToolDies, SessionOver, sessionVars, toolVars

\* Every step of either process keeps the invariant.
LEMMA SInvStep == SInv /\ [SessionNext]_sessionVars => SInv'
  <1> SUFFICES ASSUME SInv, [SessionNext]_sessionVars PROVE SInv'
    OBVIOUS
  <1>1. KeyInv' /\ AnswerInv'
    BY PeerStep, KeyStep, AnswerStep DEF SInv
  <1>2. ToolTypes' /\ Places'
    BY TypesStep DEF SInv, KeyInv, ToolInv
  <1>3. starved' \/ InOrder'
    <2>1. CASE starved
      BY <2>1, StarvedLasts DEF SInv, ToolInv, ToolTypes
    <2>2. CASE InOrder
      BY <2>2, OrderStep DEF SInv, ToolInv, FedInv
    <2>3. QED
      BY <2>1, <2>2 DEF SInv, ToolInv
  <1>4. QED
    BY <1>1, <1>2, <1>3 DEF SInv, ToolInv

\* The invariant holds before the handshake.
LEMMA SInvInit == SessionInit => SInv
  <1> SUFFICES ASSUME SessionInit PROVE SInv
    OBVIOUS
  <1>1. Init
    BY DEF SessionInit
  <1>2. KeyInv
    BY <1>1, TypeInit, NoContent
       DEF Init, KeyInv, QuietBefore, ApprovedKey, DeliveredToTrustedTool, DeliversFile
  <1>3. AnswerInv
    BY <1>1, AnswerInit
  <1>4. ToolTypes
    <2>1. <<>> \in Seq(Calls) /\ Len(<<>>) = 0 /\ <<>> \in Seq(Records)
      OBVIOUS
    <2>2. 0 <= MaxCalls
      BY CallAssumption
    <2>3. QED
      BY <2>1, <2>2 DEF SessionInit, ToolTypes, Waiting
  <1>5. Places
    BY <1>1 DEF SessionInit, Init, Places, Gone
  <1>6. Flight
    BY <1>1 DEF SessionInit, Init, Flight, Travelling
  <1>7. LibraryAsked /\ LicencesKept /\ FileAsAsked
    BY <1>1 DEF SessionInit, Init, LibraryAsked, LicencesKept, FileAsAsked
  <1>8. QED
    BY <1>2, <1>3, <1>4, <1>5, <1>6, <1>7 DEF SInv, ToolInv, InOrder

\* The invariant holds throughout a session.
LEMMA SessionInvariant == SessionSpec => []SInv
  BY SInvInit, SInvStep, PTL DEF SessionSpec

\* Both processes and the pipes between them keep their types.
THEOREM SessionTypeCorrect == SessionSpec => []SessionTypeOK
  <1>1. SInv => SessionTypeOK
    <2> SUFFICES ASSUME ToolTypes PROVE SessionTypeOK
      BY DEF SInv, ToolInv
    <2>1. ASSUME NEW s \in Seq(Records), NEW i \in DOMAIN s
          PROVE  s[i].reply \in Replies /\ s[i].piece \in 1..Pieces /\ s[i].to \in 0..MaxCalls
      <3>1. s[i] \in Records
        BY <2>1
      <3>2. QED
        BY <3>1 DEF Records
    <2>2. QED
      BY <2>1 DEF ToolTypes, SessionTypeOK
  <1>2. QED
    BY <1>1, SessionInvariant, PTL

\* A session is a behaviour of the LVE with a peer as LveServer specifies it,
\* for every tool that keeps to the library's calls.
THEOREM SessionIsAPeer == SessionSpec => ToolIsAPeer
  <1>1. SessionInit => Init
    BY DEF SessionInit
  <1>2. QED
    BY <1>1, SessionInvariant, PeerStep, PTL DEF SessionSpec, ToolIsAPeer, Spec

\* Calls and replies stay in step, for every number of records and every room
\* of the pipe, whichever process dies.
THEOREM CallsInStep == SessionSpec => []InStep
  <1>1. SInv => InStep
    <2> SUFFICES ASSUME SInv, ~starved PROVE InStep
      BY DEF InStep
    <2> USE DEF SInv, ToolInv, InOrder
    <2>1. ASSUME tool \notin Gone, NEW i \in DOMAIN Travelling PROVE Travelling[i].to = Len(asked)
      <3>1. i \in 1..Len(Travelling) /\ Travelling # <<>>
        BY <2>1, Moves DEF ToolTypes
      <3>2. PICK r : Carries(r)
        BY <2>1, <3>1 DEF Flight, ToolTypes, Waiting
      <3>3. Travelling[i] = Record(r, read + i)
        BY <3>1, <3>2 DEF Carries
      <3>4. QED
        BY <3>3 DEF Record
    <2>2. /\ \A i \in DOMAIN toTool : i \in DOMAIN Travelling /\ Travelling[i] = toTool[i]
          /\ \A i \in DOMAIN outgoing :
               Len(toTool) + i \in DOMAIN Travelling /\ Travelling[Len(toTool) + i] = outgoing[i]
      BY DEF ToolTypes, Travelling
    <2>3. tool = "idle" => outgoing = <<>> /\ toTool = <<>> /\ (inbox = <<>> \/ pc \in Stopped)
      BY Moves DEF Flight, Gone, ToolTypes
    <2>4. QED
      BY <2>1, <2>2, <2>3 DEF InStep
  <1>2. QED
    BY <1>1, SessionInvariant, PTL

\* What the program believes it has the LVE holds for it.
THEOREM BelievedLicencesHeld == SessionSpec => []LicencesAreHeld
  <1>1. SInv => LicencesAreHeld
    BY DEF SInv, ToolInv, InOrder, LicencesKept, LicencesAreHeld, Gone
  <1>2. QED
    BY <1>1, SessionInvariant, PTL

\* A FILE call that succeeds returned the whole of the file it asked for, from a
\* library opened on this connection, to a trusted tool.
THEOREM FileReturnedAsAsked == SessionSpec => []FileAsAsked
  <1>1. SInv => FileAsAsked
    BY DEF SInv, ToolInv, InOrder, FileAsAsked
  <1>2. QED
    BY <1>1, SessionInvariant, PTL
================================================================================
