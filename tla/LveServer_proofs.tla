--------------------------- MODULE LveServer_proofs ---------------------------
(***************************************************************************)
(* What holds of the LVE for every set of keys, libraries, features and      *)
(* messages: its type invariant, and that file contents reach only a trusted *)
(* tool, and only under the global licence.                                  *)
(***************************************************************************)
EXTENDS LveServer, TLAPS

-----------------------------------------------------------------------------
(* Lemmas on the protocol and on replies.                                    *)

\* The body a parsed command carries is a body of the wire message or absent
\* (mlle_parse_command, extract_data).
LEMMA ParsedData ==
  ASSUME NEW m \in Requests
  PROVE  ParsedCommand(m).data \in Data \cup {NoBody}
  BY PeerAssumption DEF ParsedCommand, WireMessages

\* The state table only yields session states (mlle_next_state).
LEMMA NextStateType ==
  ASSUME NEW s \in SessionStates, NEW c, NextState(s, c) # Invalid
  PROVE  NextState(s, c) \in SessionStates
  BY DEF NextState, SessionStates, Invalid

\* Each reply the handlers build is a reply of the protocol.
LEMMA ReplyTypes ==
  /\ Yes \in Replies /\ No \in Replies /\ NotSimple \in Replies
  /\ \A n \in Nat : Version(n) \in Replies /\ Error(n) \in Replies
  /\ \A p, f : <<p, f>> \in Readable => FileCont(p, f) \in Replies
  BY DataAssumption
     DEF Replies, Reply, Yes, No, NotSimple, Version, Error, FileCont

\* Writing replies keeps pc and sent to their types, and writes those replies
\* or none (ssl_write_message).
LEMMA EmitType ==
  ASSUME pc \in PcValues, NEW STATE rs, rs \in Seq(Replies), Emit(rs)
  PROVE  /\ pc' \in PcValues /\ sent' \in Seq(Replies)
         /\ sent' = rs \/ sent' = <<>>
         /\ pc' = pc \/ pc' \in {"receive", "killed"}
  <1>1. <<>> \in Seq(Replies)
    OBVIOUS
  <1>2. "receive" \in PcValues /\ "killed" \in PcValues
    BY DEF PcValues, Stopped
  <1>3. CASE Starved(rs) /\ sent' = <<>> /\ pc' = pc
    BY <1>1, <1>3
  <1>4. CASE (peerOpen \/ rs = <<>>) /\ sent' = rs /\ pc' = pc
    BY <1>4
  <1>5. CASE ~(peerOpen \/ rs = <<>>) /\ sent' = <<>> /\ pc' \in {"receive", "killed"}
    BY <1>1, <1>2, <1>5
  <1>6. QED
    BY <1>3, <1>4, <1>5 DEF Emit

\* Reading a message consumes it (the loop of mlle_lve_receive).
LEMMA ReadsType ==
  ASSUME TypeOK, NEW m \in Requests, Reads(m)
  PROVE  /\ inbox' \in Seq(Requests) /\ handled' \in Requests
         /\ pc = "receive"
         /\ UNCHANGED <<argv, exitCode, ssl, peerKey, peerOpen>>
  BY DEF TypeOK, Reads, process

-----------------------------------------------------------------------------
(* Type correctness.                                                        *)

\* The licence manager is created for a library or for the missing one.
LEMMA LicenseType ==
  ASSUME TypeOK, NEW STATE path, path \in Data \cup {NoPath}
  PROVE  /\ SetupLicensing(path) \/ SetupFails
              => licMgr' \in [libpath : Data \cup {NoPath}] \cup {NoLicense}
         /\ \A f : CheckoutFeature(f) \/ CheckinFeature(f)
              => held' \subseteq Data /\ granted' \subseteq Data
  <1>1. licMgr \in [libpath : Data \cup {NoPath}] \cup {NoLicense}
    BY DEF TypeOK
  <1>2. [libpath |-> path] \in [libpath : Data \cup {NoPath}]
    OBVIOUS
  <1>3. held \subseteq Data /\ granted \subseteq Data /\ Licensed \subseteq Data
    BY DataAssumption DEF TypeOK
  <1>4. QED
    BY <1>1, <1>2, <1>3 DEF SetupLicensing, SetupFails, CheckoutFeature, CheckinFeature

\* Every way out of mlle_lve_libpath keeps the context to its types.
LEMMA LibType ==
  ASSUME TypeOK, NEW STATE data, data \in Data \cup {NoBody}, NEW STATE length,
         \/ LibMissing(data, length) \/ LibWithoutContext(data, length)
         \/ LibUnlicensed(data, length) \/ LibAccepted(data, length)
  PROVE  /\ libpath' \in Data \cup {NoPath}
         /\ approved' \in BOOLEAN
         /\ errType' \in ErrorIds
         /\ licMgr' \in [libpath : Data \cup {NoPath}] \cup {NoLicense}
         /\ crContext' \in Data \cup {NoContext}
         /\ held' \subseteq Data /\ granted' \subseteq Data
  <1> USE DEF licence
  <1>1. /\ libpath \in Data \cup {NoPath} /\ approved \in BOOLEAN /\ errType \in ErrorIds
        /\ licMgr \in [libpath : Data \cup {NoPath}] \cup {NoLicense}
        /\ crContext \in Data \cup {NoContext}
        /\ held \subseteq Data /\ granted \subseteq Data
    BY DEF TypeOK
  <1>2. /\ FileNotFound \in ErrorIds /\ OtherError \in ErrorIds /\ LicenseError \in ErrorIds
    BY DEF FileNotFound, OtherError, LicenseError, ErrorIds
  <1>3. CASE LibMissing(data, length)
    BY <1>1, <1>2, <1>3 DEF LibMissing
  <1>4. CASE LibWithoutContext(data, length)
    BY <1>1, <1>2, <1>4 DEF LibWithoutContext
  <1>5. CASE LibUnlicensed(data, length)
    <2>1. data \in Data
      BY <1>5 DEF LibUnlicensed
    <2>2. licMgr' \in [libpath : Data \cup {NoPath}] \cup {NoLicense}
      BY <1>5, <2>1, LicenseType DEF LibUnlicensed
    <2>3. QED
      BY <1>1, <1>2, <1>5, <2>1, <2>2 DEF LibUnlicensed
  <1>6. CASE LibAccepted(data, length)
    <2>1. data \in Data
      BY <1>6 DEF LibAccepted
    <2>2. /\ licMgr' \in [libpath : Data \cup {NoPath}] \cup {NoLicense}
          /\ held' \subseteq Data /\ granted' \subseteq Data
      BY <1>1, <1>6, <2>1, LicenseType DEF LibAccepted
    <2>3. errType' \in ErrorIds /\ UNCHANGED approved
      BY <1>1, <1>2, <1>6 DEF LibAccepted
    <2>4. QED
      BY <1>1, <1>6, <2>1, <2>2, <2>3 DEF LibAccepted
  <1>7. QED
    BY <1>3, <1>4, <1>5, <1>6

\* The handlers of mlle_lve_handle_command keep the types.
LEMMA HandleType == TypeOK /\ Handle => TypeOK'
  <1> SUFFICES ASSUME TypeOK, Handle PROVE TypeOK'
    OBVIOUS
  <1> USE ReplyTypes DEF ctx, licence, process, peer, history
  <1>0. pc \in PcValues /\ libpath \in Data \cup {NoPath} /\ errType \in Nat
    BY DEF TypeOK, ErrorIds
  <1>1. CASE Reject
    <2>1. PICK m \in Requests :
            /\ Reads(m) /\ Emit(<<Error(NotUnderstood)>>)
            /\ UNCHANGED <<state, ctx, held, granted>>
      BY <1>1 DEF Reject
    <2>2. <<Error(NotUnderstood)>> \in Seq(Replies)
      BY DEF NotUnderstood
    <2>3. pc' \in PcValues /\ sent' \in Seq(Replies)
      BY <1>0, <2>1, <2>2, EmitType
    <2>4. QED
      BY <2>1, <2>3, ReadsType DEF TypeOK
  <1>2. CASE HandleVersion
    <2>1. PICK m \in Requests :
            /\ Handles(m, "VERSION")
            /\ \/ state' = "VERSION" /\ Emit(<<Error(VersionTooLow)>>)
               \/ state' = NextState(state, "VERSION") /\ Emit(<<Version(MaxProtocolVersion)>>)
            /\ UNCHANGED <<ctx, held, granted>>
      BY <1>2 DEF HandleVersion
    <2>2. /\ <<Error(VersionTooLow)>> \in Seq(Replies)
          /\ <<Version(MaxProtocolVersion)>> \in Seq(Replies)
      BY DEF VersionTooLow, MaxProtocolVersion
    <2>3. pc' \in PcValues /\ sent' \in Seq(Replies)
      BY <1>0, <2>1, <2>2, EmitType
    <2>4. state' \in SessionStates
      BY <2>1, NextStateType DEF Handles, TypeOK, SessionStates
    <2>5. Reads(m)
      BY <2>1 DEF Handles
    <2>6. QED
      BY <2>1, <2>3, <2>4, <2>5, ReadsType DEF TypeOK
  <1>3. CASE HandleTools
    <2>1. PICK m \in Requests :
            /\ Handles(m, "TOOLS") /\ state' = NextState(state, "TOOLS")
            /\ Emit(<<Version(4)>>) /\ UNCHANGED <<ctx, held, granted>>
      BY <1>3 DEF HandleTools
    <2>2. <<Version(4)>> \in Seq(Replies)
      OBVIOUS
    <2>3. pc' \in PcValues /\ sent' \in Seq(Replies)
      BY <1>0, <2>1, <2>2, EmitType
    <2>4. state' \in SessionStates /\ Reads(m)
      BY <2>1, NextStateType DEF Handles, TypeOK
    <2>5. QED
      BY <2>1, <2>3, <2>4, ReadsType DEF TypeOK
  <1>4. CASE HandleLib
    <2> DEFINE data(m) == ParsedCommand(m).data
               length(m) == ParsedCommand(m).length
    <2>1. PICK m \in Requests :
            /\ Handles(m, "LIB") /\ state' = NextState(state, "LIB")
            /\ \/ LibMissing(data(m), length(m)) /\ Emit(<<>>)
               \/ LibWithoutContext(data(m), length(m)) /\ Emit(<<>>)
               \/ LibUnlicensed(data(m), length(m)) /\ Emit(<<Error(LicenseError)>>)
               \/ LibAccepted(data(m), length(m)) /\ Emit(<<Yes>>)
      BY <1>4 DEF HandleLib
    <2>2. data(m) \in Data \cup {NoBody}
      BY ParsedData
    <2>3. /\ libpath' \in Data \cup {NoPath} /\ approved' \in BOOLEAN
          /\ errType' \in ErrorIds
          /\ licMgr' \in [libpath : Data \cup {NoPath}] \cup {NoLicense}
          /\ crContext' \in Data \cup {NoContext}
          /\ held' \subseteq Data /\ granted' \subseteq Data
      <3> HIDE DEF data, length
      <3> QED BY <2>1, <2>2, LibType
    <2>4. /\ <<>> \in Seq(Replies) /\ <<Yes>> \in Seq(Replies)
          /\ <<Error(LicenseError)>> \in Seq(Replies)
      BY DEF LicenseError
    <2>5. pc' \in PcValues /\ sent' \in Seq(Replies)
      BY <1>0, <2>1, <2>4, EmitType
    <2>6. state' \in SessionStates /\ Reads(m)
      BY <2>1, NextStateType DEF Handles, TypeOK
    <2>7. QED
      BY <2>3, <2>5, <2>6, ReadsType DEF TypeOK
  <1>5. CASE HandleFeature
    <2>1. PICK m \in Requests :
            /\ Handles(m, "FEATURE")
            /\ \/ LicensingFails /\ Emit(<<Error(LicenseError)>>)
               \/ FeatureGranted(ParsedCommand(m).data) /\ Emit(<<Yes>>)
               \/ FeatureDenied /\ Emit(<<No>>)
            /\ UNCHANGED <<state, libpath, approved, errType, crContext>>
      BY <1>5 DEF HandleFeature
    <2>2. /\ <<Yes>> \in Seq(Replies) /\ <<No>> \in Seq(Replies)
          /\ <<Error(LicenseError)>> \in Seq(Replies)
      BY DEF LicenseError
    <2>3. pc' \in PcValues /\ sent' \in Seq(Replies)
      BY <1>0, <2>1, <2>2, EmitType
    <2>4. /\ licMgr' \in [libpath : Data \cup {NoPath}] \cup {NoLicense}
          /\ held' \subseteq Data /\ granted' \subseteq Data
      <3>1. held \subseteq Data /\ granted \subseteq Data
        BY DEF TypeOK
      <3>2. QED
        BY <1>0, <2>1, <3>1, LicenseType DEF LicensingFails, FeatureGranted, FeatureDenied
    <2>5. Reads(m)
      BY <2>1 DEF Handles
    <2>6. QED
      BY <2>1, <2>3, <2>4, <2>5, ReadsType DEF TypeOK
  <1>6. CASE HandleReturnFeature
    <2>1. PICK m \in Requests :
            /\ Handles(m, "RETURNFEATURE")
            /\ \/ LicensingFails /\ Emit(<<Error(LicenseError)>>)
               \/ /\ SetupLicensing(libpath) /\ CheckinFeature(ParsedCommand(m).data)
                  /\ Emit(<<Yes>>)
               \/ FeatureDenied /\ Emit(<<Error(LicenseError)>>)
            /\ UNCHANGED <<state, libpath, approved, errType, crContext>>
      BY <1>6 DEF HandleReturnFeature
    <2>2. <<Yes>> \in Seq(Replies) /\ <<Error(LicenseError)>> \in Seq(Replies)
      BY DEF LicenseError
    <2>3. pc' \in PcValues /\ sent' \in Seq(Replies)
      BY <1>0, <2>1, <2>2, EmitType
    <2>4. /\ licMgr' \in [libpath : Data \cup {NoPath}] \cup {NoLicense}
          /\ held' \subseteq Data /\ granted' \subseteq Data
      <3>1. held \subseteq Data /\ granted \subseteq Data
        BY DEF TypeOK
      <3>2. QED
        BY <1>0, <2>1, <3>1, LicenseType DEF LicensingFails, FeatureDenied
    <2>5. Reads(m)
      BY <2>1 DEF Handles
    <2>6. QED
      BY <2>1, <2>3, <2>4, <2>5, ReadsType DEF TypeOK
  <1>7. CASE HandleLicense
    <2>1. PICK m \in Requests :
            /\ Reads(m) /\ Emit(<<NotSimple>>)
            /\ UNCHANGED <<state, ctx, held, granted>>
      BY <1>7 DEF HandleLicense, Handles
    <2>2. <<NotSimple>> \in Seq(Replies)
      OBVIOUS
    <2>3. pc' \in PcValues /\ sent' \in Seq(Replies)
      BY <1>0, <2>1, <2>2, EmitType
    <2>4. QED
      BY <2>1, <2>3, ReadsType DEF TypeOK
  <1>8. CASE HandleFile
    <2>1. PICK m \in Requests :
            /\ Handles(m, "FILE")
            /\ \/ FileRefused \/ FileFails(ParsedCommand(m).data)
               \/ FileDelivered(ParsedCommand(m).data) \/ FileWithoutLibrary
            /\ UNCHANGED <<state, ctx, held, granted>>
      BY <1>8 DEF HandleFile
    <2>2. /\ <<>> \in Seq(Replies) /\ <<Error(errType)>> \in Seq(Replies)
          /\ <<Error(FileIoError)>> \in Seq(Replies) /\ <<Error(OtherError)>> \in Seq(Replies)
      BY <1>0 DEF FileIoError, OtherError
    <2>3. pc' \in PcValues /\ sent' \in Seq(Replies)
      <3>1. CASE FileRefused
        BY <1>0, <2>2, <3>1, EmitType DEF FileRefused
      <3>2. CASE FileFails(ParsedCommand(m).data)
        BY <1>0, <2>2, <3>2, EmitType DEF FileFails
      <3>3. CASE FileDelivered(ParsedCommand(m).data)
        <4>1. FileCont(libpath, ParsedCommand(m).data) \in Replies
          BY <3>3 DEF FileDelivered
        <4>2. <<FileCont(libpath, ParsedCommand(m).data)>> \in Seq(Replies)
          BY <4>1
        <4>3. QED
          BY <1>0, <3>3, <4>2, EmitType DEF FileDelivered
      <3>4. CASE FileWithoutLibrary
        BY <2>2, <3>4 DEF FileWithoutLibrary, PcValues, Stopped
      <3>5. QED
        BY <2>1, <3>1, <3>2, <3>3, <3>4
    <2>4. Reads(m)
      BY <2>1 DEF Handles
    <2>5. QED
      BY <2>1, <2>3, <2>4, ReadsType DEF TypeOK
  <1>9. QED
    BY <1>1, <1>2, <1>3, <1>4, <1>5, <1>6, <1>7, <1>8 DEF Handle

\* The two ways of starting never meet: only a command-line checkout is in its
\* states (main in lve.c).
Mode == pc \in {"libpath", "feature"} => argv \in CommandLines

\* A handler runs in the receive loop and leaves the process there, or dead.
LEMMA HandleControl ==
  TypeOK /\ Handle => /\ pc = "receive" /\ pc' \in {"receive", "killed", "crashed"}
                      /\ UNCHANGED <<argv, exitCode, ssl, peerKey, peerOpen>>
  <1> SUFFICES ASSUME TypeOK, Handle
               PROVE  /\ pc = "receive" /\ pc' \in {"receive", "killed", "crashed"}
                      /\ UNCHANGED <<argv, exitCode, ssl, peerKey, peerOpen>>
    OBVIOUS
  <1>1. PICK m \in Requests : Reads(m) /\ (pc' = pc \/ pc' \in {"receive", "killed", "crashed"})
    <2> USE DEF Handles, Emit
    <2>2. CASE Reject
      BY <2>2 DEF Reject
    <2>3. CASE HandleVersion
      BY <2>3 DEF HandleVersion
    <2>4. CASE HandleTools
      BY <2>4 DEF HandleTools
    <2>5. CASE HandleLib
      BY <2>5 DEF HandleLib
    <2>6. CASE HandleFeature
      BY <2>6 DEF HandleFeature
    <2>7. CASE HandleReturnFeature
      BY <2>7 DEF HandleReturnFeature
    <2>8. CASE HandleLicense
      BY <2>8 DEF HandleLicense
    <2>9. CASE HandleFile
      BY <2>9 DEF HandleFile, FileRefused, FileFails, FileDelivered, FileWithoutLibrary
    <2>10. QED
      BY <2>2, <2>3, <2>4, <2>5, <2>6, <2>7, <2>8, <2>9 DEF Handle
  <1>2. QED
    BY <1>1 DEF Reads, process

\* The other steps of the process and of its peer keep the types, too.
LEMMA OtherType == TypeOK /\ Mode /\ [Next]_vars /\ ~Handle => TypeOK'
  <1> SUFFICES ASSUME TypeOK, Mode, [Next]_vars, ~Handle PROVE TypeOK'
    OBVIOUS
  <1> USE DEF ctx, licence, process, peer, history
  <1>1. CASE SslSetup \/ Handshake \/ ValidatePubkey
    <2>1. SslError \in ErrorIds /\ ToolNotAllowed \in ErrorIds
      BY DEF SslError, ToolNotAllowed, ErrorIds
    <2>2. CASE SslSetup
      BY <2>1, <2>2, ZenonT(60) DEF TypeOK, SslSetup, PcValues
    <2>3. CASE Handshake
      BY <2>1, <2>3 DEF TypeOK, Handshake, PcValues
    <2>4. CASE ValidatePubkey
      BY <2>1, <2>4, ZenonT(60) DEF TypeOK, ValidatePubkey, PcValues, Stopped
    <2>5. QED
      BY <1>1, <2>2, <2>3, <2>4
  <1>2. CASE ReadEof
    BY <1>2 DEF TypeOK, ReadEof, PcValues
  <1>3. CASE Shutdown
    BY <1>3 DEF TypeOK, Shutdown, PcValues, Stopped
  <1>4. CASE CheckoutLibpath
    <2> DEFINE data == argv.libpath
               length == LengthOf(data)
    <2>1. argv.libpath \in Data
      BY <1>4, StartAssumption DEF Mode, CheckoutLibpath
    <2>2. \/ LibMissing(data, length) \/ LibWithoutContext(data, length)
          \/ LibUnlicensed(data, length) \/ LibAccepted(data, length)
      BY <1>4 DEF CheckoutLibpath
    <2>3. /\ libpath' \in Data \cup {NoPath} /\ approved' \in BOOLEAN
          /\ errType' \in ErrorIds
          /\ licMgr' \in [libpath : Data \cup {NoPath}] \cup {NoLicense}
          /\ crContext' \in Data \cup {NoContext}
          /\ held' \subseteq Data /\ granted' \subseteq Data
      <3> HIDE DEF length
      <3> QED BY <2>1, <2>2, LibType
    <2>4. pc' \in PcValues /\ exitCode' \in {-1, 0, 1}
      BY <1>4 DEF CheckoutLibpath, Exit, TypeOK, PcValues, Stopped
    <2>5. UNCHANGED <<argv, ssl, peer, state, history>>
      BY <1>4 DEF CheckoutLibpath
    <2>6. QED
      BY <2>3, <2>4, <2>5 DEF TypeOK
  <1>5. CASE CheckoutNamedFeature
    <2>1. /\ licMgr' \in [libpath : Data \cup {NoPath}] \cup {NoLicense}
          /\ held' \subseteq Data /\ granted' \subseteq Data
      <3>1. libpath \in Data \cup {NoPath} /\ held \subseteq Data /\ granted \subseteq Data
        BY DEF TypeOK
      <3>2. QED
        BY <1>5, <3>1, LicenseType
           DEF CheckoutNamedFeature, LicensingFails, FeatureGranted, FeatureDenied
    <2>2. pc' \in PcValues /\ exitCode' \in {-1, 0, 1}
      BY <1>5 DEF CheckoutNamedFeature, Exit, TypeOK, PcValues, Stopped
    <2>3. UNCHANGED <<argv, ssl, peer, state, libpath, approved, errType, crContext, history>>
      BY <1>5 DEF CheckoutNamedFeature
    <2>4. QED
      BY <2>1, <2>2, <2>3 DEF TypeOK
  <1>6. CASE PeerSends
    <2>1. PICK m \in Requests : inbox' = Append(inbox, m)
      BY <1>6 DEF PeerSends
    <2>2. inbox' \in Seq(Requests)
      BY <2>1 DEF TypeOK
    <2>3. QED
      BY <1>6, <2>2 DEF TypeOK, PeerSends
  <1>7. CASE PeerCloses \/ Dies
    BY <1>7 DEF TypeOK, PeerCloses, Dies, PcValues, Stopped
  <1>8. CASE Terminated \/ UNCHANGED vars
    BY <1>8 DEF TypeOK, Terminated, vars
  <1>9. QED
    BY <1>1, <1>2, <1>3, <1>4, <1>5, <1>6, <1>7, <1>8 DEF Next, Lve

\* Neither a tool's LVE nor a command-line checkout ever turns into the other
\* (main in lve.c).
LEMMA ModeStep == TypeOK /\ Mode /\ [Next]_vars => Mode'
  <1> SUFFICES ASSUME TypeOK, Mode, [Next]_vars PROVE Mode'
    OBVIOUS
  <1> USE DEF Mode, ctx, process, peer, history
  <1>1. CASE Handle
    BY <1>1, HandleControl
  <1>2. CASE SslSetup \/ Handshake \/ ValidatePubkey \/ ReadEof \/ Shutdown
    BY <1>2 DEF SslSetup, Handshake, ValidatePubkey, ReadEof, Shutdown
  <1>3. CASE CheckoutLibpath \/ CheckoutNamedFeature
    BY <1>3 DEF CheckoutLibpath, CheckoutNamedFeature, Exit
  <1>4. CASE PeerSends \/ PeerCloses \/ Dies
    BY <1>4 DEF PeerSends, PeerCloses, Dies
  <1>5. CASE Terminated \/ UNCHANGED vars
    BY <1>5 DEF Terminated, vars
  <1>6. QED
    BY <1>1, <1>2, <1>3, <1>4, <1>5 DEF Next, Lve

\* The process starts with its types, in one of its two modes.
LEMMA TypeInit == Init => TypeOK /\ Mode
  <1> SUFFICES ASSUME Init PROVE TypeOK /\ Mode
    OBVIOUS
  <1>1. <<>> \in Seq(Requests) /\ <<>> \in Seq(Replies)
    OBVIOUS
  <1>2. pc \in PcValues /\ errType \in ErrorIds /\ state \in SessionStates
    BY DEF Init, PcValues, UndefinedError, ErrorIds, SessionStates
  <1>3. Mode
    BY DEF Init, Mode
  <1>4. QED
    BY <1>1, <1>2, <1>3 DEF Init, TypeOK

\* Every reachable state of the LVE has its types: replies are replies of the
\* protocol and the session never enters the invalid state.
THEOREM TypeCorrect == Spec => []TypeOK
  <1>1. TypeOK /\ Mode /\ [Next]_vars => TypeOK' /\ Mode'
    BY HandleType, OtherType, ModeStep
  <1>2. QED
    BY <1>1, TypeInit, PTL DEF Spec

-----------------------------------------------------------------------------
(* File contents and the key of the tool.                                    *)

\* Until the receive loop starts nobody is approved and nothing is sent.
QuietBefore ==
  pc \in {"setup", "handshake", "validate", "libpath", "feature"} => ~approved /\ sent = <<>>

ApprovedKey == approved => peerKey \in TrustedKeys

KeyInv == TypeOK /\ Mode /\ QuietBefore /\ ApprovedKey /\ DeliveredToTrustedTool

\* Replies with no file content deliver none, and neither does silence.
LEMMA NoContent ==
  /\ ~(\E i \in DOMAIN <<>> : <<>>[i].command = "FILECONT")
  /\ \A r : r.command # "FILECONT" => ~(\E i \in DOMAIN <<r>> : <<r>>[i].command = "FILECONT")
  OBVIOUS

\* What one handler does to the approval, and when it delivers content: a
\* handler never approves, and delivers only to an approved tool, a file of
\* the library that was opened (mlle_lve_file).
LEMMA HandleApproval ==
  TypeOK /\ Handle =>
    /\ approved' => approved
    /\ DeliversFile' => approved /\ libpath \in Data /\ UNCHANGED <<approved, libpath, granted>>
  <1> SUFFICES ASSUME TypeOK, Handle
               PROVE  /\ approved' => approved
                      /\ DeliversFile' =>
                           approved /\ libpath \in Data /\ UNCHANGED <<approved, libpath, granted>>
    OBVIOUS
  <1> USE DEF ctx, licence
  <1> DEFINE Plain == {Yes, No, NotSimple} \cup {Version(n) : n \in Nat} \cup {Error(n) : n \in Nat}
  <1>1. ASSUME NEW STATE rs, rs = <<>> \/ \E r \in Plain : rs = <<r>>, Emit(rs)
        PROVE  ~DeliversFile'
    <2>1. sent' = <<>> \/ \E r \in Plain : sent' = <<r>>
      BY <1>1 DEF Emit
    <2>2. \A r \in Plain : r.command # "FILECONT"
      BY DEF Yes, No, NotSimple, Version, Error, Reply
    <2>3. QED
      BY <2>1, <2>2, NoContent DEF DeliversFile
  <1>2. CASE Reject \/ HandleVersion \/ HandleTools \/ HandleLicense
    <2>1. UNCHANGED approved
      BY <1>2 DEF Reject, HandleVersion, HandleTools, HandleLicense
    <2>2. ~DeliversFile'
      BY <1>1, <1>2 DEF Reject, HandleVersion, HandleTools, HandleLicense,
         NotUnderstood, VersionTooLow, MaxProtocolVersion
    <2>3. QED
      BY <2>1, <2>2
  <1>3. CASE HandleFeature \/ HandleReturnFeature
    <2>1. UNCHANGED approved
      BY <1>3 DEF HandleFeature, HandleReturnFeature
    <2>2. ~DeliversFile'
      BY <1>1, <1>3 DEF HandleFeature, HandleReturnFeature, LicenseError
    <2>3. QED
      BY <2>1, <2>2
  <1>4. CASE HandleLib
    <2>1. approved' => approved
      BY <1>4 DEF HandleLib, LibMissing, LibWithoutContext, LibUnlicensed, LibAccepted
    <2>2. ~DeliversFile'
      BY <1>1, <1>4 DEF HandleLib, LicenseError
    <2>3. QED
      BY <2>1, <2>2
  <1>5. CASE HandleFile
    <2>1. PICK m \in Requests :
            /\ \/ FileRefused \/ FileFails(ParsedCommand(m).data)
               \/ FileDelivered(ParsedCommand(m).data) \/ FileWithoutLibrary
            /\ UNCHANGED <<state, ctx, held, granted>>
      BY <1>5 DEF HandleFile
    <2>2. CASE FileRefused
      <3>1. errType \in Nat
        BY DEF TypeOK, ErrorIds
      <3>2. QED
        BY <1>1, <2>1, <2>2, <3>1 DEF FileRefused
    <2>3. CASE FileFails(ParsedCommand(m).data)
      BY <1>1, <2>1, <2>3 DEF FileFails, FileIoError, OtherError
    <2>4. CASE FileDelivered(ParsedCommand(m).data)
      BY <2>1, <2>4, DataAssumption DEF FileDelivered
    <2>5. CASE FileWithoutLibrary
      BY <2>1, <2>5, NoContent DEF FileWithoutLibrary, DeliversFile
    <2>6. QED
      BY <2>1, <2>2, <2>3, <2>4, <2>5
  <1>6. QED
    BY <1>2, <1>3, <1>4, <1>5 DEF Handle

\* Every step keeps approval, and with it delivery, tied to a trusted key
\* (tool_approved is only set by mlle_lve_validate_pubkey).
LEMMA KeyStep == KeyInv /\ [Next]_vars => KeyInv'
  <1> SUFFICES ASSUME KeyInv, [Next]_vars PROVE QuietBefore' /\ ApprovedKey' /\ DeliveredToTrustedTool'
    BY HandleType, OtherType, ModeStep DEF KeyInv
  <1> USE DEF KeyInv, QuietBefore, ApprovedKey, DeliveredToTrustedTool, DeliversFile,
              ctx, process, peer, history
  <1>1. CASE Handle
    BY <1>1, HandleControl, HandleApproval
  <1>2. CASE SslSetup \/ Handshake
    BY <1>2, NoContent DEF SslSetup, Handshake
  <1>3. CASE ValidatePubkey
    BY <1>3 DEF ValidatePubkey
  <1>4. CASE ReadEof \/ Shutdown
    BY <1>4 DEF ReadEof, Shutdown
  <1>5. CASE CheckoutLibpath
    BY <1>5 DEF CheckoutLibpath, Exit, LibMissing, LibWithoutContext, LibUnlicensed, LibAccepted
  <1>6. CASE CheckoutNamedFeature
    BY <1>6 DEF CheckoutNamedFeature, Exit
  <1>7. CASE PeerSends \/ PeerCloses \/ Dies
    BY <1>7 DEF PeerSends, PeerCloses, Dies
  <1>8. CASE Terminated \/ UNCHANGED vars
    BY <1>8 DEF Terminated, vars
  <1>9. QED
    BY <1>1, <1>2, <1>3, <1>4, <1>5, <1>6, <1>7, <1>8 DEF Next, Lve

\* File contents leave the LVE only towards a tool whose certificate carried a
\* trusted key, for every set of keys, files and messages.
THEOREM KeyGate == Spec => []DeliveredToTrustedTool
  <1>1. Init => KeyInv
    BY TypeInit, NoContent
       DEF Init, KeyInv, QuietBefore, ApprovedKey, DeliveredToTrustedTool, DeliversFile
  <1>2. KeyInv => DeliveredToTrustedTool
    BY DEF KeyInv
  <1>3. QED
    BY <1>1, <1>2, KeyStep, PTL DEF Spec

-----------------------------------------------------------------------------
(* File contents and the global licence. A failed allocation in              *)
(* mlle_cr_create skips the licence check, so the theorem is about builds     *)
(* whose allocations succeed.                                                *)

NoLibraryYet == pc \in {"setup", "handshake", "validate"} => libpath = NoPath

\* An approved tool with a library holds, or held, the global licence.
LicensedLibrary ==
  approved /\ libpath # NoPath /\ GlobalFeature # NoFeature => GlobalFeature \in granted

LicenseInv == KeyInv /\ NoLibraryYet /\ LicensedLibrary /\ DeliveredUnderGlobalLicense

\* A checkout that succeeded is remembered by every step.
LEMMA GrantedGrows == TypeOK /\ [Next]_vars => granted \subseteq granted'
  <1> SUFFICES ASSUME [Next]_vars PROVE granted \subseteq granted'
    OBVIOUS
  <1> USE DEF ctx, licence, CheckoutFeature, CheckinFeature, LicensingFails,
              FeatureGranted, FeatureDenied, LibMissing, LibWithoutContext,
              LibUnlicensed, LibAccepted
  <1>1. CASE Reject \/ HandleVersion \/ HandleTools \/ HandleLicense \/ HandleFile
    BY <1>1 DEF Reject, HandleVersion, HandleTools, HandleLicense, HandleFile
  <1>2. CASE HandleLib
    BY <1>2 DEF HandleLib
  <1>3. CASE HandleFeature \/ HandleReturnFeature
    BY <1>3 DEF HandleFeature, HandleReturnFeature
  <1>4. CASE SslSetup \/ Handshake \/ ValidatePubkey \/ ReadEof \/ Shutdown
    BY <1>4 DEF SslSetup, Handshake, ValidatePubkey, ReadEof, Shutdown
  <1>5. CASE CheckoutLibpath \/ CheckoutNamedFeature
    BY <1>5 DEF CheckoutLibpath, CheckoutNamedFeature
  <1>6. CASE PeerSends \/ PeerCloses \/ Dies \/ Terminated \/ UNCHANGED vars
    BY <1>6 DEF PeerSends, PeerCloses, Dies, Terminated, vars
  <1>7. QED
    BY <1>1, <1>2, <1>3, <1>4, <1>5, <1>6 DEF Next, Lve, Handle

\* Whoever opens a library and stays approved has checked the global licence
\* out (mlle_lve_libpath).
LEMMA OpeningIsLicensed ==
  ASSUME AllocMayFail = FALSE, LicensedLibrary, NEW STATE data, NEW STATE length,
         granted \subseteq granted',
         \/ LibMissing(data, length) \/ LibWithoutContext(data, length)
         \/ LibUnlicensed(data, length) \/ LibAccepted(data, length)
  PROVE  LicensedLibrary'
  <1> USE DEF LicensedLibrary
  <1>1. CASE LibMissing(data, length)
    BY <1>1 DEF LibMissing
  <1>2. CASE LibWithoutContext(data, length)
    BY <1>2 DEF LibWithoutContext
  <1>3. CASE LibUnlicensed(data, length)
    BY <1>3 DEF LibUnlicensed
  <1>4. CASE LibAccepted(data, length)
    BY <1>4 DEF LibAccepted, NeedsGlobalLicense, CheckoutFeature
  <1>5. QED
    BY <1>1, <1>2, <1>3, <1>4

\* Every step keeps the licence behind an opened library and an approved tool
\* (mlle_lve_libpath clears tool_approved when the checkout fails).
LEMMA LicenseStep ==
  ASSUME AllocMayFail = FALSE
  PROVE  LicenseInv /\ [Next]_vars => LicenseInv'
  <1> SUFFICES ASSUME LicenseInv, [Next]_vars
               PROVE  NoLibraryYet' /\ LicensedLibrary' /\ DeliveredUnderGlobalLicense'
    BY KeyStep DEF LicenseInv
  <1> USE DEF ctx, process, peer, history
  <1>0. granted \subseteq granted' /\ KeyInv /\ TypeOK
    BY GrantedGrows DEF LicenseInv, KeyInv
  <1>1. CASE Handle
    <2>1. NoLibraryYet'
      BY <1>0, <1>1, HandleControl DEF NoLibraryYet
    <2>2. LicensedLibrary'
      <3>1. CASE HandleLib
        <4>1. PICK m \in Requests :
                LET data == ParsedCommand(m).data
                    length == ParsedCommand(m).length
                IN \/ LibMissing(data, length) \/ LibWithoutContext(data, length)
                   \/ LibUnlicensed(data, length) \/ LibAccepted(data, length)
          BY <3>1 DEF HandleLib
        <4>2. QED
          BY <1>0, <4>1, OpeningIsLicensed DEF LicenseInv
      <3>2. CASE ~HandleLib
        <4>1. UNCHANGED <<libpath, approved>>
          BY <1>1, <3>2 DEF Handle, Reject, HandleVersion, HandleTools, HandleFeature,
             HandleReturnFeature, HandleLicense, HandleFile
        <4>2. QED
          BY <1>0, <4>1 DEF LicenseInv, LicensedLibrary
      <3>3. QED
        BY <3>1, <3>2
    <2>3. DeliveredUnderGlobalLicense'
      BY <1>0, <1>1, HandleApproval, DataAssumption
         DEF LicenseInv, LicensedLibrary, DeliveredUnderGlobalLicense
    <2>4. QED
      BY <2>1, <2>2, <2>3
  <1>2. ASSUME ~Handle PROVE UNCHANGED sent
    BY <1>2 DEF Next, Lve, SslSetup, Handshake, ValidatePubkey, ReadEof, Shutdown,
       CheckoutLibpath, CheckoutNamedFeature, PeerSends, PeerCloses, Dies, Terminated, vars
  <1>3. ASSUME ~Handle PROVE DeliveredUnderGlobalLicense'
    BY <1>0, <1>2, <1>3 DEF LicenseInv, DeliveredUnderGlobalLicense, DeliversFile
  <1>4. CASE SslSetup \/ Handshake \/ ValidatePubkey
    <2>1. NoLibraryYet' /\ LicensedLibrary'
      BY <1>0, <1>4 DEF LicenseInv, NoLibraryYet, LicensedLibrary, SslSetup, Handshake, ValidatePubkey
    <2>2. ~Handle
      BY <1>0, <1>4, HandleControl DEF SslSetup, Handshake, ValidatePubkey
    <2>3. QED
      BY <1>3, <2>1, <2>2
  <1>5. CASE ReadEof \/ Shutdown
    <2>1. NoLibraryYet' /\ LicensedLibrary'
      BY <1>0, <1>5 DEF LicenseInv, NoLibraryYet, LicensedLibrary, ReadEof, Shutdown
    <2>2. ~Handle \/ Handle
      OBVIOUS
    <2>3. QED
      BY <1>1, <1>3, <2>1, <2>2
  <1>6. CASE CheckoutLibpath \/ CheckoutNamedFeature
    <2>1. NoLibraryYet'
      BY <1>0, <1>6 DEF LicenseInv, NoLibraryYet, CheckoutLibpath, CheckoutNamedFeature, Exit
    <2>2. ~approved /\ (approved' => approved)
      BY <1>0, <1>6 DEF KeyInv, QuietBefore, CheckoutLibpath, CheckoutNamedFeature,
         LibMissing, LibWithoutContext, LibUnlicensed, LibAccepted
    <2>3. LicensedLibrary'
      BY <2>2 DEF LicensedLibrary
    <2>4. QED
      BY <1>1, <1>3, <2>1, <2>3
  <1>7. CASE PeerSends \/ PeerCloses \/ Dies \/ Terminated \/ UNCHANGED vars
    <2>1. pc' \in {pc, "killed"} /\ UNCHANGED <<libpath, approved, granted>>
      BY <1>7 DEF PeerSends, PeerCloses, Dies, Terminated, vars
    <2>2. NoLibraryYet' /\ LicensedLibrary'
      BY <2>1 DEF LicenseInv, NoLibraryYet, LicensedLibrary
    <2>3. QED
      BY <1>1, <1>3, <2>2
  <1>8. QED
    BY <1>1, <1>4, <1>5, <1>6, <1>7 DEF Next, Lve

\* When allocations succeed, file contents leave the LVE only after the global
\* licence feature was checked out, for every library, feature and message.
THEOREM LicenseGate ==
  ASSUME AllocMayFail = FALSE
  PROVE  Spec => []DeliveredUnderGlobalLicense
  <1>1. Init => LicenseInv
    <2>1. Init => KeyInv
      BY TypeInit, NoContent
         DEF Init, KeyInv, QuietBefore, ApprovedKey, DeliveredToTrustedTool, DeliversFile
    <2>2. QED
      BY <2>1, NoContent DEF Init, LicenseInv, NoLibraryYet, LicensedLibrary,
         DeliveredUnderGlobalLicense, DeliversFile
  <1>2. LicenseInv => DeliveredUnderGlobalLicense
    BY DEF LicenseInv
  <1>3. LicenseInv /\ [Next]_vars => LicenseInv'
    BY LicenseStep
  <1>4. QED
    BY <1>1, <1>2, <1>3, PTL DEF Spec
=============================================================================
