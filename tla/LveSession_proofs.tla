--------------------------- MODULE LveSession_proofs ---------------------------
(***************************************************************************)
(* The order of a session, for every set of libraries, features and          *)
(* messages: nothing is opened or taken before LIB, the library is chosen     *)
(* once and shared by all parts, a refusal lasts and is explained, every      *)
(* request has one answer, and a command-line checkout tells the truth.       *)
(***************************************************************************)
EXTENDS LveServer_proofs

-----------------------------------------------------------------------------
(* What the handlers do to the session.                                      *)

\* A handler that is neither LIB nor about licences leaves the context alone
\* and does not enter or leave the licence phase.
KeepsContext ==
  /\ UNCHANGED <<libpath, crContext, licMgr, held>>
  /\ state' = "LICENSE" <=> state = "LICENSE"

\* LIB opens a library, outside the licence phase, and begins it.
OpensLibrary ==
  /\ state # "LICENSE" /\ state' = "LICENSE"
  /\ \E data, length :
       \/ LibMissing(data, length) \/ LibWithoutContext(data, length)
       \/ LibUnlicensed(data, length) \/ LibAccepted(data, length)

\* FEATURE and RETURNFEATURE belong to the licence phase and touch the licence
\* manager only, which they create for the open library if need be.
UsesLicences ==
  /\ state = "LICENSE"
  /\ UNCHANGED <<state, libpath, approved, errType, crContext>>
  /\ SetupLicensing(libpath) \/ UNCHANGED licMgr

\* The state table, read backwards: LIB is accepted outside the licence phase
\* only and begins it, no other command begins or ends it, and the licence
\* commands need it (mlle_next_state).
LEMMA Phases ==
  ASSUME NEW s \in SessionStates
  PROVE  /\ NextState(s, "LIB") # Invalid => s # "LICENSE" /\ NextState(s, "LIB") = "LICENSE"
         /\ \A c \in {"FEATURE", "RETURNFEATURE", "FILE", "LICENSE", "RETURNLICENSE"} :
              NextState(s, c) # Invalid => s = "LICENSE"
         /\ \A c \in {"VERSION", "TOOLS"} :
              NextState(s, c) # Invalid => s # "LICENSE" /\ NextState(s, c) # "LICENSE"
  BY DEF NextState, Invalid, SessionStates, LicensePhaseCommands

\* VERSION is accepted at the start only.
LEMMA VersionPhase ==
  ASSUME NEW s \in SessionStates, NextState(s, "VERSION") # Invalid
  PROVE  s = "VERSION"
  BY DEF NextState, Invalid, SessionStates, LicensePhaseCommands

\* Every handler does one of the three.
LEMMA HandleSession ==
  ASSUME TypeOK, Handle
  PROVE  KeepsContext \/ UsesLicences \/ OpensLibrary
  <1> USE DEF ctx
  <1>0. state \in SessionStates
    BY DEF TypeOK
  <1>1. CASE Reject \/ HandleFile \/ HandleLicense
    BY <1>1 DEF Reject, HandleFile, HandleLicense, KeepsContext
  <1>2. CASE HandleVersion \/ HandleTools
    <2>1. state # "LICENSE" /\ state' # "LICENSE"
      BY <1>0, <1>2, Phases DEF HandleVersion, HandleTools, Handles
    <2>2. UNCHANGED <<ctx, held>>
      BY <1>2 DEF HandleVersion, HandleTools
    <2>3. QED
      BY <2>1, <2>2 DEF KeepsContext
  <1>3. CASE HandleFeature \/ HandleReturnFeature
    <2>1. state = "LICENSE"
      BY <1>0, <1>3, Phases DEF HandleFeature, HandleReturnFeature, Handles
    <2>2. /\ UNCHANGED <<state, libpath, approved, errType, crContext>>
          /\ SetupLicensing(libpath) \/ UNCHANGED licMgr
      BY <1>3 DEF HandleFeature, HandleReturnFeature, LicensingFails, SetupFails,
         FeatureGranted, FeatureDenied
    <2>3. QED
      BY <2>1, <2>2 DEF UsesLicences
  <1>4. CASE HandleLib
    <2>1. PICK m \in Requests :
            LET data == ParsedCommand(m).data
                length == ParsedCommand(m).length
            IN /\ Handles(m, "LIB") /\ state' = NextState(state, "LIB")
               /\ \/ LibMissing(data, length) \/ LibWithoutContext(data, length)
                  \/ LibUnlicensed(data, length) \/ LibAccepted(data, length)
      BY <1>4 DEF HandleLib
    <2>2. state # "LICENSE" /\ state' = "LICENSE"
      BY <1>0, <2>1, Phases DEF Handles
    <2>3. QED
      BY <2>1, <2>2 DEF OpensLibrary
  <1>5. QED
    BY <1>1, <1>2, <1>3, <1>4 DEF Handle

-----------------------------------------------------------------------------
(* The library of a session.                                                 *)

\* Only a process that serves a tool shakes hands and receives (main in lve.c).
ServesTool ==
  pc \in {"setup", "handshake", "validate", "receive", "shutdown"} => argv = ServeTool

\* Before the receive loop, and before a command-line checkout, nothing is open.
FreshContext ==
  pc \in {"setup", "handshake", "validate", "libpath"} =>
    held = {} /\ licMgr = NoLicense /\ libpath = NoPath /\ crContext = NoContext

SessionInv ==
  /\ TypeOK /\ Mode
  /\ ServesTool /\ FreshContext /\ NothingBeforeLib /\ SameLibrary

\* A handler keeps the parts of the session on one library: before LIB there is
\* none, and LIB and the licence commands set all they set to the same path.
LEMMA HandleLibrary == SessionInv /\ Handle => SessionInv'
  <1> SUFFICES ASSUME SessionInv, Handle
               PROVE  ServesTool' /\ FreshContext' /\ NothingBeforeLib' /\ SameLibrary'
    BY HandleType, HandleControl DEF SessionInv, Mode
  <1> USE DEF SessionInv
  <1>1. /\ pc = "receive" /\ pc' \in {"receive", "killed", "crashed"}
        /\ argv = ServeTool /\ argv' = argv
    BY HandleControl DEF ServesTool
  <1>2. ServesTool' /\ FreshContext'
    BY <1>1 DEF ServesTool, FreshContext
  <1>3. (crContext # NoContext => crContext = libpath)
        /\ (licMgr # NoLicense => licMgr.libpath = libpath)
    BY <1>1 DEF SameLibrary, Stopped
  <1>4. CASE KeepsContext
    BY <1>1, <1>2, <1>3, <1>4 DEF KeepsContext, NothingBeforeLib, SameLibrary
  <1>5. CASE UsesLicences
    BY <1>1, <1>2, <1>3, <1>5 DEF UsesLicences, SetupLicensing, NothingBeforeLib, SameLibrary
  <1>6. CASE OpensLibrary
    <2>1. licMgr = NoLicense /\ libpath = NoPath /\ crContext = NoContext /\ state' = "LICENSE"
      BY <1>1, <1>6 DEF OpensLibrary, NothingBeforeLib
    <2>2. NothingBeforeLib'
      BY <2>1 DEF NothingBeforeLib
    <2>3. PICK data, length :
            \/ LibMissing(data, length) \/ LibWithoutContext(data, length)
            \/ LibUnlicensed(data, length) \/ LibAccepted(data, length)
      BY <1>6 DEF OpensLibrary
    <2>4. SameLibrary'
      BY <2>1, <2>3 DEF SameLibrary, LibMissing, LibWithoutContext, LibUnlicensed, LibAccepted,
         SetupFails, SetupLicensing, licence
    <2>5. QED
      BY <1>2, <2>2, <2>4
  <1>7. QED
    BY <1>4, <1>5, <1>6, HandleSession

\* So does every other step; the end of the process forgets the path alone.
LEMMA SessionStep == SessionInv /\ [Next]_vars => SessionInv'
  <1> SUFFICES ASSUME SessionInv, [Next]_vars, ~Handle
               PROVE  ServesTool' /\ FreshContext' /\ NothingBeforeLib' /\ SameLibrary'
    BY HandleLibrary, HandleType, OtherType, ModeStep DEF SessionInv
  <1> USE DEF SessionInv, ServesTool, FreshContext, NothingBeforeLib, SameLibrary, Mode, Stopped,
              ctx, process, peer, history, licence
  <1>0. ServeTool \notin CommandLines
    BY StartAssumption
  <1>1. CASE SslSetup \/ Handshake \/ ValidatePubkey \/ ReadEof
    BY <1>1 DEF SslSetup, Handshake, ValidatePubkey, ReadEof
  <1>2. CASE Shutdown
    BY <1>2 DEF Shutdown
  <1>3. CASE CheckoutLibpath
    <2>1. licMgr = NoLicense /\ libpath = NoPath /\ crContext = NoContext /\ argv # ServeTool
      BY <1>0, <1>3 DEF CheckoutLibpath
    <2>2. pc' \in {"feature", "exited"} /\ argv' = argv
      BY <1>3 DEF CheckoutLibpath, Exit
    <2>3. SameLibrary'
      BY <1>3, <2>1 DEF CheckoutLibpath, LibMissing, LibWithoutContext, LibUnlicensed, LibAccepted,
         SetupFails, SetupLicensing
    <2>4. QED
      BY <2>1, <2>2, <2>3
  <1>4. CASE CheckoutNamedFeature
    <2>1. argv \in CommandLines /\ argv' = argv /\ pc' \in {"crashed", "exited"}
      BY <1>4 DEF CheckoutNamedFeature, Exit
    <2>2. QED
      BY <1>0, <2>1
  <1>5. CASE PeerSends \/ PeerCloses \/ Dies
    <2>1. /\ pc' \in {pc, "killed"}
          /\ UNCHANGED <<argv, state, libpath, crContext, licMgr, held>>
      BY <1>5 DEF PeerSends, PeerCloses, Dies
    <2>2. QED
      BY <2>1
  <1>6. CASE Terminated \/ UNCHANGED vars
    BY <1>6 DEF Terminated, vars
  <1>7. QED
    BY <1>1, <1>2, <1>3, <1>4, <1>5, <1>6 DEF Next, Lve

\* The session invariant holds when the process starts.
LEMMA SessionStarts == Init => SessionInv
  BY TypeInit, StartAssumption
     DEF Init, SessionInv, ServesTool, FreshContext, NothingBeforeLib, SameLibrary

\* The session invariant holds throughout.
LEMMA SessionAlways == Spec => []SessionInv
  BY SessionStarts, SessionStep, PTL DEF Spec

\* No licence is taken and no library is opened before LIB, whatever was sent
\* before it.
THEOREM NoLibraryBeforeLib == Spec => []NothingBeforeLib
  BY SessionAlways, PTL DEF SessionInv

\* Licence manager, decryption context and file paths speak of one library.
THEOREM OneLibrary == Spec => []SameLibrary
  BY SessionAlways, PTL DEF SessionInv

\* After LIB no command changes the library or its decryption context.
THEOREM LibraryChosenOnce == Spec => LibraryFixed
  <1>1. SessionInv /\ [Next]_vars
          => [pc = "receive" /\ state = "LICENSE" => UNCHANGED <<libpath, crContext>>]_vars
    <2> SUFFICES ASSUME SessionInv, [Next]_vars, pc = "receive", state = "LICENSE"
                 PROVE  UNCHANGED <<libpath, crContext>>
      OBVIOUS
    <2>1. CASE Handle
      BY <2>1, HandleSession DEF SessionInv, KeepsContext, UsesLicences, OpensLibrary
    <2>2. CASE ~Handle
      BY <2>2 DEF Next, Lve, SslSetup, Handshake, ValidatePubkey, ReadEof, Shutdown, CheckoutLibpath,
         CheckoutNamedFeature, PeerSends, PeerCloses, Dies, Terminated, vars, ctx
    <2>3. QED
      BY <2>1, <2>2
  <1>2. QED
    BY <1>1, SessionAlways, PTL DEF Spec, LibraryFixed

\* A tool that was refused stays refused for the rest of the session.
THEOREM RefusalLasts == Spec => ApprovalNeverRegained
  <1>1. TypeOK /\ [Next]_vars => [pc = "receive" /\ ~approved => ~approved']_vars
    <2> SUFFICES ASSUME TypeOK, [Next]_vars, pc = "receive", ~approved
                 PROVE  ~approved'
      OBVIOUS
    <2>1. CASE Handle
      BY <2>1, HandleApproval
    <2>2. CASE ~Handle
      BY <2>2 DEF Next, Lve, SslSetup, Handshake, ValidatePubkey, ReadEof, Shutdown, CheckoutLibpath,
         CheckoutNamedFeature, PeerSends, PeerCloses, Dies, Terminated, vars, ctx
    <2>3. QED
      BY <2>1, <2>2
  <1>2. QED
    BY <1>1, TypeCorrect, PTL DEF Spec, ApprovalNeverRegained

-----------------------------------------------------------------------------
(* Requests and replies.                                                     *)

\* Nothing has been read before the receive loop, nor in a command-line checkout.
NothingRead ==
  pc \in {"setup", "handshake", "validate", "libpath", "feature"} => handled = NoMessage

\* Where a tool is not approved, the stored error says why: the key, the
\* licence, or a later error on the library path.
RefusalReason ==
  pc = "receive" /\ ~approved => errType \notin {UndefinedError, SslError}

AnswerInv == SessionInv /\ NothingRead /\ RefusalReason /\ RefusalExplained

\* While the peer listens, a handler sends what it writes, or nothing for want
\* of memory (ssl_write_message, mlle_send_length_form).
LEMMA EmitHeard ==
  ASSUME peerOpen, NEW STATE rs, Emit(rs)
  PROVE  /\ pc' = pc
         /\ sent' = rs \/ (Starved(rs) /\ sent' = <<>>)
  BY DEF Emit

\* What tells of a success needs no memory (mlle_send_simple_form,
\* mlle_send_number_form).
LEMMA SuccessIsTold ==
  ASSUME NEW n
  PROVE  ~Starved(<<Yes>>) /\ ~Starved(<<NotSimple>>) /\ ~Starved(<<Version(n)>>)
  BY DEF Starved, NeedsMemory, Yes, NotSimple, Version, Reply

\* The silence of a handler that only had an error to tell.
LEMMA SilentError ==
  ASSUME peerOpen, NEW STATE r, Emit(<<r>>), UNCHANGED <<held, granted>>,
         state' = state \/ (handled'.name = "LIB" /\ approved /\ ~approved')
  PROVE  Len(sent') = 1 \/ (sent' = <<>> /\ SilenceExcused)
  <1>1. sent' = <<r>> \/ (Starved(<<r>>) /\ sent' = <<>>)
    BY EmitHeard
  <1>2. CASE sent' = <<r>>
    BY <1>2
  <1>3. CASE Starved(<<r>>) /\ sent' = <<>>
    BY <1>3 DEF Starved, SilenceExcused
  <1>4. QED
    BY <1>1, <1>2, <1>3

\* Every handler answers the message it read with one reply, or may be silent.
LEMMA HandleAnswers ==
  ASSUME AnswerInv, Handle, peerOpen, pc' \notin Stopped
  PROVE  Len(sent') = 1 \/ (sent' = <<>> /\ SilenceExcused)
  <1> USE DEF AnswerInv
  <1>0. TypeOK /\ state \in SessionStates
    BY DEF SessionInv, TypeOK
  <1>1. ASSUME NEW r, ~Starved(<<r>>), Emit(<<r>>)
        PROVE  Len(sent') = 1
    BY <1>1, EmitHeard
  <1>2. CASE Reject
    BY <1>2, SilentError DEF Reject
  <1>3. CASE HandleVersion
    <2>1. NextState(state, "VERSION") # Invalid
      BY <1>3 DEF HandleVersion, Handles
    <2>2. state = "VERSION"
      BY <1>0, <2>1, VersionPhase
    <2>3. CASE state' = "VERSION" /\ Emit(<<Error(VersionTooLow)>>)
      BY <1>3, <2>2, <2>3, SilentError DEF HandleVersion
    <2>4. CASE Emit(<<Version(MaxProtocolVersion)>>)
      BY <1>1, <2>4, SuccessIsTold
    <2>5. QED
      BY <1>3, <2>3, <2>4 DEF HandleVersion
  <1>4. CASE HandleTools \/ HandleLicense
    BY <1>1, <1>4, SuccessIsTold DEF HandleTools, HandleLicense
  <1>5. CASE HandleFeature \/ HandleReturnFeature
    <2>1. \/ Emit(<<Yes>>)
          \/ state' = state /\ UNCHANGED <<held, granted>> /\ \E r \in {Error(LicenseError), No} : Emit(<<r>>)
      BY <1>5 DEF HandleFeature, HandleReturnFeature, LicensingFails, FeatureDenied
    <2>2. QED
      BY <1>1, <2>1, SilentError, SuccessIsTold
  <1>6. CASE HandleLib
    <2>1. PICK m \in Requests :
            LET data == ParsedCommand(m).data
                length == ParsedCommand(m).length
            IN /\ Handles(m, "LIB")
               /\ \/ LibMissing(data, length)        /\ Emit(<<>>)
                  \/ LibWithoutContext(data, length) /\ Emit(<<>>)
                  \/ LibUnlicensed(data, length)     /\ Emit(<<Error(LicenseError)>>)
                  \/ LibAccepted(data, length)       /\ Emit(<<Yes>>)
      BY <1>6 DEF HandleLib
    <2>2. handled'.name = "LIB" /\ NextState(state, "LIB") # Invalid /\ pc = "receive"
      BY <2>1 DEF Handles, Reads
    <2>3. crContext = NoContext
      BY <1>0, <2>2, Phases, HandleControl DEF SessionInv, NothingBeforeLib, ServesTool
    <2>4. CASE LibMissing(ParsedCommand(m).data, ParsedCommand(m).length) /\ Emit(<<>>)
      BY <2>2, <2>3, <2>4, EmitHeard DEF LibMissing, SilenceExcused
    <2>5. CASE LibWithoutContext(ParsedCommand(m).data, ParsedCommand(m).length) /\ Emit(<<>>)
      BY <2>2, <2>5, EmitHeard DEF LibWithoutContext, SilenceExcused
    <2>6. CASE LibUnlicensed(ParsedCommand(m).data, ParsedCommand(m).length) /\ Emit(<<Error(LicenseError)>>)
      BY <2>2, <2>6, SilentError DEF LibUnlicensed, NeedsGlobalLicense
    <2>7. CASE LibAccepted(ParsedCommand(m).data, ParsedCommand(m).length) /\ Emit(<<Yes>>)
      BY <1>1, <2>7, SuccessIsTold
    <2>8. QED
      BY <2>1, <2>4, <2>5, <2>6, <2>7
  <1>7. CASE HandleFile
    <2>1. UNCHANGED <<state, held, granted>>
      BY <1>7 DEF HandleFile
    <2>2. \/ \E r \in {Error(errType), Error(FileIoError), Error(OtherError)} : Emit(<<r>>)
          \/ \E p, f : Emit(<<FileCont(p, f)>>)
          \/ AllocMayFail /\ Emit(<<>>)
      <3>1. pc = "receive" /\ pc' # "crashed"
        BY <1>0, HandleControl DEF Stopped
      <3>2. ~approved => errType # UndefinedError
        BY <3>1 DEF RefusalReason
      <3>3. QED
        BY <1>7, <3>1, <3>2 DEF HandleFile, FileRefused, FileFails, FileDelivered, FileWithoutLibrary
    <2>3. CASE AllocMayFail /\ Emit(<<>>)
      BY <2>1, <2>3, EmitHeard DEF SilenceExcused
    <2>4. QED
      BY <2>1, <2>2, <2>3, SilentError
  <1>8. QED
    BY <1>2, <1>3, <1>4, <1>5, <1>6, <1>7 DEF Handle

\* A handler keeps the reason of a refusal on record, and sends that one.
LEMMA HandleAnswer ==
  ASSUME AnswerInv, Handle
  PROVE  NothingRead' /\ RefusalReason' /\ RefusalExplained'
  <1> USE DEF AnswerInv
  <1>0. TypeOK /\ state \in SessionStates
    BY DEF SessionInv, TypeOK
  <1>1. /\ pc = "receive" /\ pc' \in {"receive", "killed", "crashed"} /\ argv = ServeTool
        /\ UNCHANGED <<argv, peerOpen>>
    BY <1>0, HandleControl DEF SessionInv, ServesTool
  <1>2. NothingRead'
    BY <1>1 DEF NothingRead
  <1>3. CASE HandleLib
    <2>1. PICK m \in Requests :
            LET data == ParsedCommand(m).data
                length == ParsedCommand(m).length
            IN /\ Handles(m, "LIB")
               /\ \/ LibMissing(data, length) \/ LibWithoutContext(data, length)
                  \/ LibUnlicensed(data, length) \/ LibAccepted(data, length)
      BY <1>3 DEF HandleLib
    <2>2. handled'.name = "LIB"
      BY <2>1 DEF Handles, Reads
    <2>3. RefusalReason'
      BY <1>1, <2>1 DEF RefusalReason, LibMissing, LibWithoutContext, LibUnlicensed, LibAccepted,
         UndefinedError, SslError, FileNotFound, OtherError, LicenseError
    <2>4. QED
      BY <1>2, <2>2, <2>3 DEF RefusalExplained
  <1>4. CASE ~HandleLib
    <2>1. UNCHANGED <<approved, errType>>
      BY <1>4 DEF Handle, Reject, HandleVersion, HandleTools, HandleFeature, HandleReturnFeature,
         HandleLicense, HandleFile, ctx
    <2>2. RefusalReason'
      BY <1>1, <2>1 DEF RefusalReason
    <2>3. CASE Reject
      <3>1. PICK m \in Requests : /\ Reads(m) /\ Emit(<<Error(NotUnderstood)>>) /\ UNCHANGED state
                                  /\ GrammarError(m) # "VALID" \/ NextState(state, m.name) = Invalid
        BY <2>3 DEF Reject
      <3>2. handled' = m
        BY <3>1 DEF Reads
      <3>3. handled'.name = "FILE" /\ state' = "LICENSE" => GrammarError(handled') # "VALID"
        BY <3>1, <3>2 DEF NextState, Invalid, LicensePhaseCommands
      <3>4. peerOpen => sent' = <<Error(NotUnderstood)>> \/ (AllocMayFail /\ sent' = <<>>)
        BY <3>1, EmitHeard DEF Starved
      <3>5. ~approved' => errType' \notin {UndefinedError, SslError}
        BY <1>1, <2>1 DEF RefusalReason
      <3>6. QED
        BY <1>1, <1>2, <2>2, <3>3, <3>4, <3>5 DEF RefusalExplained
    <2>4. CASE HandleFile
      <3>1. PICK m \in Requests :
              /\ Handles(m, "FILE")
              /\ \/ FileRefused \/ FileFails(ParsedCommand(m).data)
                 \/ FileDelivered(ParsedCommand(m).data) \/ FileWithoutLibrary
        BY <2>4 DEF HandleFile
      <3>2. handled' = m /\ GrammarError(handled') = "VALID"
        BY <3>1 DEF Handles, Reads
      <3>3. ~approved' => ~approved /\ FileRefused /\ errType' \notin {UndefinedError, SslError}
        BY <1>1, <2>1, <3>1 DEF FileFails, FileDelivered, FileWithoutLibrary, RefusalReason
      <3>4. peerOpen /\ ~approved' => sent' = <<Error(errType)>> \/ (AllocMayFail /\ sent' = <<>>)
        BY <2>1, <3>3, EmitHeard DEF FileRefused, Starved
      <3>5. QED
        BY <1>1, <1>2, <2>1, <2>2, <3>2, <3>3, <3>4 DEF RefusalExplained
    <2>5. CASE ~Reject /\ ~HandleFile
      <3>1. handled'.name # "FILE"
        BY <1>4, <2>5 DEF Handle, HandleVersion, HandleTools, HandleFeature, HandleReturnFeature,
           HandleLicense, Handles, Reads
      <3>2. QED
        BY <1>2, <2>2, <3>1 DEF RefusalExplained
    <2>6. QED
      BY <2>3, <2>4, <2>5
  <1>5. QED
    BY <1>3, <1>4

\* No other step reads or writes a message; those that change the approval or
\* the context run before the first one is read.
LEMMA AnswerStep == AnswerInv /\ [Next]_vars => AnswerInv'
  <1> SUFFICES ASSUME AnswerInv, [Next]_vars, ~Handle
               PROVE  NothingRead' /\ RefusalReason' /\ RefusalExplained'
    BY HandleAnswer, SessionStep DEF AnswerInv
  <1> USE DEF AnswerInv, NothingRead, RefusalReason, RefusalExplained,
              ctx, process, peer, history
  <1>1. CASE SslSetup \/ Handshake
    BY <1>1 DEF SslSetup, Handshake
  <1>2. CASE ValidatePubkey
    BY <1>2 DEF ValidatePubkey, ToolNotAllowed, UndefinedError, SslError
  <1>3. CASE ReadEof \/ Shutdown
    BY <1>3 DEF ReadEof, Shutdown
  <1>4. CASE CheckoutLibpath \/ CheckoutNamedFeature
    <2>1. /\ handled = NoMessage /\ UNCHANGED <<handled, sent>>
          /\ pc' \in {"feature", "exited", "crashed"}
      BY <1>4 DEF CheckoutLibpath, CheckoutNamedFeature, Exit
    <2>2. QED
      BY <2>1
  <1>5. CASE PeerSends \/ PeerCloses \/ Dies
    <2>1. /\ pc' \in {pc, "killed"} /\ (peerOpen' => peerOpen)
          /\ UNCHANGED <<state, approved, errType, handled, sent>>
      BY <1>5 DEF PeerSends, PeerCloses, Dies
    <2>2. QED
      BY <2>1
  <1>6. CASE Terminated \/ UNCHANGED vars
    BY <1>6 DEF Terminated, vars
  <1>7. QED
    BY <1>1, <1>2, <1>3, <1>4, <1>5, <1>6 DEF Next, Lve

\* Nothing is read, refused or answered when the process starts.
LEMMA AnswerInit == Init => AnswerInv
  BY SessionStarts DEF Init, AnswerInv, NothingRead, RefusalReason, RefusalExplained

\* Only a handler takes a message from the pipe and lives on (mlle_lve_receive).
LEMMA OnlyHandlersReceive ==
  ASSUME TypeOK, [Next]_vars, ~Handle, Receives
  PROVE  pc' \in Stopped
  <1>1. inbox \in Seq(Requests) /\ inbox # <<>> /\ pc = "receive" /\ inbox' = Tail(inbox)
    BY DEF TypeOK, Receives
  <1>2. inbox' # inbox /\ \A m \in Requests : inbox' # Append(inbox, m)
    BY <1>1
  <1>3. CASE Lve
    BY <1>1, <1>3 DEF Lve, SslSetup, Handshake, ValidatePubkey, ReadEof, Shutdown, CheckoutLibpath,
       CheckoutNamedFeature
  <1>4. CASE PeerSends \/ PeerCloses \/ Dies
    BY <1>1, <1>2, <1>4 DEF PeerSends, PeerCloses, Dies, Stopped
  <1>5. CASE Terminated \/ UNCHANGED vars
    BY <1>1, <1>2, <1>5 DEF Terminated, vars, Stopped
  <1>6. QED
    BY <1>3, <1>4, <1>5 DEF Next

\* Every request is answered exactly once while the tool listens, whatever the
\* messages and wherever memory fails, but for a LIB that left no context and
\* an error that found no memory; what succeeded is told in any case.
THEOREM OneAnswer == Spec => AnsweredOnce
  <1>1. AnswerInv /\ [Next]_vars
          => [Receives /\ peerOpen /\ pc' \notin Stopped =>
                Len(sent') = 1 \/ (sent' = <<>> /\ SilenceExcused)]_vars
    BY HandleAnswers, OnlyHandlersReceive DEF AnswerInv, SessionInv
  <1>2. QED
    BY <1>1, AnswerInit, AnswerStep, PTL DEF Spec, AnsweredOnce

\* A refused tool that asks for a file is told a reason that concerns it, or
\* nothing for want of memory.
THEOREM RefusalHasReason == Spec => []RefusalExplained
  <1>1. AnswerInv => RefusalExplained
    BY DEF AnswerInv
  <1>2. QED
    BY <1>1, AnswerInit, AnswerStep, PTL DEF Spec

-----------------------------------------------------------------------------
(* The checkout from the command line.                                       *)

\* Until the feature is asked for nothing is held: libpath takes the global
\* licence for an approved tool only, and there is no tool.
NothingHeldYet == pc \in {"libpath", "feature"} => held = {}

ExitInv == KeyInv /\ ServesTool /\ NothingHeldYet /\ ExitStatusTruthful

\* Every step keeps the exit status true (_checkout_feature in lve.c).
LEMMA ExitStep == ExitInv /\ SessionInv /\ [Next]_vars => ExitInv'
  <1> SUFFICES ASSUME ExitInv, SessionInv, [Next]_vars
               PROVE  NothingHeldYet' /\ ExitStatusTruthful'
    BY KeyStep, SessionStep DEF ExitInv, SessionInv
  <1> USE DEF ExitInv, NothingHeldYet, ExitStatusTruthful, ctx, process, peer, history
  <1>0. TypeOK /\ Mode /\ ServeTool \notin CommandLines
    BY StartAssumption DEF SessionInv
  <1>1. CASE Handle
    BY <1>0, <1>1, HandleControl
  <1>2. CASE SslSetup \/ Handshake \/ ValidatePubkey \/ ReadEof \/ Shutdown
    BY <1>2 DEF ServesTool, SslSetup, Handshake, ValidatePubkey, ReadEof, Shutdown
  <1>3. CASE CheckoutLibpath
    <2>1. held = {} /\ ~approved
      BY <1>3 DEF CheckoutLibpath, KeyInv, QuietBefore
    <2>2. UNCHANGED <<argv, held>> /\ ((pc' = "exited" /\ exitCode' = 1) \/ pc' = "feature")
      BY <1>3, <2>1 DEF CheckoutLibpath, Exit, LibMissing, LibWithoutContext, LibUnlicensed,
         LibAccepted, NeedsGlobalLicense, licence
    <2>3. QED
      BY <2>1, <2>2
  <1>4. CASE CheckoutNamedFeature
    <2>1. held = {} /\ argv' = argv
      BY <1>4 DEF CheckoutNamedFeature
    <2>2. \/ pc' = "crashed"
          \/ pc' = "exited" /\ exitCode' = 0 /\ held' = held \cup {argv.feature}
          \/ pc' = "exited" /\ exitCode' = 1 /\ held' = held
      BY <1>4 DEF CheckoutNamedFeature, Exit, FeatureGranted, FeatureDenied, CheckoutFeature
    <2>3. QED
      BY <2>1, <2>2
  <1>5. CASE PeerSends \/ PeerCloses \/ Dies
    BY <1>5 DEF PeerSends, PeerCloses, Dies
  <1>6. CASE Terminated \/ UNCHANGED vars
    BY <1>6 DEF Terminated, vars
  <1>7. QED
    BY <1>1, <1>2, <1>3, <1>4, <1>5, <1>6 DEF Next, Lve

\* The exit status of --checkout-feature is 0 exactly if the feature is checked
\* out, for every library and feature.
THEOREM ExitTellsTruth == Spec => []ExitStatusTruthful
  <1>1. Init => ExitInv /\ SessionInv
    <2>1. Init => KeyInv
      BY TypeInit, NoContent
         DEF Init, KeyInv, QuietBefore, ApprovedKey, DeliveredToTrustedTool, DeliversFile
    <2>2. QED
      BY <2>1, SessionStarts
         DEF Init, ExitInv, SessionInv, NothingHeldYet, ExitStatusTruthful
  <1>2. ExitInv => ExitStatusTruthful
    BY DEF ExitInv
  <1>3. QED
    BY <1>1, <1>2, ExitStep, SessionStep, PTL DEF Spec
================================================================================
