------------------------------ MODULE LveServer ------------------------------
(***************************************************************************)
(* The library vendor executable (LVE): the process that holds the library's *)
(* keys. It is started either by a tool, which it serves over TLS on its     *)
(* standard streams until the tool goes away, or from the command line with  *)
(* --checkout-feature, where it checks one feature out and exits.            *)
(*                                                                         *)
(* One action per handler. The peer is any program that speaks TLS: it may   *)
(* send any of Requests in any order and close at any time. The licence      *)
(* manager is a plug-in (mlle_license_manager.h) whose calls may fail.       *)
(***************************************************************************)
EXTENDS LveProtocol

CONSTANTS
  Data,          \* what the body of a message can say: a path, a feature, a package
  EmptyData,     \* the body of length 0
  Requests,      \* the messages a peer may send
  Keys,          \* public keys a certificate may hold
  TrustedKeys,   \* PUBLIC_KEY_TOOL: the keys compiled into this LVE
  NoKey,         \* no certificate was presented (global_tool_pub_key is NULL)
  Directories,   \* paths that exist and are directories
  Readable,      \* <<library path, file>> pairs that can be read
  Encrypted,     \* files with the extension .moc
  Licensed,      \* features the licence manager has licences for
  GlobalFeature, \* MLLE_GLOBAL_LICENSE_FEATURE, or NoFeature when not defined
  NoFeature,
  CommandLines,  \* arguments of --libpath and --checkout-feature
  ServeTool,     \* started without options, by a tool
  NoPath,        \* lve_ctx->libpath is NULL
  NoContext,     \* lve_ctx->cr_context is NULL
  NoLicense,     \* lve_ctx->lic_mgr is NULL
  NoMessage,     \* nothing was handled yet
  AllocMayFail,  \* may the allocations whose result is tested return NULL?
  MaxInbox       \* messages the pipe holds before the LVE reads one

WireMessages ==
  [name : Commands \cup {Blank, Unknown},
   args : Seq(Int \cup {NotAnInt}),
   body : Data \cup {NoBody}]

ASSUME DataAssumption ==
  /\ EmptyData \in Data
  /\ NoBody \notin Data /\ NoPath \notin Data /\ NoFeature \notin Data
  /\ Directories \subseteq Data \ {EmptyData}
  /\ Readable \subseteq Data \X Data
  /\ Encrypted \subseteq Data
  /\ Licensed \subseteq Data
  /\ GlobalFeature \in Data \cup {NoFeature}
ASSUME PeerAssumption ==
  /\ Requests \subseteq WireMessages
  /\ NoMessage \notin WireMessages
  /\ TrustedKeys \subseteq Keys /\ NoKey \notin Keys
  /\ MaxInbox \in Nat \ {0}
ASSUME StartAssumption ==
  /\ CommandLines \subseteq [libpath : Data, feature : Data]
  /\ ServeTool \notin [libpath : Data, feature : Data]
  /\ NoContext \notin Data
  /\ NoLicense \notin [libpath : Data \cup {NoPath}]
  /\ AllocMayFail \in BOOLEAN

VARIABLES
  argv,        \* how the process was started
  pc,          \* where main() is
  exitCode,    \* -1 while running
  ssl,         \* lve_ctx->ssl is set
  peerKey,     \* global_tool_pub_key
  peerOpen,    \* the peer has not closed the connection
  inbox,       \* messages sent and not yet read
  state,       \* the session state of mlle_lve_receive
  libpath, approved, errType, licMgr, crContext,   \* struct mlle_lve_ctx
  held,        \* features the licence manager counts as checked out
  granted,     \* features ever checked out by this process (history)
  handled,     \* the message handled last (history)
  sent         \* the replies written while handling it (history)

ctx     == <<libpath, approved, errType, licMgr, crContext>>
licence == <<licMgr, held, granted>>
peer    == <<peerKey, peerOpen, inbox>>
process == <<argv, exitCode, ssl>>
history == <<handled, sent>>
vars    == <<argv, pc, exitCode, ssl, peerKey, peerOpen, inbox, state, libpath, approved,
             errType, licMgr, crContext, held, granted, handled, sent>>

Stopped == {"exited", "crashed", "killed"}
PcValues == {"setup", "handshake", "validate", "receive", "shutdown",
             "libpath", "feature"} \cup Stopped

-----------------------------------------------------------------------------
\* Replies: command, number (protocol version or error id), data.
Reply(c, n, d) == [command |-> c, number |-> n, data |-> d]
Yes            == Reply("YES", 0, NoBody)
No             == Reply("NO", 0, NoBody)
NotSimple      == Reply("NOTSIMPLE", 0, NoBody)
Version(n)     == Reply("VERSION", n, NoBody)
Error(n)       == Reply("ERROR", n, NoBody)
FileCont(p, f) == Reply("FILECONT", 0, <<p, f>>)

Replies == [command : {"YES", "NO", "NOTSIMPLE", "VERSION", "ERROR", "FILECONT"},
            number : Nat,
            data : (Data \X Data) \cup {NoBody}]

\* The forms with a length are put together in memory of their own
\* (mlle_send_length_form, mlle_send_number_and_length_form); without it they
\* are not sent and nobody is told. The other replies need none.
NeedsMemory == {"NO", "ERROR", "FILECONT"}
Starved(replies) == AllocMayFail /\ \E i \in DOMAIN replies : replies[i].command \in NeedsMemory

\* ssl_write_message: nobody looks at its result. Writing to a pipe whose
\* reader is gone raises SIGPIPE, which kills the process unless its parent
\* had it ignored.
Emit(replies) ==
  \/ IF peerOpen \/ replies = <<>>
       THEN sent' = replies /\ pc' = pc
       ELSE sent' = <<>> /\ pc' \in {"receive", "killed"}
  \/ Starved(replies) /\ sent' = <<>> /\ pc' = pc

\* The loop of mlle_lve_receive has read the next message.
Reads(m) ==
  /\ pc = "receive" /\ inbox # <<>>
  /\ m = Head(inbox)
  /\ inbox' = Tail(inbox)
  /\ handled' = m
  /\ UNCHANGED <<process, peerKey, peerOpen>>

\* ... and it is a valid message with command c, which state accepts.
Handles(m, c) ==
  /\ Reads(m)
  /\ GrammarError(m) = "VALID"
  /\ m.name = c
  /\ NextState(state, c) # Invalid

-----------------------------------------------------------------------------
Init ==
  /\ argv \in CommandLines \cup {ServeTool}
  /\ pc = IF argv = ServeTool THEN "setup" ELSE "libpath"
  /\ exitCode = -1
  /\ ssl = FALSE
  /\ peerKey = NoKey /\ peerOpen = TRUE /\ inbox = <<>>
  /\ state = "VERSION"
  /\ libpath = NoPath /\ approved = FALSE /\ errType = UndefinedError
  /\ licMgr = NoLicense /\ crContext = NoContext
  /\ held = {} /\ granted = {}
  /\ handled = NoMessage /\ sent = <<>>

\* ssl_setup_lve.
SslSetup ==
  /\ pc = "setup"
  /\ \/ ssl' = TRUE /\ pc' = "handshake" /\ UNCHANGED errType
     \/ ssl' = FALSE /\ pc' = "shutdown" /\ errType' = SslError
  /\ UNCHANGED <<argv, exitCode, peer, state, libpath, approved, licMgr, crContext,
                 held, granted, history>>

\* lve_perform_handshake; cert_verify_callback stores the key of the
\* certificate, if the peer presents one.
Handshake ==
  /\ pc = "handshake"
  /\ \/ /\ peerOpen
        /\ \E k \in Keys \cup {NoKey} : peerKey' = k
        /\ pc' = "validate"
        /\ UNCHANGED errType
     \/ pc' = "shutdown" /\ errType' = SslError /\ UNCHANGED peerKey
  /\ UNCHANGED <<process, peerOpen, inbox, state, libpath, approved, licMgr, crContext,
                 held, granted, history>>

\* Seeded bug: a refused tool is not told why.
ValidatePubkeySilently ==
  /\ pc = "validate"
  /\ pc' = "receive"
  /\ approved' = (peerKey \in TrustedKeys)
  /\ UNCHANGED <<process, peer, state, libpath, errType, licMgr, crContext, held, granted, history>>

\* mlle_lve_validate_pubkey: strcmp() on a NULL key ends the process.
ValidatePubkey ==
  /\ pc = "validate"
  /\ IF peerKey = NoKey /\ TrustedKeys # {}
       THEN pc' = "crashed" /\ UNCHANGED <<approved, errType>>
       ELSE /\ pc' = "receive"
            /\ IF peerKey \in TrustedKeys
                 THEN approved' = TRUE /\ UNCHANGED errType
                 ELSE approved' = FALSE /\ errType' = ToolNotAllowed
  /\ UNCHANGED <<process, peer, state, libpath, licMgr, crContext, held, granted, history>>

\* Seeded bug: the next state is stored before it is tested.
RejectForgetsState ==
  \E m \in Requests :
    /\ Reads(m)
    /\ GrammarError(m) # "VALID" \/ NextState(state, m.name) = Invalid
    /\ state' = NextState(state, m.name)
    /\ Emit(<<Error(NotUnderstood)>>)
    /\ UNCHANGED <<ctx, held, granted>>

\* Seeded bug: such a message is skipped.
RejectSilently ==
  \E m \in Requests :
    /\ Reads(m)
    /\ GrammarError(m) # "VALID" \/ NextState(state, m.name) = Invalid
    /\ Emit(<<>>)
    /\ UNCHANGED <<state, ctx, held, granted>>

\* mlle_lve_receive, mlle_lve_handle_command: a message that does not parse,
\* or whose command the session state does not accept.
Reject ==
  \E m \in Requests :
    /\ Reads(m)
    /\ GrammarError(m) # "VALID" \/ NextState(state, m.name) = Invalid
    /\ Emit(<<Error(NotUnderstood)>>)
    /\ UNCHANGED <<state, ctx, held, granted>>

HandleVersion ==
  \E m \in Requests :
    /\ Handles(m, "VERSION")
    /\ IF ParsedCommand(m).number < MinProtocolVersion
         THEN state' = "VERSION" /\ Emit(<<Error(VersionTooLow)>>)
         ELSE state' = NextState(state, "VERSION") /\ Emit(<<Version(MaxProtocolVersion)>>)
    /\ UNCHANGED <<ctx, held, granted>>

\* mlle_lve_tools: a placeholder reply.
HandleTools ==
  \E m \in Requests :
    /\ Handles(m, "TOOLS")
    /\ state' = NextState(state, "TOOLS")
    /\ Emit(<<Version(4)>>)
    /\ UNCHANGED <<ctx, held, granted>>

-----------------------------------------------------------------------------
(* The licence manager, a plug-in behind mlle_license_manager.h. *)

\* Seeded bug: the licence manager is set up before the path is stored.
SetupLicensingEarly(path) ==
  licMgr' = IF licMgr = NoLicense THEN [libpath |-> libpath] ELSE licMgr

\* mlle_lve_setup_licensing: mlle_license_new on first use.
SetupLicensing(path) ==
  licMgr' = IF licMgr = NoLicense THEN [libpath |-> path] ELSE licMgr
SetupFails == licMgr = NoLicense /\ UNCHANGED licMgr

CheckoutFeature(f) ==
  /\ f \in Licensed
  /\ held' = held \cup {f}
  /\ granted' = granted \cup {f}

CheckinFeature(f) == held' = held \ {f} /\ UNCHANGED granted

-----------------------------------------------------------------------------
(* mlle_lve_libpath, one operator per way out of it. *)

LibMissing(data, length) ==
  /\ data = NoBody \/ length = 0
  /\ errType' = FileNotFound
  /\ UNCHANGED <<libpath, approved, crContext, licence>>

LibWithoutContext(data, length) ==
  /\ data # NoBody /\ length # 0
  /\ AllocMayFail
  /\ libpath' = data
  /\ crContext' = NoContext
  /\ errType' = OtherError
  /\ UNCHANGED <<approved, licence>>

NeedsGlobalLicense == approved /\ GlobalFeature # NoFeature

\* Seeded bug: the failed checkout is reported and has no consequence.
LibUnlicensedStaysApproved(data, length) ==
  /\ data # NoBody /\ length # 0
  /\ NeedsGlobalLicense
  /\ libpath' = data
  /\ crContext' = data
  /\ SetupFails \/ SetupLicensing(data)
  /\ errType' = LicenseError
  /\ UNCHANGED <<approved, held, granted>>

LibUnlicensed(data, length) ==
  /\ data # NoBody /\ length # 0
  /\ NeedsGlobalLicense
  /\ libpath' = data
  /\ crContext' = data
  /\ SetupFails \/ SetupLicensing(data)
  /\ approved' = FALSE
  /\ errType' = LicenseError
  /\ UNCHANGED <<held, granted>>

\* Seeded bug: a library that was opened approves the tool.
LibAcceptedApproves(data, length) ==
  /\ data # NoBody /\ length # 0
  /\ libpath' = data
  /\ crContext' = data
  /\ IF NeedsGlobalLicense
       THEN SetupLicensing(data) /\ CheckoutFeature(GlobalFeature)
       ELSE UNCHANGED licence
  /\ errType' = IF data \in Directories THEN errType ELSE FileNotFound
  /\ approved' = TRUE

LibAccepted(data, length) ==
  /\ data # NoBody /\ length # 0
  /\ libpath' = data
  /\ crContext' = data
  /\ IF NeedsGlobalLicense
       THEN SetupLicensing(data) /\ CheckoutFeature(GlobalFeature)
       ELSE UNCHANGED licence
  \* validate_directory, after the reply
  /\ errType' = IF data \in Directories THEN errType ELSE FileNotFound
  /\ UNCHANGED approved

HandleLib ==
  \E m \in Requests :
    LET data   == ParsedCommand(m).data
        length == ParsedCommand(m).length
    IN /\ Handles(m, "LIB")
       /\ state' = NextState(state, "LIB")
       /\ \/ LibMissing(data, length)        /\ Emit(<<>>)
          \/ LibWithoutContext(data, length) /\ Emit(<<>>)
          \/ LibUnlicensed(data, length)     /\ Emit(<<Error(LicenseError)>>)
          \/ LibAccepted(data, length)       /\ Emit(<<Yes>>)

-----------------------------------------------------------------------------
(* mlle_lve_feature and mlle_lve_returnfeature. *)

FeatureGranted(f) == SetupLicensing(libpath) /\ CheckoutFeature(f)
FeatureDenied     == SetupLicensing(libpath) /\ UNCHANGED <<held, granted>>
LicensingFails    == SetupFails /\ UNCHANGED <<held, granted>>

\* Seeded bug: no return after the error of mlle_lve_setup_licensing.
HandleFeatureFallsThrough ==
  \E m \in Requests :
    /\ Handles(m, "FEATURE")
    /\ \/ LicensingFails                        /\ Emit(<<Error(LicenseError), No>>)
       \/ FeatureGranted(ParsedCommand(m).data) /\ Emit(<<Yes>>)
       \/ FeatureDenied                         /\ Emit(<<No>>)
    /\ UNCHANGED <<state, libpath, approved, errType, crContext>>

HandleFeature ==
  \E m \in Requests :
    /\ Handles(m, "FEATURE")
    /\ \/ LicensingFails                        /\ Emit(<<Error(LicenseError)>>)
       \/ FeatureGranted(ParsedCommand(m).data) /\ Emit(<<Yes>>)
       \/ FeatureDenied                         /\ Emit(<<No>>)
    /\ UNCHANGED <<state, libpath, approved, errType, crContext>>

HandleReturnFeature ==
  \E m \in Requests :
    /\ Handles(m, "RETURNFEATURE")
    /\ \/ LicensingFails /\ Emit(<<Error(LicenseError)>>)
       \/ /\ SetupLicensing(libpath)
          /\ CheckinFeature(ParsedCommand(m).data)
          /\ Emit(<<Yes>>)
       \/ FeatureDenied  /\ Emit(<<Error(LicenseError)>>)
    /\ UNCHANGED <<state, libpath, approved, errType, crContext>>

\* mlle_lve_license and mlle_lve_returnlicense.
HandleLicense ==
  \E m \in Requests :
    /\ Handles(m, "LICENSE") \/ Handles(m, "RETURNLICENSE")
    /\ Emit(<<NotSimple>>)
    /\ UNCHANGED <<state, ctx, held, granted>>

-----------------------------------------------------------------------------
(* mlle_lve_file. *)

\* A disapproved tool gets whatever error was stored last. The code tests the
\* message, which is set wherever the number is.
FileRefused ==
  /\ ~approved
  /\ Emit(IF errType # UndefinedError THEN <<Error(errType)>> ELSE <<>>)

\* Opening or reading the file fails; or memory runs out; or, for an
\* encrypted file, mlle_cr_decrypt does. Without memory for the message of
\* the error there is no reply.
FileFails(file) ==
  LET decrypting == <<libpath, file>> \in Readable /\ file \in Encrypted
  IN /\ approved
     /\ \/ Emit(<<Error(FileIoError)>>)
        \/ (AllocMayFail \/ decrypting) /\ Emit(<<Error(OtherError)>>)
        \/ AllocMayFail /\ decrypting /\ Emit(<<>>)

\* Seeded bug: no return after the error of a disapproved tool.
FileDeliveredAnyway(file) ==
  /\ <<libpath, file>> \in Readable
  /\ Emit(<<FileCont(libpath, file)>>)

FileDelivered(file) ==
  /\ approved
  /\ <<libpath, file>> \in Readable
  /\ Emit(<<FileCont(libpath, file)>>)

\* After a LIB without a path the path is NULL, which snprintf() is given for
\* %s: undefined. It prints "(null)", a directory without files (FileFails), or
\* ends the process.
FileWithoutLibrary == approved /\ libpath = NoPath /\ sent' = <<>> /\ pc' = "crashed"

HandleFile ==
  \E m \in Requests :
    LET file == ParsedCommand(m).data
    IN /\ Handles(m, "FILE")
       /\ FileRefused \/ FileFails(file) \/ FileDelivered(file) \/ FileWithoutLibrary
       /\ UNCHANGED <<state, ctx, held, granted>>

-----------------------------------------------------------------------------
\* Seeded bug: the loop goes on after the end of the file.
ReadEofIgnored ==
  /\ pc = "receive"
  /\ inbox = <<>> /\ ~peerOpen
  /\ UNCHANGED <<pc, process, peer, state, ctx, held, granted, history>>

\* ssl_read_message returns LE_EOF: close_notify, end of file or an I/O error.
ReadEof ==
  /\ pc = "receive"
  /\ inbox = <<>> /\ ~peerOpen
  /\ pc' = "shutdown"
  /\ UNCHANGED <<process, peer, state, ctx, held, granted, history>>

\* mlle_lve_shutdown: the licence manager goes first. SSL_shutdown() on a NULL
\* ssl is undefined, and its close_notify may meet a closed pipe.
Shutdown ==
  /\ pc = "shutdown"
  /\ \/ pc' = "exited" /\ exitCode' = 0
     \/ ~ssl /\ pc' = "crashed" /\ UNCHANGED exitCode
     \/ ssl /\ ~peerOpen /\ pc' = "killed" /\ UNCHANGED exitCode
  /\ licMgr' = NoLicense
  /\ libpath' = NoPath
  /\ UNCHANGED <<argv, ssl, peer, state, approved, errType, crContext, held, granted, history>>

-----------------------------------------------------------------------------
(* _checkout_feature: libpath, then feature, with no tool and no replies. *)

LengthOf(data) == IF data = EmptyData THEN 0 ELSE 1

Exit(code) == pc' = "exited" /\ exitCode' = code

CheckoutLibpath ==
  /\ pc = "libpath"
  /\ LET data == argv.libpath IN
       \/ LibMissing(data, LengthOf(data))        /\ Exit(1)
       \/ LibWithoutContext(data, LengthOf(data)) /\ Exit(1)
       \/ LibUnlicensed(data, LengthOf(data))     /\ Exit(1)
       \/ /\ LibAccepted(data, LengthOf(data))
          /\ IF data \in Directories
               THEN pc' = "feature" /\ UNCHANGED exitCode
               ELSE Exit(1)
  /\ UNCHANGED <<argv, ssl, peer, state, history>>

\* Seeded bug: the result of mlle_lve_feature is not looked at.
CheckoutNamedFeatureUntold ==
  /\ pc = "feature"
  /\ \/ LicensingFails /\ pc' = "crashed" /\ UNCHANGED exitCode
     \/ FeatureGranted(argv.feature) /\ Exit(0)
     \/ FeatureDenied /\ Exit(0)
  /\ UNCHANGED <<argv, ssl, peer, state, libpath, approved, errType, crContext, history>>

\* When licensing cannot be set up the error is sent all the same, over an
\* ssl that is NULL.
CheckoutNamedFeature ==
  /\ pc = "feature"
  /\ \/ LicensingFails /\ pc' = "crashed" /\ UNCHANGED exitCode
     \/ FeatureGranted(argv.feature) /\ Exit(0)
     \/ FeatureDenied /\ Exit(1)
  /\ UNCHANGED <<argv, ssl, peer, state, libpath, approved, errType, crContext, history>>

-----------------------------------------------------------------------------
(* The peer, and whatever else may end the process. *)

PeerSends ==
  /\ peerOpen /\ pc \in {"validate", "receive"} /\ Len(inbox) < MaxInbox
  /\ \E m \in Requests : inbox' = Append(inbox, m)
  /\ UNCHANGED <<process, pc, peerKey, peerOpen, state, ctx, held, granted, history>>

PeerCloses ==
  /\ argv = ServeTool /\ peerOpen
  /\ peerOpen' = FALSE
  /\ UNCHANGED <<process, pc, peerKey, inbox, state, ctx, held, granted, history>>

Dies ==
  /\ pc \notin Stopped
  /\ pc' = "killed"
  /\ UNCHANGED <<process, peer, state, ctx, held, granted, history>>

\* A process that has stopped stays stopped.
Terminated == pc \in Stopped /\ UNCHANGED vars

-----------------------------------------------------------------------------
Handle ==
  \/ Reject \/ HandleVersion \/ HandleTools \/ HandleLib \/ HandleFeature
  \/ HandleReturnFeature \/ HandleLicense \/ HandleFile

Lve ==
  \/ SslSetup \/ Handshake \/ ValidatePubkey
  \/ Handle \/ ReadEof \/ Shutdown
  \/ CheckoutLibpath \/ CheckoutNamedFeature

Next == Lve \/ PeerSends \/ PeerCloses \/ Dies \/ Terminated

Spec == Init /\ [][Next]_vars

\* The LVE is a single thread that never waits for anything but its input:
\* as long as it has a step it takes one. Nothing is assumed of the peer.
FairSpec == Spec /\ WF_vars(Lve)
-----------------------------------------------------------------------------
(* Properties. *)

\* Every variable keeps to its type; in particular a reply is always one the
\* protocol knows and the session state never becomes INVALID
\* (mlle_lve_handle_command falls back to the current state).
TypeOK ==
  /\ argv \in CommandLines \cup {ServeTool}
  /\ pc \in PcValues
  /\ exitCode \in {-1, 0, 1}
  /\ ssl \in BOOLEAN
  /\ peerKey \in Keys \cup {NoKey}
  /\ peerOpen \in BOOLEAN
  /\ inbox \in Seq(Requests)
  /\ state \in SessionStates
  /\ libpath \in Data \cup {NoPath}
  /\ approved \in BOOLEAN
  /\ errType \in ErrorIds
  /\ licMgr \in [libpath : Data \cup {NoPath}] \cup {NoLicense}
  /\ crContext \in Data \cup {NoContext}
  /\ held \subseteq Data
  /\ granted \subseteq Data
  /\ handled \in Requests \cup {NoMessage}
  /\ sent \in Seq(Replies)

DeliversFile == \E i \in DOMAIN sent : sent[i].command = "FILECONT"

\* No file content leaves the process unless the certificate of the TLS
\* handshake carried one of the keys compiled into the LVE, whatever came
\* between the handshake and the FILE command (mlle_lve_pubkey.c,
\* mlle_lve_file.c).
DeliveredToTrustedTool == DeliversFile => peerKey \in TrustedKeys

\* "If checkout fails, no files will be decrypted" (mlle_lve_config.h): when a
\* global licence feature is compiled in, no file content leaves the process
\* before a checkout of that feature has succeeded.
DeliveredUnderGlobalLicense ==
  DeliversFile /\ GlobalFeature # NoFeature => GlobalFeature \in granted

\* A tool that was refused, by its key or by the licence manager, is not
\* approved again in the same session, however it continues (tool_approved is
\* computed once and only ever cleared).
ApprovalNeverRegained == [][pc = "receive" /\ ~approved => ~approved']_vars

\* The step is the handling of a message.
Receives == pc = "receive" /\ inbox # <<>> /\ inbox' = Tail(inbox)

\* No reply, and yet no harm: a LIB that left no decryption context
\* (mlle_lve_libpath's silent returns); or, where memory may fail, a reply that
\* found none, when the message took no licence and gave none back, and the
\* session goes on without it only for a tool that LIB has just disapproved.
SilenceExcused ==
  \/ handled'.name = "LIB" /\ crContext' = NoContext
  \/ /\ AllocMayFail
     /\ UNCHANGED <<held, granted>>
     /\ state' = state \/ (handled'.name = "LIB" /\ approved /\ ~approved')

\* Every message is answered exactly once while the process lives and the peer
\* listens, so that requests and replies stay in step, but for the silences
\* above. With memory failing, too, what did succeed - a version, a library, a
\* licence taken or given back - is told: its reply needs no memory.
AnsweredOnce ==
  [][Receives /\ peerOpen /\ pc' \notin Stopped =>
       Len(sent') = 1 \/ (sent' = <<>> /\ SilenceExcused)]_vars

\* The licence manager, the decryption context and the file paths speak of
\* the same library for as long as the session serves it, although the licence
\* manager is created only when a command first needs it.
SameLibrary ==
  pc \notin Stopped =>
    /\ crContext # NoContext => crContext = libpath
    /\ licMgr # NoLicense => licMgr.libpath = libpath

\* The library of a session is chosen once: after LIB was accepted no sequence
\* of commands changes the path or the decryption context (the table accepts
\* LIB in no later state).
LibraryFixed ==
  [][pc = "receive" /\ state = "LICENSE" => UNCHANGED <<libpath, crContext>>]_vars

\* No licence is taken and no library is opened before the version was agreed
\* and a LIB accepted (the order of the states).
NothingBeforeLib ==
  argv = ServeTool /\ state # "LICENSE" =>
    held = {} /\ licMgr = NoLicense /\ libpath = NoPath /\ crContext = NoContext

\* A disapproved tool that asks for a file is told the reason on record, if
\* there is memory for the reply, and that reason concerns it: its key, the
\* licence, or the library path. It is overwritten on the way by LIB, and is
\* sent as it is then.
RefusalExplained ==
  handled # NoMessage /\ peerOpen /\ ~approved /\ state = "LICENSE" /\ handled.name = "FILE" =>
    /\ errType \notin {UndefinedError, SslError}
    /\ \/ sent = <<Error(IF GrammarError(handled) = "VALID" THEN errType ELSE NotUnderstood)>>
       \/ AllocMayFail /\ sent = <<>>

\* The exit status of --checkout-feature tells whether the feature is checked
\* out, although libpath and feature can each fail in several ways.
ExitStatusTruthful ==
  argv # ServeTool /\ pc = "exited" => (exitCode = 0 <=> argv.feature \in held)

\* The process does not outlive its purpose: it stops once the tool has closed
\* the connection, whatever was still in the pipe, and once a command-line
\* checkout is done.
StopsEventually == (argv = ServeTool => ~peerOpen) ~> pc \in Stopped

-----------------------------------------------------------------------------
(* What the LVE implements. *)

Delivery == IF DeliversFile THEN sent[1].data ELSE NoBody

Service == INSTANCE DecryptionService
  WITH running  <- pc \notin Stopped,
       library  <- libpath,
       entitled <- approved,
       licences <- held,
       delivery <- Delivery,
       Nothing  <- NoBody

\* When allocations succeed, the process of many states, its messages and its
\* licence manager is the decryption service the vendor was promised.
ImplementsService == Service!Spec

-----------------------------------------------------------------------------
(* What the documentation and the comments say and the code does not do.     *)

\* "Always send a reply." (mlle_lve_libpath.c).
AlwaysSendAReply == handled # NoMessage /\ peerOpen => sent # <<>>
=============================================================================
