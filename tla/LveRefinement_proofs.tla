-------------------------- MODULE LveRefinement_proofs --------------------------
(***************************************************************************)
(* The LVE implements the decryption service the vendor was promised         *)
(* (DecryptionService), for every set of constants under which allocations    *)
(* succeed: the initial states are initial states of the service, and every   *)
(* step of the process is a step of the service or leaves it alone.           *)
(***************************************************************************)
EXTENDS LveSession_proofs

ServiceInv == SessionInv /\ KeyInv

\* Opening a library, checking a feature out and so on all need a process that
\* runs; a step that changes neither entitlement nor licences, and delivers
\* nothing new, is a refusal.
LEMMA RefuseStep ==
  ASSUME pc \notin Stopped, UNCHANGED <<approved, held>>, Delivery' \in {NoBody, Delivery},
         libpath' \in {libpath, NoPath}, libpath' # libpath => pc' \in Stopped
  PROVE  Service!Next
  <1>1. Service!Refuse
    BY DEF Service!Refuse, Service!Serves
  <1>2. QED
    BY <1>1 DEF Service!Next

\* Without file content among its replies a step delivers nothing.
LEMMA NoDelivery ==
  ASSUME ~DeliversFile'
  PROVE  Delivery' = NoBody
  BY DEF Delivery

\* Every way out of mlle_lve_libpath opens the library, with the licence or
\* without the entitlement, or refuses to.
LEMMA LibServes ==
  ASSUME AllocMayFail = FALSE, TypeOK, pc \notin Stopped, libpath = NoPath,
         NEW STATE data, data \in Data \cup {NoBody}, NEW STATE length,
         \/ LibMissing(data, length) \/ LibWithoutContext(data, length)
         \/ LibUnlicensed(data, length) \/ LibAccepted(data, length),
         Delivery' = NoBody
  PROVE  Service!Next
  <1> USE DEF licence, Service!Open, Service!Serves
  <1>1. CASE LibMissing(data, length)
    BY <1>1, RefuseStep DEF LibMissing
  <1>2. CASE LibWithoutContext(data, length)
    BY <1>2 DEF LibWithoutContext
  <1>3. CASE LibUnlicensed(data, length)
    <2>1. data \in Data /\ Service!Open(data)
      BY <1>3 DEF LibUnlicensed
    <2>2. QED
      BY <2>1 DEF Service!Next
  <1>4. CASE LibAccepted(data, length)
    <2>1. data \in Data /\ Service!Open(data)
      BY <1>4 DEF LibAccepted, NeedsGlobalLicense, CheckoutFeature, TypeOK
    <2>2. QED
      BY <2>1 DEF Service!Next
  <1>5. QED
    BY <1>1, <1>2, <1>3, <1>4

\* Every handler is a step of the service.
LEMMA HandleServes ==
  ASSUME AllocMayFail = FALSE, ServiceInv, Handle
  PROVE  Service!Next
  <1> USE DEF ServiceInv
  <1>0. TypeOK /\ state \in SessionStates
    BY DEF SessionInv, TypeOK
  <1>1. pc = "receive" /\ pc \notin Stopped /\ argv = ServeTool
    BY <1>0, HandleControl DEF Stopped, SessionInv, ServesTool
  <1>2. ASSUME ~DeliversFile', UNCHANGED <<libpath, approved, held>>
        PROVE  Service!Next
    BY <1>1, <1>2, NoDelivery, RefuseStep
  <1>3. CASE Reject \/ HandleVersion \/ HandleTools \/ HandleLicense
    <2>1. UNCHANGED <<libpath, approved, held>>
      BY <1>3 DEF Reject, HandleVersion, HandleTools, HandleLicense, ctx
    <2>2. sent' = <<>> \/ \E r \in {Error(NotUnderstood), Error(VersionTooLow),
                                     Version(MaxProtocolVersion), Version(4), NotSimple} : sent' = <<r>>
      BY <1>3 DEF Reject, HandleVersion, HandleTools, HandleLicense, Emit
    <2>3. ~DeliversFile'
      BY <2>2, NoContent DEF DeliversFile, Error, Version, NotSimple, Reply
    <2>4. QED
      BY <1>2, <2>1, <2>3
  <1>4. CASE HandleFeature \/ HandleReturnFeature
    <2>1. PICK f \in Data \cup {NoBody} :
            /\ \/ UNCHANGED held \/ CheckoutFeature(f) \/ CheckinFeature(f)
            /\ UNCHANGED <<libpath, approved>>
      BY <1>4, ParsedData DEF HandleFeature, HandleReturnFeature, LicensingFails,
         FeatureGranted, FeatureDenied
    <2>2. sent' = <<>> \/ \E r \in {Error(LicenseError), Yes, No} : sent' = <<r>>
      BY <1>4 DEF HandleFeature, HandleReturnFeature, Emit
    <2>3. ~DeliversFile'
      BY <2>2, NoContent DEF DeliversFile, Error, Yes, No, Reply
    <2>4. Delivery' = NoBody
      BY <2>3, NoDelivery
    <2>5. CASE UNCHANGED held
      BY <1>2, <2>1, <2>3, <2>5
    <2>6. CASE CheckoutFeature(f)
      <3>1. f \in Data /\ Service!Checkout(f)
        BY <1>1, <2>1, <2>4, <2>6, DataAssumption DEF CheckoutFeature, Service!Checkout, Service!Serves
      <3>2. QED
        BY <3>1 DEF Service!Next
    <2>7. CASE CheckinFeature(f)
      <3>1. CASE f \in Data
        <4>1. Service!Return(f)
          BY <1>1, <2>1, <2>4, <2>7 DEF CheckinFeature, Service!Return, Service!Serves
        <4>2. QED
          BY <3>1, <4>1 DEF Service!Next
      <3>2. CASE f = NoBody
        <4>1. held' = held
          BY <1>0, <2>7, <3>2, DataAssumption DEF CheckinFeature, TypeOK
        <4>2. QED
          BY <1>2, <2>1, <2>3, <4>1
      <3>3. QED
        BY <3>1, <3>2
    <2>8. QED
      BY <2>1, <2>5, <2>6, <2>7
  <1>5. CASE HandleLib
    <2>1. PICK m \in Requests :
            LET data == ParsedCommand(m).data
                length == ParsedCommand(m).length
            IN /\ Handles(m, "LIB")
               /\ \/ LibMissing(data, length)        /\ Emit(<<>>)
                  \/ LibWithoutContext(data, length) /\ Emit(<<>>)
                  \/ LibUnlicensed(data, length)     /\ Emit(<<Error(LicenseError)>>)
                  \/ LibAccepted(data, length)       /\ Emit(<<Yes>>)
      BY <1>5 DEF HandleLib
    <2>2. libpath = NoPath
      BY <1>0, <1>1, <2>1, Phases DEF Handles, SessionInv, NothingBeforeLib
    <2>3. sent' = <<>> \/ \E r \in {Error(LicenseError), Yes} : sent' = <<r>>
      BY <2>1 DEF Emit
    <2>4. ~DeliversFile'
      BY <2>3, NoContent DEF DeliversFile, Error, Yes, Reply
    <2>5. Delivery' = NoBody
      BY <2>4, NoDelivery
    <2>6. QED
      BY <1>0, <1>1, <2>1, <2>2, <2>5, ParsedData, LibServes
  <1>6. CASE HandleFile
    <2>1. PICK m \in Requests :
            /\ \/ FileRefused \/ FileFails(ParsedCommand(m).data)
               \/ FileDelivered(ParsedCommand(m).data) \/ FileWithoutLibrary
            /\ UNCHANGED <<state, ctx, held, granted>>
      BY <1>6 DEF HandleFile
    <2>2. UNCHANGED <<libpath, approved, held>>
      BY <2>1 DEF ctx
    <2>3. CASE DeliversFile'
      <3>1. approved /\ <<libpath, ParsedCommand(m).data>> \in Readable
            /\ sent' = <<FileCont(libpath, ParsedCommand(m).data)>>
        <4>1. ~FileRefused
          BY <2>3, NoContent DEF DeliversFile, FileRefused, Emit, Error, Reply
        <4>2. ~FileFails(ParsedCommand(m).data)
          BY <2>3, NoContent DEF DeliversFile, FileFails, Emit, Error, Reply
        <4>3. FileDelivered(ParsedCommand(m).data)
          BY <2>1, <2>3, <4>1, <4>2, NoContent DEF DeliversFile, FileWithoutLibrary
        <4>4. QED
          BY <2>3, <4>3, NoContent DEF DeliversFile, FileDelivered, Emit
      <3>2. Delivery' = <<libpath, ParsedCommand(m).data>>
        BY <2>3, <3>1 DEF Delivery, FileCont, Reply
      <3>3. Service!Deliver(ParsedCommand(m).data)
        BY <1>1, <2>2, <3>1, <3>2 DEF Service!Deliver, Service!Serves
      <3>4. ParsedCommand(m).data \in Data
        BY <3>1, DataAssumption
      <3>5. QED
        BY <3>3, <3>4 DEF Service!Next
    <2>4. CASE ~DeliversFile'
      BY <1>2, <2>2, <2>4
    <2>5. QED
      BY <2>3, <2>4
  <1>7. QED
    BY <1>3, <1>4, <1>5, <1>6 DEF Handle

\* So is every other step, or it is invisible.
LEMMA StepServes ==
  ASSUME AllocMayFail = FALSE, ServiceInv, [Next]_vars
  PROVE  [Service!Next]_Service!vars
  <1> USE DEF ServiceInv, ctx, process, peer, history
  <1>0. TypeOK /\ pc \in PcValues
    BY DEF SessionInv, TypeOK
  <1>1. CASE Handle
    BY <1>1, HandleServes
  <1>2. ASSUME UNCHANGED <<libpath, approved, held, sent>>, pc \notin Stopped \/ UNCHANGED pc
        PROVE  [Service!Next]_Service!vars
    <2>1. Delivery' = Delivery
      BY <1>2 DEF Delivery, DeliversFile
    <2>2. CASE pc \notin Stopped
      BY <1>2, <2>1, <2>2, RefuseStep
    <2>3. CASE UNCHANGED pc
      BY <1>2, <2>1, <2>3 DEF Service!vars
    <2>4. QED
      BY <1>2, <2>2, <2>3
  <1>3. CASE SslSetup \/ Handshake \/ ReadEof
    BY <1>2, <1>3 DEF SslSetup, Handshake, ReadEof, Stopped
  <1>4. CASE PeerSends \/ PeerCloses \/ Dies
    BY <1>2, <1>4 DEF PeerSends, PeerCloses, Dies
  <1>5. CASE Terminated \/ UNCHANGED vars
    BY <1>2, <1>5 DEF Terminated, vars
  <1>6. CASE ValidatePubkey
    <2>1. libpath = NoPath /\ ~approved /\ pc \notin Stopped
      BY <1>6 DEF ValidatePubkey, SessionInv, FreshContext, KeyInv, QuietBefore, Stopped
    <2>2. UNCHANGED <<libpath, held, sent>>
      BY <1>6 DEF ValidatePubkey
    <2>3. CASE approved'
      <3>1. approved' = TRUE /\ Delivery' = Delivery
        BY <1>6, <2>2, <2>3 DEF ValidatePubkey, Delivery, DeliversFile
      <3>2. Service!Recognise
        BY <2>1, <2>2, <3>1 DEF Service!Recognise, Service!Serves
      <3>3. QED
        BY <3>2 DEF Service!Next
    <2>4. CASE ~approved'
      <3>1. approved' = approved
        BY <1>0, <1>6, <2>1, <2>4 DEF ValidatePubkey, TypeOK
      <3>2. QED
        BY <1>2, <2>1, <2>2, <3>1
    <2>5. QED
      BY <2>3, <2>4
  <1>7. CASE Shutdown
    <2>1. /\ pc \notin Stopped /\ pc' \in Stopped /\ libpath' = NoPath
          /\ UNCHANGED <<approved, held, sent>>
      BY <1>7 DEF Shutdown, Stopped
    <2>2. Delivery' = Delivery
      BY <2>1 DEF Delivery, DeliversFile
    <2>3. QED
      BY <2>1, <2>2, RefuseStep
  <1>8. CASE CheckoutLibpath
    <2>1. libpath = NoPath /\ sent = <<>> /\ pc \notin Stopped /\ argv \in CommandLines
      BY <1>8 DEF CheckoutLibpath, SessionInv, FreshContext, Mode, KeyInv, QuietBefore, Stopped
    <2>2. sent' = <<>> /\ argv.libpath \in Data
      BY <1>8, <2>1, StartAssumption DEF CheckoutLibpath
    <2>3. Delivery' = NoBody
      BY <2>2, NoContent DEF Delivery, DeliversFile
    <2>4. LET data == argv.libpath
              length == LengthOf(argv.libpath)
          IN \/ LibMissing(data, length) \/ LibWithoutContext(data, length)
             \/ LibUnlicensed(data, length) \/ LibAccepted(data, length)
      BY <1>8 DEF CheckoutLibpath
    <2>5. QED
      BY <1>0, <2>1, <2>2, <2>3, <2>4, LibServes
  <1>9. CASE CheckoutNamedFeature
    <2>1. sent = <<>> /\ sent' = <<>> /\ pc \notin Stopped /\ argv \in CommandLines
          /\ UNCHANGED <<libpath, approved>>
      BY <1>9 DEF CheckoutNamedFeature, SessionInv, Mode, KeyInv, QuietBefore, Stopped
    <2>2. argv.feature \in Data
      BY <2>1, StartAssumption
    <2>3. Delivery' = NoBody
      BY <2>1, NoContent DEF Delivery, DeliversFile
    <2>4. CASE UNCHANGED held
      BY <1>2, <2>1, <2>4
    <2>5. CASE FeatureGranted(argv.feature)
      <3>1. Service!Checkout(argv.feature)
        BY <2>1, <2>3, <2>5 DEF FeatureGranted, CheckoutFeature, Service!Checkout, Service!Serves
      <3>2. QED
        BY <2>2, <3>1 DEF Service!Next
    <2>6. QED
      BY <1>9, <2>4, <2>5 DEF CheckoutNamedFeature, LicensingFails, FeatureDenied
  <1>10. QED
    BY <1>1, <1>3, <1>4, <1>5, <1>6, <1>7, <1>8, <1>9 DEF Next, Lve

\* When allocations succeed, the LVE is an implementation of the decryption
\* service: a library opened once, files only for the entitled, entitlement
\* only with the global licence.
THEOREM LveImplementsService ==
  ASSUME AllocMayFail = FALSE
  PROVE  Spec => ImplementsService
  <1>1. Init => ServiceInv /\ Service!Init
    <2>1. Init => KeyInv
      BY TypeInit, NoContent
         DEF Init, KeyInv, QuietBefore, ApprovedKey, DeliveredToTrustedTool, DeliversFile
    <2>2. Init => Delivery = NoBody /\ pc \notin Stopped
      BY NoContent DEF Init, Delivery, DeliversFile, Stopped
    <2>3. QED
      BY <2>1, <2>2, SessionStarts DEF Init, ServiceInv, Service!Init
  <1>2. ServiceInv /\ [Next]_vars => ServiceInv'
    BY SessionStep, KeyStep DEF ServiceInv
  <1>3. ServiceInv /\ [Next]_vars => [Service!Next]_Service!vars
    BY StepServes
  <1>4. QED
    BY <1>1, <1>2, <1>3, PTL DEF Spec, ImplementsService, Service!Spec
================================================================================
