------------------------------ MODULE SemlaSession ------------------------------
(***************************************************************************)
(* A tool and the LVE it started: the calls of the tool library              *)
(* (mlle_licensing.h), the two pipes between the processes, and the LVE of    *)
(* LveServer on the far end. A call writes one request and blocks until the   *)
(* reply is complete; a large FILECONT takes several TLS records, which the   *)
(* LVE writes one at a time into a pipe of bounded room. Either process may   *)
(* die between any two steps, and memory may fail the tool during a call.     *)
(* Where the tool sees the end of a dead LVE, and where it waits for ever, is *)
(* the matter of Connections.                                                 *)
(***************************************************************************)
EXTENDS LveServer, SequencesExt

CONSTANTS
  Calls,          \* what the program using the library may ask: [api, arg]
  LateCalls,      \* ... once its LVE has ended or memory has failed (bound)
  LargeFiles,     \* files whose contents need more than one record
  Pieces,         \* the records of such a file
  MaxPipe,        \* records the pipe to the tool holds
  MaxCalls,       \* calls of one session (bound of the model)
  MinVersion, MaxVersion   \* protocol versions the program asks for

Apis == {"VERSION", "LIB", "FEATURE", "RETURNFEATURE", "LICENSE", "RETURNLICENSE", "FILE"}

\* mlle_tool_version and the other calls: the message each one sends.
Request(c) ==
  IF c.api = "VERSION"
    THEN [name |-> "VERSION", args |-> <<MaxVersion>>, body |-> NoBody]
    ELSE [name |-> c.api, args |-> <<LengthOf(c.arg)>>, body |-> c.arg]

ASSUME CallAssumption ==
  /\ Calls \subseteq [api : Apis, arg : Data]
  /\ LateCalls \subseteq Calls
  /\ Requests = {Request(c) : c \in Calls}
  /\ LargeFiles \subseteq Data
  /\ {Pieces, MaxPipe, MaxCalls} \subseteq Nat \ {0}
  /\ MinVersion \in Int /\ MaxVersion \in Int

VARIABLES
  tool,      \* where the tool's thread is
  asked,     \* the calls made so far, the last one being made or just returned
  outgoing,  \* records the LVE has still to write
  toTool,    \* records in the pipe
  reply,     \* the reply the tool is reading
  read,      \* records of it that have been read
  result,    \* what the last call returned
  licences,  \* features the program was told it has
  starved    \* memory has failed the tool on this connection (history)

toolVars    == <<tool, asked, reply, read, result, licences, starved>>
pipe        == <<outgoing, toTool>>
sessionVars == <<vars, toolVars, pipe>>

Waiting  == {"connecting", "waiting", "reading"}
Gone     == {"closed", "killed"}
Call     == asked[Len(asked)]
NoReply  == Reply("NONE", 0, NoBody)

\* Seeded bug: one record too many when the last one is full.
RecordsOfOneMore(r) ==
  LET n == IF r.command = "FILECONT" /\ r.data[2] \in LargeFiles THEN Pieces + 1 ELSE 1
  IN [i \in 1..n |-> [reply |-> r, piece |-> i, last |-> i = n, to |-> Len(asked)]]

\* Records of a reply, each with the number of the call it answers.
RecordsOf(r) ==
  LET n == IF r.command = "FILECONT" /\ r.data[2] \in LargeFiles THEN Pieces ELSE 1
  IN [i \in 1..n |-> [reply |-> r, piece |-> i, last |-> i = n, to |-> Len(asked)]]

-----------------------------------------------------------------------------
SessionInit ==
  /\ Init /\ argv = ServeTool
  /\ tool = "connecting"
  /\ asked = <<>>
  /\ outgoing = <<>> /\ toTool = <<>>
  /\ reply = NoReply /\ read = 0 /\ result = "none"
  /\ licences = {} /\ starved = FALSE

-----------------------------------------------------------------------------
(* The LVE. *)

\* A handler writes its reply before the loop reads on, and SIGPIPE stops both.
LveHandles ==
  /\ outgoing = <<>>
  /\ Handle
  /\ outgoing' = FlattenSeq([i \in DOMAIN sent' |-> RecordsOf(sent'[i])])
  /\ UNCHANGED <<toolVars, toTool>>

\* A tool presents its certificate (ssl_setup_tool).
LveRuns ==
  /\ outgoing = <<>>
  /\ SslSetup \/ (Handshake /\ (pc' = "validate" => peerKey' # NoKey))
     \/ ValidatePubkey \/ ReadEof \/ Shutdown
  /\ UNCHANGED <<toolVars, pipe>>

\* ssl_write_message: blocks while the pipe is full.
LveWrites ==
  /\ outgoing # <<>> /\ pc \notin Stopped /\ peerOpen
  /\ Len(toTool) < MaxPipe
  /\ toTool' = Append(toTool, Head(outgoing))
  /\ outgoing' = Tail(outgoing)
  /\ UNCHANGED <<vars, toolVars>>

\* Seeded bug: the loop of ssl_write_message retries after every error.
LveWriteRetries ==
  /\ outgoing # <<>> /\ pc \notin Stopped /\ ~peerOpen
  /\ UNCHANGED <<outgoing, vars, toolVars, toTool>>

\* ... and fails when there is no reader left.
LveWriteFails ==
  /\ outgoing # <<>> /\ pc \notin Stopped /\ ~peerOpen
  /\ outgoing' = <<>>
  /\ UNCHANGED vars \/ Dies
  /\ UNCHANGED <<toolVars, toTool>>

LveDies == Dies /\ outgoing' = <<>> /\ UNCHANGED <<toolVars, toTool>>

-----------------------------------------------------------------------------
(* The tool. *)

\* The connection is closed, or the whole process ends: what was said on it is
\* forgotten.
Over(how) ==
  /\ tool' = how
  /\ asked' = <<>> /\ reply' = NoReply /\ read' = 0 /\ result' = "none" /\ licences' = {}
  /\ starved' = FALSE

\* mlle_start_executable. A failed handshake is reported by the LVE's alert,
\* a failure of the tool's own setup comes before it.
Connects ==
  /\ tool = "connecting"
  /\ \/ /\ pc \in {"validate", "receive"} /\ tool' = "idle"
        /\ UNCHANGED <<vars, asked, reply, read, result, licences, starved>>
     \/ /\ pc \in {"setup", "handshake"} \/ (ssl /\ errType = SslError)
        /\ PeerCloses /\ Over("closed")
  /\ UNCHANGED pipe

\* Seeded bug: a second thread of the tool calls before the reply has come.
CallsLveAnytime ==
  /\ tool \in {"idle", "waiting"} /\ Len(asked) < MaxCalls
  /\ \E c \in Calls :
       /\ asked' = Append(asked, c)
       /\ inbox' = Append(inbox, Request(c))
  /\ pc \notin Stopped
  /\ tool' = "waiting" /\ result' = "none" /\ reply' = NoReply /\ read' = 0
  /\ UNCHANGED <<process, pc, peerKey, peerOpen, state, ctx, held, granted, history,
                 licences, starved, pipe>>

\* A call writes its request, once there is room for it in the pipe.
CallsLve ==
  /\ tool = "idle" /\ Len(asked) < MaxCalls /\ Len(inbox) < MaxInbox
  /\ \E c \in IF starved THEN LateCalls ELSE Calls :
       /\ asked' = Append(asked, c)
       /\ inbox' = Append(inbox, Request(c))
  /\ pc \notin Stopped
  /\ tool' = "waiting" /\ result' = "none" /\ reply' = NoReply /\ read' = 0
  /\ UNCHANGED <<process, pc, peerKey, peerOpen, state, ctx, held, granted, history,
                 licences, starved, pipe>>

\* mlle_send_length_form finds no memory for the request and tells nobody; the
\* call waits for a reply all the same. Once per connection: a bound.
RequestStarves ==
  /\ tool = "idle" /\ Len(asked) < MaxCalls /\ pc \notin Stopped /\ ~starved
  /\ \E c \in LateCalls : c.api # "VERSION" /\ asked' = Append(asked, c)
  /\ tool' = "waiting" /\ result' = "none" /\ reply' = NoReply /\ read' = 0
  /\ starved' = TRUE
  /\ UNCHANGED <<vars, licences, pipe>>

\* Writing to a dead LVE raises SIGPIPE; where the program ignores it only
\* mlle_tool_version sees the failure, the other calls go on to read.
CallsDeadLve ==
  /\ tool = "idle" /\ Len(asked) < MaxCalls
  /\ pc \in Stopped
  /\ \/ PeerCloses /\ Over("killed")
     \/ \E c \in LateCalls :
          /\ asked' = Append(asked, c)
          /\ IF c.api = "VERSION"
               THEN tool' = "idle" /\ result' = "failed"
               ELSE tool' = "waiting" /\ result' = "none"
          /\ reply' = NoReply /\ read' = 0
          /\ UNCHANGED <<vars, licences, starved>>
  /\ UNCHANGED pipe

\* Seeded bug: mlle_tool_feature takes any expected command for success.
JudgeExpected(c, r) ==
  CASE c.api = "VERSION" -> IF r.command = "VERSION" THEN "ok" ELSE "failed"
    [] c.api = "FILE"    -> IF r.command = "FILECONT" THEN "ok" ELSE "failed"
    [] OTHER             -> IF r.command \in {"YES", "NO", "NOTSIMPLE"} THEN "ok" ELSE "failed"

\* What a call makes of the reply: mlle_expect_command, mlle_expect_commands
\* and the calls themselves.
Judge(c, r) ==
  IF r.command = "ERROR" THEN "failed"
  ELSE CASE c.api = "VERSION" -> IF r.command = "VERSION" /\ r.number \in MinVersion..MaxVersion
                                   THEN "ok" ELSE "failed"
         [] c.api = "FILE"    -> IF r.command = "FILECONT" THEN "ok" ELSE "failed"
         [] c.api \in {"FEATURE", "LICENSE"} /\ r.command = "NO" -> "no_license"
         [] c.api = "LICENSE" /\ r.command = "NOTSIMPLE"        -> "not_simplified"
         [] OTHER             -> IF r.command = "YES" THEN "ok" ELSE "failed"

\* The call returns; the program remembers its licences.
Returns(r, res) ==
  /\ tool' = "idle" /\ reply' = r /\ result' = res
  /\ licences' = IF res # "ok" THEN licences
                 ELSE CASE Call.api = "FEATURE"       -> licences \cup {Call.arg}
                        [] Call.api = "RETURNFEATURE" -> licences \ {Call.arg}
                        [] OTHER                      -> licences

\* mlle_read_command, the first record: a record from the middle of a reply is
\* no command.
ReadsReply ==
  /\ tool = "waiting" /\ toTool # <<>>
  /\ toTool' = Tail(toTool)
  /\ LET rec == Head(toTool) IN
       IF rec.piece > 1 THEN Returns(NoReply, "failed") /\ UNCHANGED read
       ELSE /\ read' = 1
            /\ IF rec.last THEN Returns(rec.reply, Judge(Call, rec.reply))
               ELSE tool' = "reading" /\ reply' = rec.reply /\ UNCHANGED <<result, licences>>
  /\ UNCHANGED <<vars, asked, starved, outgoing>>

\* ... and the loop that reads the rest of the data, whatever it is.
ReadsMore ==
  /\ tool = "reading" /\ toTool # <<>> /\ reply # NoReply
  /\ toTool' = Tail(toTool) /\ read' = read + 1
  /\ IF Head(toTool).last THEN Returns(reply, Judge(Call, reply))
     ELSE UNCHANGED <<tool, reply, result, licences>>
  /\ UNCHANGED <<vars, asked, starved, outgoing>>

\* Without memory the call fails before it has read anything, or when it has
\* read the first record and lost it; or it reads on with nowhere to put the
\* data (extract_data). Once per connection: a bound.
ReadStarves ==
  /\ tool = "waiting" /\ ~starved
  /\ \/ Returns(NoReply, "failed") /\ UNCHANGED toTool
     \/ /\ toTool # <<>> /\ toTool' = Tail(toTool)
        /\ \/ Returns(NoReply, "failed")
           \/ /\ Head(toTool).piece = 1 /\ Head(toTool).reply.command \in NeedsMemory
              /\ tool' = "reading" /\ reply' = NoReply /\ UNCHANGED <<result, licences>>
  /\ starved' = TRUE
  /\ UNCHANGED <<vars, asked, read, outgoing>>

\* ... where memcpy() ends the process.
ReadsIntoNothing ==
  /\ tool = "reading" /\ toTool # <<>> /\ reply = NoReply
  /\ PeerCloses /\ Over("killed")
  /\ UNCHANGED pipe

\* Seeded bug: the loop ends where nothing comes any more.
ReadFailsShort ==
  /\ pc \in Stopped /\ toTool = <<>>
  /\ tool = "reading" /\ Returns(reply, Judge(Call, reply))
  /\ UNCHANGED <<vars, asked, read, starved, pipe>>

\* A read finds a dead LVE and nothing in the pipe. The handshake or the call
\* fails with the first read; in the loop the -1 becomes a length for memcpy(),
\* and the process ends.
ReadFails ==
  /\ pc \in Stopped /\ toTool = <<>>
  /\ \/ tool = "connecting" /\ PeerCloses /\ Over("closed")
     \/ tool = "waiting" /\ Returns(NoReply, "failed") /\ UNCHANGED <<vars, asked, read, starved>>
     \/ tool = "reading" /\ PeerCloses /\ Over("killed")
  /\ UNCHANGED pipe

\* mlle_connections_free closes both descriptors; so does the end of the process.
\* The close_notify it writes first may meet a dead LVE.
Frees ==
  /\ tool = "idle"
  /\ PeerCloses
  /\ Over("closed") \/ (pc \in Stopped /\ Over("killed"))
  /\ UNCHANGED pipe

ToolDies ==
  /\ tool \notin Gone
  /\ PeerCloses /\ Over("killed")
  /\ UNCHANGED pipe

SessionOver ==
  /\ pc \in Stopped \/ tool \in Gone
  /\ UNCHANGED sessionVars

-----------------------------------------------------------------------------
LveSteps  == LveHandles \/ LveRuns \/ LveWrites \/ LveWriteFails
ToolReads == Connects \/ ReadsReply \/ ReadsMore \/ ReadsIntoNothing

SessionNext ==
  \/ LveSteps \/ LveDies
  \/ ToolReads \/ ReadFails \/ ReadStarves \/ CallsLve \/ RequestStarves \/ CallsDeadLve \/ Frees \/ ToolDies
  \/ SessionOver

SessionSpec == SessionInit /\ [][SessionNext]_sessionVars

\* Each process goes on while it can. That the program makes another call, or
\* frees the connection, is not assumed.
FairSession == SessionSpec /\ WF_sessionVars(LveSteps) /\ WF_sessionVars(ToolReads)

-----------------------------------------------------------------------------
(* Properties. *)

SessionTypeOK ==
  /\ tool \in Waiting \cup Gone \cup {"idle"}
  /\ asked \in Seq(Calls) /\ Len(asked) <= MaxCalls
  /\ \A s \in {outgoing, toTool} : \A i \in DOMAIN s :
       s[i].reply \in Replies /\ s[i].piece \in 1..Pieces /\ s[i].to \in 0..MaxCalls
  /\ reply \in Replies \cup {NoReply} /\ read \in Nat
  /\ result \in {"none", "ok", "failed", "no_license", "not_simplified"}
  /\ licences \subseteq Data /\ starved \in BOOLEAN

\* Calls and replies stay in step, whatever the order of calls and however
\* many records a reply takes: what travels belongs to the call being made, and
\* nothing is left in either pipe when the call has returned, but a request a
\* dead LVE did not read (one thread of the tool, one reply per request,
\* mlle_read_command reading to the length). Memory must not have failed the
\* tool: a call that failed for it leaves its reply behind for the next.
InStep ==
  ~starved =>
    /\ tool \notin Gone => \A s \in {outgoing, toTool} : \A i \in DOMAIN s : s[i].to = Len(asked)
    /\ tool = "idle" => outgoing = <<>> /\ toTool = <<>> /\ (inbox = <<>> \/ pc \in Stopped)

\* A licence the program was told it has and has not returned is checked out
\* in the LVE that told it, as long as that LVE lives (mlle_tool_feature,
\* mlle_tool_returnfeature against the licence manager), while memory lasts.
LicencesAreHeld ==
  ~starved /\ pc \notin Stopped /\ tool = "idle" => licences \subseteq held

\* A FILE call that succeeds returned the file it asked for, with every record
\* of it although the LVE may have died between two of them, from a library the
\* program opened on this connection, after a VERSION call, and the program's
\* certificate was a trusted one. Memory must have lasted, as above.
FileAsAsked ==
  ~starved /\ tool = "idle" /\ result = "ok" /\ asked # <<>> /\ Call.api = "FILE" =>
    /\ reply.data[2] = Call.arg /\ read = Len(RecordsOf(reply))
    /\ \E i, j \in DOMAIN asked :
         i < j /\ asked[i].api = "VERSION" /\ asked[j].api = "LIB" /\ asked[j].arg = reply.data[1]
    /\ peerKey \in TrustedKeys

\* Every call returns while both processes live and memory lasts; the exception
\* is a LIB that left no decryption context, which is never answered.
CallReturns ==
  tool \in Waiting ~>
    \/ tool \notin Waiting
    \/ pc \in Stopped \/ starved
    \/ asked # <<>> /\ Call.api = "LIB" /\ crContext = NoContext

\* No LVE outlives its tool, even one that is writing a reply of many records
\* to it when the tool goes.
LveFollows == tool \in Gone ~> pc \in Stopped

\* A session is a behaviour of the LVE with the peer it was specified for: the
\* tool keeps to what LveServer assumes of any peer.
ToolIsAPeer == Spec
=============================================================================
