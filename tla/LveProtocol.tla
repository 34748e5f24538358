----------------------------- MODULE LveProtocol -----------------------------
(***************************************************************************)
(* The SEMLA wire protocol as both ends read it: commands and their message *)
(* forms, the grammar of one message, the error numbers, and the table that *)
(* says which command the library vendor executable (LVE) accepts when.     *)
(* Pure operators; no state.                                                *)
(***************************************************************************)
EXTENDS Integers, Sequences

\* The commands of each form (mlle_command_info).
SimpleCommands == {"NOTSIMPLE", "TOOLS", "YES"}
NumberCommands == {"VERSION"}
LengthCommands == {"FEATURE", "FILE", "FILECONT", "LIB", "LICENSE", "NO",
                   "RETURNFEATURE", "RETURNLICENSE", "TOOLLIST"}
NumberAndLengthCommands == {"ERROR"}
Commands == SimpleCommands \cup NumberCommands \cup LengthCommands
              \cup NumberAndLengthCommands

\* What stands in the place of a command name when the first line has no
\* token at all, or a first token that is no command.
Blank   == "[blank]"
Unknown == "[unknown_command]"

\* mlle_protocol_error_id.
UndefinedError   == 0
NotUnderstood    == 1
VersionTooLow    == 2
FileNotFound     == 4
ToolNotAllowed   == 5
FileIoError      == 6
LicenseError     == 7
OtherError       == 8
SslError         == 9
ErrorIds         == 0..9

MinProtocolVersion == 1
MaxProtocolVersion == 1

MaxTokensPerMsg == 3

\* mlle_nbr_tokens_for_form, by command: the name and its arguments.
ExpectedTokens(name) ==
  CASE name \in SimpleCommands                   -> 1
    [] name \in NumberCommands \cup LengthCommands -> 2
    [] OTHER                                     -> MaxTokensPerMsg

-----------------------------------------------------------------------------
(***************************************************************************)
(* A message on the wire: the first token, the remaining tokens of the      *)
(* first line (numbers, or NotAnInt for a token sscanf("%ld") rejects), and *)
(* the bytes after the line feed, NoBody when there is no line feed.        *)
(***************************************************************************)
CONSTANTS NotAnInt, NoBody

ASSUME SentinelAssumption == NotAnInt \notin Int

HasLength(name) == name \in LengthCommands \cup NumberAndLengthCommands

\* The argument that announces the size of the data is the last one.
NegativeLength(m) == HasLength(m.name) /\ m.args[Len(m.args)] < 0

\* mlle_parse_command: the first check that fails, in the order of the code.
GrammarError(m) ==
  IF m.name = Blank THEN "NO_TOKENS"
  ELSE IF m.name \notin Commands THEN "UNKNOWN_CMD"
  ELSE IF 1 + Len(m.args) > ExpectedTokens(m.name) THEN "TOO_MANY_TOKENS"
  ELSE IF 1 + Len(m.args) < ExpectedTokens(m.name) THEN "TOO_FEW_TOKENS"
  ELSE IF \E i \in DOMAIN m.args : m.args[i] = NotAnInt THEN "NOT_AN_INT"
  ELSE IF NegativeLength(m) THEN "NEGATIVE_LENGTH"
  ELSE "VALID"

\* The command a valid message carries; extract_data attaches the body to the
\* commands of the length form.
ParsedCommand(m) ==
  [id     |-> m.name,
   number |-> IF m.name \in NumberCommands \cup NumberAndLengthCommands
                THEN m.args[1] ELSE 0,
   length |-> IF HasLength(m.name) THEN m.args[Len(m.args)] ELSE 0,
   data   |-> IF m.name \in LengthCommands THEN m.body ELSE NoBody]

-----------------------------------------------------------------------------
\* The states of a session, named after the earliest command they accept.
SessionStates == {"VERSION", "TOOLS", "LIB", "LICENSE"}
Invalid       == "INVALID"

LicensePhaseCommands ==
  {"FEATURE", "FILE", "LICENSE", "RETURNFEATURE", "RETURNLICENSE"}

\* Seeded bugs: a table that accepts FEATURE before LIB, and one that accepts a
\* second LIB.
NextStateEarlyFeature(state, command) ==
  CASE state = "VERSION" /\ command = "VERSION"            -> "TOOLS"
    [] state = "TOOLS"   /\ command = "TOOLS"              -> "LIB"
    [] state = "LIB"     /\ command = "FEATURE"            -> "LIB"
    [] state \in {"TOOLS", "LIB"} /\ command = "LIB"       -> "LICENSE"
    [] state = "LICENSE" /\ command \in LicensePhaseCommands -> "LICENSE"
    [] OTHER                                               -> Invalid

NextStateSecondLib(state, command) ==
  CASE state = "VERSION" /\ command = "VERSION"            -> "TOOLS"
    [] state = "TOOLS"   /\ command = "TOOLS"              -> "LIB"
    [] command = "LIB"                                     -> "LICENSE"
    [] state = "LICENSE" /\ command \in LicensePhaseCommands -> "LICENSE"
    [] OTHER                                               -> Invalid

\* mlle_next_state: the rows of mlle_lve_valid_command_for_state.
NextState(state, command) ==
  CASE state = "VERSION" /\ command = "VERSION"            -> "TOOLS"
    [] state = "TOOLS"   /\ command = "TOOLS"              -> "LIB"
    [] state \in {"TOOLS", "LIB"} /\ command = "LIB"       -> "LICENSE"
    [] state = "LICENSE" /\ command \in LicensePhaseCommands -> "LICENSE"
    [] OTHER                                               -> Invalid
=============================================================================
