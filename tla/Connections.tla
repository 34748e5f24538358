----------------------------- MODULE Connections -----------------------------
(***************************************************************************)
(* How a tool starts LVEs and drops them again: mlle_spawn() of both builds,  *)
(* the TLS set-up and handshake of both sides and mlle_connections_free(),    *)
(* over the descriptor tables of the processes.                               *)
(*                                                                         *)
(* A descriptor table is a function from numbers to what they stand for: the  *)
(* end of a pipe, a standard stream or nothing. A child has a copy of the     *)
(* table of the tool, on Windows of the descriptors that are inherited, so    *)
(* that an LVE also holds ends of the pipes of others. Any step of a start    *)
(* may fail, and what it leaves open then stays open. What is said over an    *)
(* open connection is the matter of SemlaSession.                             *)
(***************************************************************************)
EXTENDS Integers, Sequences, FiniteSets, FiniteSetsExt

CONSTANTS
  MaxStarts,  \* LVEs the tool starts
  MaxFd,      \* descriptors a process may have
  ToolKey,    \* the key pairs the tool and the LVE are built with
  LveKey,
  NULL

ASSUME KeyAssumption == NULL \notin {ToolKey, LveKey}
ASSUME BoundAssumption == MaxStarts \in Nat /\ MaxFd \in Nat /\ MaxFd >= 3

Starts == 1..MaxStarts
Fds    == 0..MaxFd - 1
Stdin  == 0
Stdout == 1
Stderr == 2
Unset  == -1

VARIABLES
  windows,   \* the build of the tool
  pc,        \* the step of mlle_start_executable the tool is at
  start,     \* starts so far, and the number of the current one
  fds,       \* the tool's descriptors
  kept,      \* those a Windows child does not inherit
  ends,      \* descriptors of the two pipes of this start
  saved,     \* copies of the standard streams, on Windows
  conns,     \* mlle_connections of each start
  lves,      \* the process of each start
  contents,  \* what is in each pipe
  before     \* the tool's descriptors when this start began (history)

vars == <<windows, pc, start, fds, kept, ends, saved, conns, lves, contents, before>>

Steps == {"idle", "pipes", "fork", "save", "replace", "spawn", "restore", "setup",
          "hello", "certificate", "finished", "ended"}

-----------------------------------------------------------------------------
(* Descriptor tables. *)

None            == <<"closed">>
Stream(fd)      == <<"stream", fd>>
End(n, way, io) == <<"pipe", <<n, way>>, io>>
Closed          == [fd \in Fds |-> None]

Free(t)         == {fd \in Fds : t[fd] = None}
Room(t)         == Cardinality(Free(t))
\* A new descriptor gets the lowest number that is free.
First(t)        == Min(Free(t))
Second(t)       == Min(Free(t) \ {First(t)})
Shut(t, fd)     == [t EXCEPT ![fd] = None]
Dup(t, fd)      == [t EXCEPT ![First(t)] = t[fd]]
Dup2(t, fd, to) == [t EXCEPT ![to] = t[fd]]
Pipe(t, way)    == [t EXCEPT ![First(t)] = End(start, way, "read"),
                             ![Second(t)] = End(start, way, "write")]

Alive(n) == lves[n].state \notin {"none", "ended"}

\* A pipe is open for whoever holds an end of it.
Held(pipe, io) ==
  \E t \in {lves[n].fds : n \in {m \in Starts : Alive(m)}} \cup (IF pc = "ended" THEN {} ELSE {fds}) :
    \E fd \in Fds : t[fd] = <<"pipe", pipe, io>>

IsEnd(e, io) == e[1] = "pipe" /\ e[3] = io
Waiting(e)   == Head(contents[e[2]])
Reads(e, m)  == IsEnd(e, "read") /\ contents[e[2]] # <<>> /\ Waiting(e)[1] = m
\* A read that fails: nobody can write any more, or it is nothing to read from.
AtEnd(e)     == \/ e = None \/ IsEnd(e, "write")
                \/ IsEnd(e, "read") /\ contents[e[2]] = <<>> /\ ~Held(e[2], "write")
Writable(e)  == IsEnd(e, "write") /\ Held(e[2], "read")

Taken(e)  == [contents EXCEPT ![e[2]] = Tail(@)]
Take(e)   == contents' = Taken(e)
\* A message is its kind and the certificate or key it carries.
Put(e, m, c) == contents' = [contents EXCEPT ![e[2]] = Append(@, <<m, c>>)]
Answer(in, out, m, c) == contents' = [Taken(in) EXCEPT ![out[2]] = Append(@, <<m, c>>)]

-----------------------------------------------------------------------------
NoLve        == [state |-> "none", fds |-> Closed, ends |-> <<>>, verify |-> NULL, peer |-> NULL]
NoConnection == [to |-> Unset, from |-> Unset, ssl |-> "none", x509 |-> NULL]

\* A tool may have been started with its standard streams closed.
Init ==
  /\ windows \in BOOLEAN
  /\ pc = "idle" /\ start = 0
  /\ \E open \in SUBSET {Stdin, Stdout} :
       fds = [fd \in Fds |-> IF fd \in open \cup {Stderr} THEN Stream(fd) ELSE None]
  /\ kept = {} /\ before = fds
  /\ ends = <<>> /\ saved = [in |-> Unset, out |-> Unset]
  /\ conns = [n \in Starts |-> NoConnection]
  /\ lves = [n \in Starts |-> NoLve]
  /\ contents = [p \in Starts \X {"down", "up"} |-> <<>>]

Go(step) == pc' = step
\* NULL is returned: nothing that was opened is closed.
GiveUp   == pc' = "idle"

\* access() looks for the file; the Windows build does not.
StartExecutable ==
  /\ pc = "idle" /\ start < MaxStarts
  /\ start' = start + 1 /\ before' = fds
  /\ Go("pipes") \/ (~windows /\ GiveUp)
  /\ UNCHANGED <<windows, fds, kept, ends, saved, conns, lves, contents>>

OpenPipes ==
  /\ pc = "pipes"
  /\ \/ /\ Room(fds) >= 4
        /\ LET one == Pipe(fds, "down") IN
             /\ fds' = Pipe(one, "up")
             /\ ends' = [dr |-> First(fds), dw |-> Second(fds), ur |-> First(one), uw |-> Second(one)]
        /\ Go(IF windows THEN "save" ELSE "fork")
     \/ Room(fds) >= 2 /\ fds' = Pipe(fds, "down") /\ GiveUp /\ UNCHANGED ends
     \/ GiveUp /\ UNCHANGED <<fds, ends>>
  /\ kept' = kept \cup {fd \in Fds : fds'[fd] # fds[fd]}
  /\ UNCHANGED <<windows, start, saved, conns, lves, contents, before>>

\* mlle_spawn returns the two ends it keeps, or NULL when there is no memory left.
Connects ==
  \/ /\ conns' = [conns EXCEPT ![start] = [NoConnection EXCEPT !.to = ends.dw, !.from = ends.ur, !.ssl = "unset"]]
     /\ Go("setup")
  \/ GiveUp /\ UNCHANGED conns

\* Seeded bug: the tool keeps the end its child reads from.
ForkKeepsReadEnd ==
  /\ pc = "fork"
  /\ lves' = [lves EXCEPT ![start] = [NoLve EXCEPT !.state = "forked", !.fds = fds, !.ends = ends]]
  /\ Connects
  /\ UNCHANGED <<windows, start, fds, kept, ends, saved, contents, before>>

\* The tool closes the end the child reads from, not the one it writes to.
Fork ==
  /\ pc = "fork"
  /\ \/ GiveUp /\ UNCHANGED <<fds, lves, conns>>
     \/ /\ lves' = [lves EXCEPT ![start] = [NoLve EXCEPT !.state = "forked", !.fds = fds, !.ends = ends]]
        /\ fds' = Shut(fds, ends.dr)
        /\ Connects
  /\ UNCHANGED <<windows, start, kept, ends, saved, contents, before>>

\* Seeded bug: the child keeps the end the tool writes to.
ChildTableWhole(t, e) ==
  LET in  == Shut(t, Stdin)
      mid == Shut(Shut(Dup2(in, e.dr, Stdin), e.dr), e.ur)
      out == Shut(mid, Stdout)
  IN IF in[e.dr] = None \/ out[e.uw] = None THEN <<>>
     ELSE Shut(Dup2(out, e.uw, Stdout), e.uw)

\* What the child makes of its table: <<>> where dup2() fails, because the end
\* to duplicate has the number of the stream that was closed to make room for it.
ChildTable(t, e) ==
  LET in  == Shut(Shut(t, e.dw), Stdin)
      mid == Shut(Shut(Dup2(in, e.dr, Stdin), e.dr), e.ur)
      out == Shut(mid, Stdout)
  IN IF in[e.dr] = None \/ out[e.uw] = None THEN <<>>
     ELSE Shut(Dup2(out, e.uw, Stdout), e.uw)

Ended(n) == lves' = [lves EXCEPT ![n].state = "ended", ![n].fds = Closed]

\* The child redirects its streams and becomes the LVE, or exits with 3 or 4.
Child(n) ==
  LET table == ChildTable(lves[n].fds, lves[n].ends) IN
  /\ lves[n].state = "forked"
  /\ \/ /\ table # <<>>
        /\ lves' = [lves EXCEPT ![n].state = "started", ![n].fds = table]
     \/ Ended(n)
  /\ UNCHANGED <<windows, pc, start, fds, kept, ends, saved, conns, contents, before>>

-----------------------------------------------------------------------------
(* The Windows build puts the pipes in the place of its own streams for the    *)
(* time of starting the child.                                                 *)

Copied(t, fd) == IF t[fd] = None THEN [table |-> t, copy |-> Unset]
                 ELSE [table |-> Dup(t, fd), copy |-> First(t)]

SaveStreams ==
  /\ pc = "save"
  /\ \/ /\ Room(fds) >= 2
        /\ LET in == Copied(fds, Stdin) out == Copied(in.table, Stdout) IN
             /\ fds' = out.table
             /\ saved' = [in |-> in.copy, out |-> out.copy]
             /\ kept' = kept \ {in.copy, out.copy}
        /\ Go("replace")
     \/ /\ GiveUp /\ UNCHANGED saved
        /\ \/ UNCHANGED <<fds, kept>>
           \/ /\ Room(fds) >= 1
              /\ LET in == Copied(fds, Stdin) IN fds' = in.table /\ kept' = kept \ {in.copy}
  /\ UNCHANGED <<windows, start, ends, conns, lves, contents, before>>

ReplaceStreams ==
  LET in == Dup2(fds, ends.dr, Stdin) both == Dup2(in, ends.uw, Stdout) IN
  /\ pc = "replace"
  /\ \/ /\ fds' = Shut(Shut(both, ends.dr), ends.uw) /\ kept' = kept \ {Stdin, Stdout}
        /\ Go("spawn")
     \/ fds' = in /\ kept' = kept \ {Stdin} /\ GiveUp
     \/ GiveUp /\ UNCHANGED <<fds, kept>>
  /\ UNCHANGED <<windows, start, ends, saved, conns, lves, contents, before>>

\* A long name is tried twice.
SpawnChild ==
  /\ pc = "spawn"
  /\ \/ /\ lves' = [lves EXCEPT ![start] =
                      [NoLve EXCEPT !.state = "started", !.ends = ends,
                         !.fds = [fd \in Fds |-> IF fd \in kept THEN None ELSE fds[fd]]]]
        /\ Go("restore")
     \/ GiveUp /\ UNCHANGED lves
  /\ UNCHANGED <<windows, start, fds, kept, ends, saved, conns, contents, before>>

Restored(t, copy, fd) == IF copy = Unset THEN t ELSE Shut(Dup2(t, copy, fd), copy)

RestoreStreams ==
  LET in == Restored(fds, saved.in, Stdin) IN
  /\ pc = "restore"
  /\ \/ fds' = Restored(in, saved.out, Stdout) /\ Connects
     \/ fds' = in /\ saved.out # Unset /\ GiveUp /\ UNCHANGED conns
     \/ saved.in # Unset /\ GiveUp /\ UNCHANGED <<fds, conns>>
  /\ UNCHANGED <<windows, start, kept, ends, saved, lves, contents, before>>

-----------------------------------------------------------------------------
(* What the functions around OpenSSL return, NULL where a call fails.          *)

GetRsa(key) == {NULL, key}

\* The server asks the client for a certificate, which the client may refuse.
CreateCTX(key, mode) ==
  {NULL} \cup {[key |-> k, verify |-> IF mode = "client" THEN "none" ELSE "peer"] :
                 k \in GetRsa(key) \ {NULL}}

GenerateX509(rsa) == {NULL} \cup {<<"x509", k>> : k \in {rsa} \ {NULL}}
GetPublicKey(rsa) == {NULL, rsa}

-----------------------------------------------------------------------------
(* TLS on the side of the tool. *)

This == conns[start]
To   == fds[This.to]
From == fds[This.from]

\* Seeded bug: the caller's pointer is not reset.
FreedKept(n) == fds' = Shut(Shut(fds, conns[n].to), conns[n].from) /\ UNCHANGED conns

\* Both descriptors are closed; the LVE of an open connection is told first.
Freed(n) ==
  /\ conns' = [conns EXCEPT ![n] = [NoConnection EXCEPT !.ssl = "freed"]]
  /\ fds' = Shut(Shut(fds, conns[n].to), conns[n].from)

\* Any of the calls that make the context, the keys and the certificate may fail.
SetupTool ==
  /\ pc = "setup"
  /\ \/ /\ \E ctx \in CreateCTX(ToolKey, "client"), rsa \in GetRsa(ToolKey) : \E x509 \in GenerateX509(rsa) :
             /\ NULL \notin {ctx, rsa, x509}
             /\ conns' = [conns EXCEPT ![start].ssl = "setup", ![start].x509 = x509]
        /\ Go("hello") /\ UNCHANGED fds
     \/ Freed(start) /\ GiveUp
  /\ UNCHANGED <<windows, start, kept, ends, saved, lves, contents, before>>

\* The tool ends, which closes whatever it has.
Dies == Go("ended") /\ UNCHANGED <<conns, fds>>

\* Writing to a dead LVE raises SIGPIPE, which a tool may ignore.
WriteFails == ~Writable(To) /\ UNCHANGED contents /\ ((Freed(start) /\ GiveUp) \/ (~windows /\ Dies))

SendHello ==
  /\ pc = "hello"
  /\ \/ Writable(To) /\ Put(To, "hello", NULL) /\ Go("certificate") /\ UNCHANGED <<conns, fds>>
     \/ WriteFails
  /\ UNCHANGED <<windows, start, kept, ends, saved, lves, before>>

Opened == conns' = [conns EXCEPT ![start].ssl = "open"] /\ Go("idle") /\ UNCHANGED fds

\* Seeded bug: the handshake is tried again on the same answer.
SendCertificateAgain ==
  /\ pc = "certificate"
  /\ Reads(From, "hello") /\ Writable(To) /\ Put(To, "certificate", This.x509)
  /\ UNCHANGED <<windows, pc, start, fds, kept, ends, saved, lves, conns, before>>

\* From TLS 1.3 on the tool does not wait for an answer to its certificate.
SendCertificate ==
  /\ pc = "certificate"
  /\ \/ /\ Reads(From, "hello") /\ Writable(To)
        /\ Answer(From, To, "certificate", IF Waiting(From)[2] = "peer" THEN This.x509 ELSE NULL)
        /\ Opened \/ (Go("finished") /\ UNCHANGED <<conns, fds>>)
     \/ Reads(From, "hello") /\ WriteFails
     \/ AtEnd(From) /\ Freed(start) /\ GiveUp /\ UNCHANGED contents
  /\ UNCHANGED <<windows, start, kept, ends, saved, lves, before>>

ReadFinished ==
  /\ pc = "finished"
  /\ \/ Reads(From, "finished") /\ Take(From) /\ Opened
     \/ Reads(From, "alert") /\ Take(From) /\ Freed(start) /\ GiveUp
     \/ AtEnd(From) /\ Freed(start) /\ GiveUp /\ UNCHANGED contents
  /\ UNCHANGED <<windows, start, kept, ends, saved, lves, before>>

\* mlle_connections_free.
FreeConnection(n) ==
  LET to == fds[conns[n].to] IN
  /\ pc = "idle" /\ conns[n].ssl = "open"
  /\ \/ Writable(to) /\ Put(to, "close_notify", NULL) /\ Freed(n) /\ UNCHANGED pc
     \/ ~Writable(to) /\ UNCHANGED contents /\ ((Freed(n) /\ UNCHANGED pc) \/ (~windows /\ Dies))
  /\ UNCHANGED <<windows, start, kept, ends, saved, lves, before>>

ToolEnds ==
  /\ pc # "ended" /\ Dies
  /\ UNCHANGED <<windows, start, kept, ends, saved, lves, contents, before>>

-----------------------------------------------------------------------------
(* The LVE. *)

In(n)  == lves[n].fds[Stdin]
Out(n) == lves[n].fds[Stdout]
Becomes(n, state) == lves' = [lves EXCEPT ![n].state = state]

SetupLve(n) ==
  /\ lves[n].state = "started"
  /\ \/ \E ctx \in CreateCTX(LveKey, "server"), rsa \in GetRsa(LveKey) : \E x509 \in GenerateX509(rsa) :
          /\ NULL \notin {ctx, rsa, x509}
          /\ lves' = [lves EXCEPT ![n].state = "accepting", ![n].verify = ctx.verify]
     \/ Ended(n)
  /\ UNCHANGED <<windows, pc, start, fds, kept, ends, saved, conns, contents, before>>

\* SSL_accept: asks for the certificate of the tool.
Accept(n) ==
  /\ lves[n].state = "accepting"
  /\ \/ /\ Reads(In(n), "hello") /\ Writable(Out(n)) /\ Answer(In(n), Out(n), "hello", lves[n].verify)
        /\ Becomes(n, "verifying")
     \/ /\ AtEnd(In(n)) \/ (Reads(In(n), "hello") /\ ~Writable(Out(n)))
        /\ Ended(n) /\ UNCHANGED contents
  /\ UNCHANGED <<windows, pc, start, fds, kept, ends, saved, conns, before>>

\* cert_verify_callback, called for a certificate only, takes the key out of it
\* and refuses it when that fails.
CertVerify(x509) == IF x509 = NULL THEN {NULL} ELSE GetPublicKey(x509[2])

\* Seeded bug: a refused tool is not told.
VerifySilently(n) ==
  /\ lves[n].state = "verifying"
  /\ Reads(In(n), "certificate") /\ Take(In(n)) /\ Becomes(n, "serving")
  /\ UNCHANGED <<windows, pc, start, fds, kept, ends, saved, conns, before>>

Verify(n) ==
  LET x509 == Waiting(In(n))[2] IN
  /\ lves[n].state = "verifying"
  /\ \/ /\ Reads(In(n), "certificate") /\ Writable(Out(n))
        /\ \E key \in CertVerify(x509) :
             \/ /\ x509 = NULL \/ key # NULL
                /\ Answer(In(n), Out(n), "finished", NULL)
                /\ lves' = [lves EXCEPT ![n].state = "serving", ![n].peer = key]
             \/ /\ x509 # NULL /\ key = NULL
                /\ Answer(In(n), Out(n), "alert", NULL) /\ Ended(n)
     \/ /\ AtEnd(In(n)) \/ (Reads(In(n), "certificate") /\ ~Writable(Out(n)))
        /\ Ended(n) /\ UNCHANGED contents
  /\ UNCHANGED <<windows, pc, start, fds, kept, ends, saved, conns, before>>

\* mlle_lve_receive ends at the tool's close_notify or at the end of its input.
Serve(n) ==
  /\ lves[n].state = "serving"
  /\ Reads(In(n), "close_notify") \/ AtEnd(In(n))
  /\ Ended(n)
  /\ UNCHANGED <<windows, pc, start, fds, kept, ends, saved, conns, contents, before>>

LveKilled(n) ==
  /\ Alive(n) /\ Ended(n)
  /\ UNCHANGED <<windows, pc, start, fds, kept, ends, saved, conns, contents, before>>

-----------------------------------------------------------------------------
StartStep ==
  \/ OpenPipes \/ Fork \/ SaveStreams \/ ReplaceStreams \/ SpawnChild \/ RestoreStreams
  \/ SetupTool \/ SendHello \/ SendCertificate \/ ReadFinished
LveStep(n) == Child(n) \/ SetupLve(n) \/ Accept(n) \/ Verify(n) \/ Serve(n)

Next ==
  \/ StartExecutable \/ StartStep \/ ToolEnds
  \/ \E n \in Starts : FreeConnection(n) \/ LveStep(n) \/ LveKilled(n)

Spec == Init /\ [][Next]_vars

\* A process that can take a step takes it; nobody need start, free or end
\* anything.
FairSpec == Spec /\ WF_vars(StartStep) /\ \A n \in Starts : WF_vars(LveStep(n))

-----------------------------------------------------------------------------
(* Properties. *)

Live(n) == conns[n].ssl \in {"unset", "setup", "open"}

\* Every variable keeps to its type, and no descriptor is in use beyond the
\* limit of the process (the calls of mlle_spawn that open descriptors).
ConnectionsTypeOK ==
  /\ pc \in Steps /\ start \in 0..MaxStarts
  /\ \A fd \in Fds : fds[fd] \in {None, Stream(Stdin), Stream(Stdout), Stream(Stderr)}
                       \cup {End(n, way, io) : n \in Starts, way \in {"down", "up"}, io \in {"read", "write"}}
  /\ \A n \in Starts : Live(n) => {conns[n].to, conns[n].from} \subseteq Fds
  /\ \A p \in DOMAIN contents : Len(contents[p]) <= 3

\* As long as a connection lives its two numbers stand for its own pipes, and an
\* LVE that has answered hears its own tool and nobody else, and serves it under
\* the key of its certificate, whatever was closed, duplicated, inherited or
\* left open before, and whichever standard streams the tool had
\* (mlle_connections, mlle_spawn, mlle_connections_free, cert_verify_callback).
OwnEnds ==
  /\ \A n \in Starts : Live(n) /\ pc # "ended" =>
       fds[conns[n].to] = End(n, "down", "write") /\ fds[conns[n].from] = End(n, "up", "read")
  /\ \A n \in Starts : lves[n].state \in {"verifying", "serving"} =>
       In(n) = End(n, "down", "read") /\ Out(n) = End(n, "up", "write")
  /\ \A n \in Starts : lves[n].state = "serving" => lves[n].peer = ToolKey

\* A start that succeeds changes nothing of the tool's descriptors but the two
\* ends of the connection and, in the POSIX build, the end of the pipe from the
\* LVE that is never closed again: neither its own streams nor the ends of
\* other connections.
StartCosts ==
  [][pc # "idle" /\ pc' = "idle" /\ conns'[start].ssl = "open" =>
       LET cost == {conns'[start].to, conns'[start].from} \cup (IF windows THEN {} ELSE {ends.uw}) IN
       /\ \A fd \in cost : before[fd] = None
       /\ \A fd \in Fds \ cost : fds'[fd] = before[fd]]_vars

\* A start comes to an end, except where the LVE of the POSIX build dies on the
\* way: the tool then waits for an answer, with the other end of the pipe in its
\* own hand (mlle_spawn, tool_perform_handshake).
StartReturns ==
  pc \in Steps \ {"idle", "ended"} ~>
    pc \in {"idle", "ended"} \/ (~windows /\ lves[start].state = "ended")

\* An LVE ends after its connection is freed or the tool ends, although LVEs
\* that were started later hold the tool's ends of its pipes.
LvesEnd ==
  \A n \in Starts : pc = "ended" \/ conns[n].ssl = "freed" ~> ~Alive(n)

-----------------------------------------------------------------------------
(* What the comments say and the code does not do.                           *)

\* "Reassociate the usual FD numbers for stdin and stdout with the original stdin
\* and stdout file streams." (mlle_spawn_windows.c).
StreamsReassociated ==
  [][pc # "idle" /\ pc' = "idle" => 
       \A fd \in {Stdin, Stdout} : before[fd] = Stream(fd) => fds'[fd] = before[fd]]_vars
=============================================================================
