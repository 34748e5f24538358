--------------------------- MODULE Connections_proofs ---------------------------
(***************************************************************************)
(* Starting LVEs and dropping them, for any number of starts and any size of  *)
(* the descriptor tables, in both builds: whatever is closed, duplicated,      *)
(* inherited or left open, a connection and an LVE use their own pipes.        *)
(***************************************************************************)
EXTENDS Connections, FiniteSetTheorems, WellFoundedInduction, TLAPS

-----------------------------------------------------------------------------
(* The least number of a set.                                                *)

\* The order of the natural numbers as a relation.
LEMMA LessThan == OpToRel(<, Nat) = {ss \in Nat \X Nat : ss[1] < ss[2]}
  BY DEF OpToRel

\* Some number in a set of numbers is the least.
LEMMA LeastOf ==
  ASSUME NEW S \in SUBSET Nat, S # {}
  PROVE  Min(S) \in S /\ \A x \in S : Min(S) <= x
  <1> DEFINE R == {ss \in Nat \X Nat : ss[1] < ss[2]}
  <1>1. IsWellFoundedOn(R, Nat)
    BY LessThan, NatLessThanWellFounded, Zenon
  <1>2. PICK m \in S : \A x \in S : ~(<<x, m>> \in R)
    BY <1>1, WFMin
  <1>3. ASSUME NEW x \in S PROVE m <= x
    <2>1. m \in Nat /\ x \in Nat /\ <<x, m>> \in Nat \X Nat /\ <<x, m>>[1] = x /\ <<x, m>>[2] = m
      OBVIOUS
    <2>2. ~(x < m)
      BY <1>2, <2>1
    <2>3. QED
      BY <2>1, <2>2
  <1>4. QED
    BY <1>3 DEF Min


-----------------------------------------------------------------------------
(* The invariant.                                                            *)

X509     == <<"x509", ToolKey>>
Hello    == <<"hello", NULL>>
Notify   == <<"close_notify", NULL>>
Asks     == <<"hello", "peer">>
Finished == <<"finished", NULL>>
Alert    == <<"alert", NULL>>
Certs    == {<<"certificate", x>> : x \in {X509} \ {NULL}}
ToLve    == {Hello, Notify} \cup Certs
ToTool   == {Asks, Finished, Alert}
Ways     == {"down", "up"}
Down(n)  == contents[<<n, "down">>]
Up(n)    == contents[<<n, "up">>]

\* What a descriptor may stand for.
Values ==
  {None, Stream(Stdin), Stream(Stdout), Stream(Stderr)}
    \cup {End(n, way, io) : n \in Starts, way \in Ways, io \in {"read", "write"}}
Tables == [Fds -> Values]

\* The descriptors of the two pipes of a start, in the order they are opened in.
Ordered(e) ==
  /\ e \in [dr : Fds, dw : Fds, ur : Fds, uw : Fds]
  /\ e.dr < e.dw /\ e.dw < e.ur /\ e.ur < e.uw
Numbers(e) == {e.dr, e.dw, e.ur, e.uw}

Handshake == {"setup", "hello", "certificate", "finished"}
Early     == {"pipes", "fork", "save", "replace", "spawn"}

\* A connection and a process as they may be.
Connection == [to : Fds \cup {Unset}, from : Fds \cup {Unset},
               ssl : {"none", "unset", "setup", "open", "freed"}, x509 : {NULL, X509}]
Process == [state : {"none", "forked", "started", "accepting", "verifying", "serving", "ended"},
            fds : Tables, ends : {<<>>} \cup [dr : Fds, dw : Fds, ur : Fds, uw : Fds],
            verify : {NULL, "peer"}, peer : {NULL, ToolKey}]

\* The tool's variables keep to their types.
ToolTypes ==
  /\ windows \in BOOLEAN /\ pc \in Steps /\ start \in 0..MaxStarts
  /\ pc \notin {"idle", "ended"} => start \in Starts
  /\ fds \in Tables /\ before \in Tables
  /\ pc \in Steps \ {"idle", "ended", "pipes"} => Ordered(ends)
  /\ pc \in {"save", "replace", "spawn", "restore"} => windows
  /\ pc = "fork" => ~windows
  /\ conns \in [Starts -> Connection]

\* So do the variables of the processes and of the pipes.
LveTypes ==
  /\ lves \in [Starts -> Process]
  /\ contents = [p \in Starts \X Ways |-> contents[p]]
  /\ \A n \in Starts : Down(n) \in Seq(ToLve) /\ Up(n) \in Seq(ToTool)

\* Starts that have not come to an LVE, or to a connection, yet.
Unstarted ==
  \A n \in Starts :
    /\ n > start \/ (n = start /\ pc \in Early) => lves[n].state = "none" /\ Up(n) = <<>>
    /\ n > start \/ (n = start /\ pc \in Early \cup {"restore"}) =>
         conns[n].ssl = "none" /\ Down(n) = <<>>

\* The current connection and the others.
Current ==
  /\ pc = "setup" => conns[start].ssl = "unset"
  /\ pc \in {"hello", "certificate", "finished"} =>
       conns[start].ssl = "setup" /\ conns[start].x509 = X509 /\ X509 # NULL
  /\ pc \in Handshake =>
       conns[start].to = ends.dw /\ conns[start].from = ends.ur /\ lves[start].ends = ends
  /\ \A n \in Starts : conns[n].ssl \in {"unset", "setup"} => n = start /\ pc \in Handshake \cup {"ended"}

\* What the numbers of a connection stand for.
ToolEndsOwn ==
  \A n \in Starts : Live(n) =>
    /\ conns[n].to \in Fds /\ conns[n].from \in Fds
    /\ pc # "ended" =>
         fds[conns[n].to] = End(n, "down", "write") /\ fds[conns[n].from] = End(n, "up", "read")
    /\ windows /\ conns[n].ssl = "open" => conns[n].to > 1 /\ conns[n].from > 1

\* Both pipes of the current start are open, in the lowest numbers.
Piped ==
  /\ fds[ends.dr] = End(start, "down", "read") /\ fds[ends.dw] = End(start, "down", "write")
  /\ fds[ends.ur] = End(start, "up", "read") /\ fds[ends.uw] = End(start, "up", "write")
  /\ \A fd \in Numbers(ends) : before[fd] = None

\* How far a start has changed the descriptors.
Stage ==
  /\ pc = "pipes" => fds = before
  /\ pc \in {"fork", "save"} =>
       /\ Piped /\ \A fd \in Fds \ Numbers(ends) : fds[fd] = before[fd]
       /\ \A fd \in Fds : fds[fd] = None => ends.uw < fd
  /\ pc \in {"replace", "spawn", "restore"} =>
       /\ saved.in \in Fds /\ saved.out \in Fds /\ ends.uw < saved.in /\ saved.in < saved.out
       /\ before[saved.in] = None /\ before[saved.out] = None
       /\ \A n \in Starts : Live(n) => {conns[n].to, conns[n].from} \cap {saved.in, saved.out} = {}
  /\ pc = "replace" =>
       /\ Piped /\ fds[saved.in] = fds[Stdin] /\ fds[saved.out] = fds[Stdout]
       /\ \A fd \in Fds \ (Numbers(ends) \cup {saved.in, saved.out}) : fds[fd] = before[fd]
  /\ pc \in {"spawn", "restore"} =>
       /\ fds[ends.ur] = End(start, "up", "read")
       /\ fds[IF ends.dw = Stdout THEN saved.out ELSE ends.dw] = End(start, "down", "write")
       /\ \A fd \in Numbers(ends) : before[fd] = None
       /\ ends.dr > 1 =>
            /\ fds[saved.in] = before[Stdin] /\ fds[saved.out] = before[Stdout]
            /\ \A fd \in Fds \ {Stdin, Stdout, ends.dw, ends.ur, saved.in, saved.out} : fds[fd] = before[fd]
  /\ pc = "spawn" =>
       /\ {Stdin, Stdout} \cap kept = {}
       /\ fds[Stdin] = IF ends.dr = Stdin THEN None ELSE End(start, "down", "read")
       /\ fds[Stdout] = IF ends.dr = Stdout THEN None ELSE End(start, "up", "write")
  /\ pc = "restore" => lves[start].ends = ends
  /\ pc \in Handshake =>
       /\ \A fd \in Numbers(ends) : before[fd] = None
       /\ ~windows \/ ends.dr > 1 =>
            \A fd \in Fds \ ({ends.dw, ends.ur} \cup (IF windows THEN {} ELSE {ends.uw})) : fds[fd] = before[fd]
  /\ pc = "finished" /\ windows => ends.dr > 1

\* The streams of an LVE: its own pipes, or nothing.
LveEnds(n) ==
  /\ lves[n].state = "forked" =>
       /\ ~windows /\ Ordered(lves[n].ends)
       /\ lves[n].fds[lves[n].ends.dr] = End(n, "down", "read")
       /\ lves[n].fds[lves[n].ends.uw] = End(n, "up", "write")
  /\ lves[n].state \in {"started", "accepting", "verifying", "serving"} =>
       /\ In(n) \in {None, End(n, "down", "read")} /\ Out(n) \in {None, End(n, "up", "write")}
       /\ windows /\ In(n) # None /\ Out(n) # None => lves[n].ends # <<>> /\ lves[n].ends.dr > 1
  /\ lves[n].state \in {"accepting", "verifying", "serving"} => lves[n].verify = "peer"
  /\ lves[n].state \in {"verifying", "serving"} => In(n) # None /\ Out(n) # None
  /\ lves[n].state = "serving" => lves[n].peer = ToolKey
  /\ windows /\ Up(n) # <<>> => lves[n].ends # <<>> /\ lves[n].ends.dr > 1
LveEndsOwn == \A n \in Starts : LveEnds(n)

\* How many messages a pipe holds.
Fill(n) ==
  /\ Len(Down(n)) <= 3
  /\ n = start /\ pc \in {"setup", "hello"} => Down(n) = <<>>
  /\ n = start /\ pc = "certificate" => Len(Down(n)) <= 1
  /\ (n = start /\ pc = "finished") \/ conns[n].ssl = "open" => Len(Down(n)) <= 2
  /\ Len(Up(n)) <= 2
  /\ lves[n].state = "verifying" => Len(Up(n)) <= 1
  /\ lves[n].state \in {"none", "forked", "started", "accepting"} => Up(n) = <<>>
Lengths == \A n \in Starts : Fill(n)

ConnInv == ToolTypes /\ LveTypes /\ Unstarted /\ Current /\ ToolEndsOwn /\ Stage /\ LveEndsOwn /\ Lengths

-----------------------------------------------------------------------------
(* Descriptors and tables.                                                   *)

\* The standard streams are descriptors.
LEMMA StreamsAreFds ==
  /\ Stdin \in Fds /\ Stdout \in Fds /\ Stdin = 0 /\ Stdout = 1
  /\ \A fd \in Fds : fd \in Nat
  BY BoundAssumption DEF Fds, Stdin, Stdout

\* What stands for the end of a pipe says which.
LEMMA EndFacts ==
  /\ \A n, way, io : End(n, way, io)[1] = "pipe" /\ End(n, way, io)[2] = <<n, way>>
                     /\ End(n, way, io)[3] = io /\ End(n, way, io) # None
                     /\ End(n, way, io) = <<"pipe", <<n, way>>, io>>
  /\ \A n, m, v, w, i, j : End(n, v, i) = End(m, w, j) => n = m /\ v = w /\ i = j
  /\ None[1] = "closed"
  /\ None \in Values
  /\ \A n \in Starts, way \in Ways, io \in {"read", "write"} : End(n, way, io) \in Values
  BY DEF End, None, Values

\* The tables that the system calls make.
LEMMA ShutIs ==
  ASSUME NEW t \in Tables, NEW fd \in Fds
  PROVE  /\ Shut(t, fd) \in Tables
         /\ \A x \in Fds : Shut(t, fd)[x] = IF x = fd THEN None ELSE t[x]
  BY EndFacts DEF Shut, Tables

\* A descriptor is duplicated to a given number.
LEMMA Dup2Is ==
  ASSUME NEW t \in Tables, NEW fd \in Fds, NEW to \in Fds
  PROVE  /\ Dup2(t, fd, to) \in Tables
         /\ \A x \in Fds : Dup2(t, fd, to)[x] = IF x = to THEN t[fd] ELSE t[x]
  BY DEF Dup2, Tables

\* The lowest number that is free, where there is one.
LEMMA FirstIs ==
  ASSUME NEW t \in Tables, Room(t) >= 1
  PROVE  First(t) \in Fds /\ t[First(t)] = None /\ \A x \in Fds : t[x] = None => First(t) <= x
  <1>1. IsFiniteSet(Fds) /\ Fds \subseteq Nat
    BY FS_Interval, BoundAssumption DEF Fds
  <1>2. Free(t) \subseteq Fds /\ IsFiniteSet(Free(t))
    BY <1>1, FS_Subset DEF Free
  <1>3. Free(t) # {}
    BY <1>2, FS_EmptySet DEF Room
  <1>4. First(t) \in Free(t) /\ \A x \in Free(t) : First(t) <= x
    BY <1>1, <1>2, <1>3, LeastOf DEF First
  <1>5. QED
    BY <1>4 DEF Free

\* The two lowest, and the room that is left when they are taken.
LEMMA PipeIs ==
  ASSUME NEW t \in Tables, Room(t) >= 2, start \in Starts, NEW way \in Ways
  PROVE  LET r == First(t) w == Second(t) p == Pipe(t, way) IN
         /\ r \in Fds /\ w \in Fds /\ r < w /\ t[r] = None /\ t[w] = None
         /\ p \in Tables /\ Room(p) = Room(t) - 2
         /\ \A x \in Fds : p[x] = IF x = r THEN End(start, way, "read")
                                  ELSE IF x = w THEN End(start, way, "write") ELSE t[x]
         /\ \A x \in Fds : p[x] = None => w < x
  <1> DEFINE r == First(t)
             w == Second(t)
             p == Pipe(t, way)
  <1>1. IsFiniteSet(Fds) /\ Fds \subseteq Nat
    BY FS_Interval, BoundAssumption DEF Fds
  <1>2. Free(t) \subseteq Fds /\ IsFiniteSet(Free(t)) /\ Cardinality(Free(t)) \in Nat
    BY <1>1, FS_Subset, FS_CardinalityType DEF Free
  <1>3. r \in Fds /\ t[r] = None /\ r \in Free(t) /\ \A x \in Free(t) : r <= x
    <2>1. Room(t) >= 1
      BY <1>2 DEF Room
    <2>2. QED
      BY <2>1, FirstIs DEF Free
  <1>4. /\ IsFiniteSet(Free(t) \ {r})
        /\ Cardinality(Free(t) \ {r}) = Cardinality(Free(t)) - 1
    BY <1>2, <1>3, FS_RemoveElement
  <1>5. Free(t) \ {r} # {}
    BY <1>2, <1>4, FS_EmptySet DEF Room
  <1>6. w \in Free(t) \ {r} /\ \A x \in Free(t) \ {r} : w <= x
    <2>1. Free(t) \ {r} \in SUBSET Nat
      BY <1>1, <1>2
    <2>2. QED
      BY <1>5, <2>1, LeastOf DEF Second
  <1> HIDE DEF r, w, p
  <1>7. Cardinality((Free(t) \ {r}) \ {w}) = Cardinality(Free(t)) - 2
    <2>1. Cardinality((Free(t) \ {r}) \ {w}) = Cardinality(Free(t) \ {r}) - 1
      BY <1>4, <1>6, FS_RemoveElement
    <2>2. QED
      BY <1>2, <1>4, <2>1
  <1>8. w \in Fds /\ t[w] = None /\ r < w
    <2>1. w \in Free(t) /\ w # r /\ r <= w
      BY <1>3, <1>6
    <2>2. w \in Fds /\ t[w] = None
      BY <2>1 DEF Free
    <2>3. QED
      BY <1>1, <1>3, <2>1, <2>2
  <1>9. /\ p \in Tables
        /\ \A x \in Fds : p[x] = IF x = r THEN End(start, way, "read")
                                 ELSE IF x = w THEN End(start, way, "write") ELSE t[x]
    <2>1. End(start, way, "read") \in Values /\ End(start, way, "write") \in Values
      BY EndFacts
    <2>2. p = [t EXCEPT ![r] = End(start, way, "read"), ![w] = End(start, way, "write")]
      BY DEF Pipe, p, r, w
    <2>3. r # w
      BY <1>1, <1>3, <1>8
    <2>4. QED
      BY <1>3, <1>8, <2>1, <2>2, <2>3 DEF Tables
  <1>10. Free(p) = (Free(t) \ {r}) \ {w}
    BY <1>9, EndFacts DEF Free
  <1>11. Room(p) = Room(t) - 2
    BY <1>7, <1>10 DEF Room
  <1>12. \A x \in Fds : p[x] = None => w < x
    <2> SUFFICES ASSUME NEW x \in Fds, p[x] = None PROVE w < x
      OBVIOUS
    <2>1. x \in (Free(t) \ {r}) \ {w}
      BY <1>10 DEF Free
    <2>2. w <= x /\ w # x
      BY <1>6, <2>1
    <2>3. QED
      BY <1>1, <1>8, <2>2
  <1>13. QED
    BY <1>3, <1>8, <1>9, <1>11, <1>12 DEF p, r, w


\* A duplicate takes the lowest number that is free.
LEMMA DupIs ==
  ASSUME NEW t \in Tables, Room(t) >= 1, NEW fd \in Fds, t[fd] # None
  PROVE  /\ First(t) \in Fds /\ t[First(t)] = None /\ Dup(t, fd) \in Tables
         /\ \A x \in Fds : Dup(t, fd)[x] = IF x = First(t) THEN t[fd] ELSE t[x]
         /\ Room(Dup(t, fd)) = Room(t) - 1
         /\ Copied(t, fd) = [table |-> Dup(t, fd), copy |-> First(t)]
  <1> DEFINE f == First(t)
             d == Dup(t, fd)
  <1>1. f \in Fds /\ t[f] = None
    BY FirstIs
  <1>2. IsFiniteSet(Free(t)) /\ f \in Free(t)
    <2>1. IsFiniteSet(Fds)
      BY FS_Interval, BoundAssumption DEF Fds
    <2>2. QED
      BY <1>1, <2>1, FS_Subset DEF Free
  <1>3. d = [t EXCEPT ![f] = t[fd]]
    BY DEF Dup
  <1>4. Copied(t, fd) = [table |-> d, copy |-> f]
    BY DEF Copied
  <1> HIDE DEF f, d
  <1>5. d \in Tables /\ \A x \in Fds : d[x] = IF x = f THEN t[fd] ELSE t[x]
    BY <1>1, <1>3 DEF Tables
  <1>6. Free(d) = Free(t) \ {f}
    BY <1>1, <1>5 DEF Free
  <1>7. Room(d) = Room(t) - 1
    BY <1>2, <1>6, FS_RemoveElement DEF Room
  <1>8. QED
    BY <1>1, <1>4, <1>5, <1>7 DEF f, d

\* The two pipes of a start are in the four lowest numbers.
LEMMA PipesAre ==
  ASSUME fds \in Tables, Room(fds) >= 4, start \in Starts,
         NEW e, NEW t,
         e = [dr |-> First(fds), dw |-> Second(fds),
              ur |-> First(Pipe(fds, "down")), uw |-> Second(Pipe(fds, "down"))],
         t = Pipe(Pipe(fds, "down"), "up")
  PROVE  /\ Ordered(e) /\ t \in Tables
         /\ t[e.dr] = End(start, "down", "read") /\ t[e.dw] = End(start, "down", "write")
         /\ t[e.ur] = End(start, "up", "read") /\ t[e.uw] = End(start, "up", "write")
         /\ \A x \in Fds \ Numbers(e) : t[x] = fds[x]
         /\ \A x \in Numbers(e) : fds[x] = None
         /\ \A x \in Fds : t[x] = None => e.uw < x
  <1> DEFINE one == Pipe(fds, "down")
  <1>1. "down" \in Ways /\ "up" \in Ways
    BY DEF Ways
  <1>2. /\ e.dr \in Fds /\ e.dw \in Fds /\ e.dr < e.dw /\ fds[e.dr] = None /\ fds[e.dw] = None
        /\ one \in Tables /\ Room(one) = Room(fds) - 2
        /\ \A x \in Fds : one[x] = IF x = e.dr THEN End(start, "down", "read")
                                   ELSE IF x = e.dw THEN End(start, "down", "write") ELSE fds[x]
        /\ \A x \in Fds : one[x] = None => e.dw < x
    <2>1. Room(fds) >= 2
      <3>1. IsFiniteSet(Fds)
        BY FS_Interval, BoundAssumption DEF Fds
      <3>2. Room(fds) \in Nat
        BY <3>1, FS_Subset, FS_CardinalityType DEF Room, Free
      <3>3. QED
        BY <3>2
    <2>2. e.dr = First(fds) /\ e.dw = Second(fds)
      OBVIOUS
    <2>3. QED
      BY <1>1, <2>1, <2>2, PipeIs
  <1>3. Room(one) >= 2
    <2>1. IsFiniteSet(Fds)
      BY FS_Interval, BoundAssumption DEF Fds
    <2>2. Room(fds) \in Nat
      BY <2>1, FS_Subset, FS_CardinalityType DEF Room, Free
    <2>3. QED
      BY <1>2, <2>2
  <1>4. e.ur = First(one) /\ e.uw = Second(one) /\ t = Pipe(one, "up")
    OBVIOUS
  <1> HIDE DEF one
  <1>5. /\ e.ur \in Fds /\ e.uw \in Fds /\ e.ur < e.uw /\ one[e.ur] = None /\ one[e.uw] = None
        /\ t \in Tables
        /\ \A x \in Fds : t[x] = IF x = e.ur THEN End(start, "up", "read")
                                 ELSE IF x = e.uw THEN End(start, "up", "write") ELSE one[x]
        /\ \A x \in Fds : t[x] = None => e.uw < x
    BY <1>1, <1>2, <1>3, <1>4, PipeIs
  <1>6. e.dw < e.ur /\ e.dw < e.uw
    BY <1>2, <1>5
  <1>7. Ordered(e)
    <2>1. e \in [dr : Fds, dw : Fds, ur : Fds, uw : Fds]
      <3>1. e = [dr |-> e.dr, dw |-> e.dw, ur |-> e.ur, uw |-> e.uw]
        OBVIOUS
      <3>2. QED
        BY <1>2, <1>5, <3>1
    <2>2. QED
      BY <1>2, <1>5, <1>6, <2>1 DEF Ordered
  <1>8. e.dr # e.dw /\ e.dr # e.ur /\ e.dr # e.uw /\ e.dw # e.ur /\ e.dw # e.uw /\ e.ur # e.uw
    <2>1. \A a, b \in Nat : a < b => a # b
      OBVIOUS
    <2>2. e.dr \in Nat /\ e.dw \in Nat /\ e.ur \in Nat /\ e.uw \in Nat
      BY <1>2, <1>5, StreamsAreFds
    <2>3. \A a, b, c \in Nat : a < b /\ b < c => a < c
      OBVIOUS
    <2>4. e.dr < e.ur /\ e.dr < e.uw
      BY <1>2, <1>6, <2>2, <2>3
    <2>5. QED
      BY <1>2, <1>5, <1>6, <2>1, <2>2, <2>4
  <1>9. /\ t[e.dr] = End(start, "down", "read") /\ t[e.dw] = End(start, "down", "write")
        /\ t[e.ur] = End(start, "up", "read") /\ t[e.uw] = End(start, "up", "write")
    BY <1>2, <1>5, <1>8
  <1>10. \A x \in Fds \ Numbers(e) : t[x] = fds[x]
    BY <1>2, <1>5 DEF Numbers
  <1>11. \A x \in Numbers(e) : fds[x] = None
    BY <1>2, <1>5, <1>8 DEF Numbers
  <1>12. QED
    BY <1>5, <1>7, <1>9, <1>10, <1>11

-----------------------------------------------------------------------------
(* Steps of the tool.                                                        *)

\* The invariant holds initially.
LEMMA ConnStarts == Init => ConnInv
  <1> SUFFICES ASSUME Init PROVE ConnInv
    OBVIOUS
  <1>1. Closed \in Tables /\ fds \in Tables
    <2>1. \A x \in {Stdin, Stdout, Stderr} : Stream(x) \in Values
      BY DEF Values
    <2>2. PICK open \in SUBSET {Stdin, Stdout} :
            fds = [fd \in Fds |-> IF fd \in open \cup {Stderr} THEN Stream(fd) ELSE None]
      BY DEF Init
    <2>3. fds \in Tables
      BY <2>1, <2>2, EndFacts DEF Tables
    <2>4. Closed \in Tables
      BY EndFacts DEF Closed, Tables
    <2>5. QED
      BY <2>3, <2>4
  <1>2. ToolTypes
    BY <1>1, BoundAssumption DEF Init, ToolTypes, Steps, NoConnection, Connection
  <1>3. LveTypes
    BY <1>1 DEF Init, LveTypes, NoLve, Ways, Down, Up, Process
  <1>4. Unstarted /\ Lengths
    BY DEF Init, Unstarted, Lengths, Fill, NoLve, NoConnection, Starts, Down, Up, Early, Ways
  <1>5. Current /\ ToolEndsOwn /\ Stage
    BY DEF Init, Current, ToolEndsOwn, Stage, Live, NoConnection, Handshake
  <1>6. LveEndsOwn
    BY DEF Init, LveEndsOwn, LveEnds, NoLve, Up, Ways
  <1>7. QED
    BY <1>2, <1>3, <1>4, <1>5, <1>6 DEF ConnInv

\* A step of a start that changes nothing but the tool's descriptors, and those
\* of no connection.
LEMMA TableStep ==
  ASSUME ConnInv, UNCHANGED <<windows, start, conns, lves, contents>>,
         pc \in Early \cup {"restore"}, pc' \in Early \cup {"restore", "idle"},
         pc = "restore" => pc' = "idle",
         \A n \in Starts : Live(n) =>
           fds'[conns[n].to] = fds[conns[n].to] /\ fds'[conns[n].from] = fds[conns[n].from]
  PROVE  LveTypes' /\ Unstarted' /\ Current' /\ ToolEndsOwn' /\ LveEndsOwn' /\ Lengths'
  <1>1. LveTypes' /\ LveEndsOwn'
    BY DEF ConnInv, LveTypes, LveEndsOwn, LveEnds, In, Out, Up, Down
  <1>2. Unstarted' /\ Lengths'
    BY DEF ConnInv, Unstarted, Lengths, Fill, Down, Up, Early
  <1>3. Current'
    BY DEF ConnInv, Current, Early, Handshake
  <1>4. ToolEndsOwn'
    BY DEF ConnInv, ToolEndsOwn, Live, Early
  <1>5. QED
    BY <1>1, <1>2, <1>3, <1>4


\* A start begins.
LEMMA StepStartExecutable ==
  ASSUME ConnInv, StartExecutable
  PROVE  ConnInv'
  <1>1. /\ pc = "idle" /\ start < MaxStarts /\ start' = start + 1 /\ before' = fds
        /\ pc' = "pipes" \/ pc' = "idle"
        /\ UNCHANGED <<windows, fds, kept, ends, saved, conns, lves, contents>>
    BY DEF StartExecutable, Go, GiveUp
  <1>2. start \in Nat /\ start' \in Starts
    BY <1>1, BoundAssumption DEF ConnInv, ToolTypes, Starts
  <1>3. ToolTypes'
    BY <1>1, <1>2, BoundAssumption DEF ConnInv, ToolTypes, Steps, Starts
  <1>4. LveTypes' /\ LveEndsOwn'
    BY <1>1 DEF ConnInv, LveTypes, LveEndsOwn, LveEnds, In, Out, Up, Down
  <1>5. Unstarted' /\ Lengths'
    <2>1. \A n \in Starts : n >= start' => n > start
      BY <1>1, <1>2 DEF Starts
    <2>2. \A n \in Starts : n > start' => n > start
      BY <1>1, <1>2 DEF Starts
    <2>3. ASSUME NEW n \in Starts,
                 n > start' \/ (n = start' /\ pc' \in Early \cup {"restore"})
          PROVE  n > start
      <3>1. n \in Nat /\ start' \in Nat /\ (n = start' => n >= start')
        BY <1>2 DEF Starts
      <3>2. QED
        BY <2>1, <2>2, <2>3, <3>1
    <2>4. Unstarted'
      BY <1>1, <2>3 DEF ConnInv, Unstarted, Down, Up, Early
    <2>5. Lengths'
      BY <1>1 DEF ConnInv, Lengths, Fill, Down, Up
    <2>6. QED
      BY <2>4, <2>5
  <1>6. Current' /\ ToolEndsOwn' /\ Stage'
    BY <1>1 DEF ConnInv, Current, ToolEndsOwn, Stage, Live, Handshake
  <1>7. QED
    BY <1>3, <1>4, <1>5, <1>6 DEF ConnInv

\* The pipes are opened, both, one or none.
LEMMA StepOpenPipes ==
  ASSUME ConnInv, OpenPipes
  PROVE  ConnInv'
  <1>0. /\ pc = "pipes" /\ UNCHANGED <<windows, start, saved, conns, lves, contents, before>>
        /\ kept' = kept \cup {fd \in Fds : fds'[fd] # fds[fd]}
        /\ fds \in Tables /\ fds = before /\ start \in Starts
    BY DEF ConnInv, OpenPipes, ToolTypes, Stage
  <1>1. \A n \in Starts : Live(n) =>
          /\ conns[n].to \in Fds /\ conns[n].from \in Fds
          /\ fds[conns[n].to] # None /\ fds[conns[n].from] # None
    BY <1>0, EndFacts DEF ConnInv, ToolEndsOwn
  <1>2. CASE pc' = "idle" /\ fds' = fds /\ ends' = ends
    <2>1. ToolTypes'
      BY <1>0, <1>2 DEF ConnInv, ToolTypes, Steps
    <2>2. Stage'
      BY <1>2 DEF Stage, Handshake
    <2>3. QED
      BY <1>0, <1>2, <2>1, <2>2, TableStep DEF ConnInv, Early
  <1>3. CASE pc' = "idle" /\ Room(fds) >= 2 /\ fds' = Pipe(fds, "down") /\ ends' = ends
    <2>1. "down" \in Ways
      BY DEF Ways
    <2>2. fds' \in Tables /\ \A x \in Fds : fds[x] # None => fds'[x] = fds[x]
      BY <1>0, <1>3, <2>1, PipeIs
    <2>3. ToolTypes'
      BY <1>0, <1>3, <2>2 DEF ConnInv, ToolTypes, Steps
    <2>4. Stage'
      BY <1>3 DEF Stage, Handshake
    <2>5. QED
      BY <1>0, <1>1, <1>3, <2>2, <2>3, <2>4, TableStep DEF ConnInv, Early
  <1>4. CASE /\ Room(fds) >= 4 /\ fds' = Pipe(Pipe(fds, "down"), "up")
             /\ ends' = [dr |-> First(fds), dw |-> Second(fds),
                         ur |-> First(Pipe(fds, "down")), uw |-> Second(Pipe(fds, "down"))]
             /\ pc' = IF windows THEN "save" ELSE "fork"
    <2>1. /\ Ordered(ends') /\ fds' \in Tables
          /\ fds'[ends'.dr] = End(start, "down", "read") /\ fds'[ends'.dw] = End(start, "down", "write")
          /\ fds'[ends'.ur] = End(start, "up", "read") /\ fds'[ends'.uw] = End(start, "up", "write")
          /\ \A x \in Fds \ Numbers(ends') : fds'[x] = fds[x]
          /\ \A x \in Numbers(ends') : fds[x] = None
          /\ \A x \in Fds : fds'[x] = None => ends'.uw < x
      BY <1>0, <1>4, PipesAre
    <2>2. ToolTypes'
      BY <1>0, <1>4, <2>1 DEF ConnInv, ToolTypes, Steps
    <2>3. Stage'
      BY <1>0, <1>4, <2>1 DEF Stage, Handshake, Piped, Numbers
    <2>4. \A x \in Fds : fds[x] # None => fds'[x] = fds[x]
      BY <2>1
    <2>5. QED
      BY <1>0, <1>1, <1>4, <2>2, <2>3, <2>4, TableStep DEF ConnInv, Early
  <1>5. QED
    BY <1>2, <1>3, <1>4 DEF OpenPipes, GiveUp, Go


\* The numbers of a live connection, before the tool ends.
LEMMA LiveNumbers ==
  ASSUME ConnInv, pc # "ended", NEW n \in Starts, Live(n)
  PROVE  /\ conns[n].to \in Fds /\ conns[n].from \in Fds
         /\ fds[conns[n].to] = End(n, "down", "write") /\ fds[conns[n].from] = End(n, "up", "read")
         /\ fds[conns[n].to] # None /\ fds[conns[n].from] # None
  BY EndFacts DEF ConnInv, ToolEndsOwn

\* The standard streams of the tool are open once the pipes are: whichever was
\* closed stands for an end of a pipe now.
LEMMA StreamsAreOpen ==
  ASSUME ConnInv, pc \in {"fork", "save"}
  PROVE  Ordered(ends) /\ ends.uw >= 3 /\ fds[Stdin] # None /\ fds[Stdout] # None
  <1>1. Ordered(ends) /\ \A fd \in Fds : fds[fd] = None => ends.uw < fd
    BY DEF ConnInv, ToolTypes, Stage, Steps
  <1>2. ends.dr \in Nat /\ ends.dw \in Nat /\ ends.ur \in Nat /\ ends.uw \in Nat
    BY <1>1, StreamsAreFds DEF Ordered
  <1>3. ends.dr < ends.dw /\ ends.dw < ends.ur /\ ends.ur < ends.uw
    BY <1>1 DEF Ordered
  <1>4. ends.uw >= 3
    BY <1>2, <1>3
  <1>5. ~(ends.uw < 0) /\ ~(ends.uw < 1)
    BY <1>2, <1>4
  <1>6. QED
    BY <1>1, <1>4, <1>5, StreamsAreFds

\* Both streams are copied to the lowest free numbers, or one, or none.
LEMMA StepSaveStreams ==
  ASSUME ConnInv, SaveStreams
  PROVE  ConnInv'
  <1> DEFINE one == First(fds)
             mid == Dup(fds, Stdin)
             two == First(mid)
             all == Dup(mid, Stdout)
  <1>0. /\ pc = "save" /\ UNCHANGED <<windows, start, ends, conns, lves, contents, before>>
        /\ fds \in Tables /\ start \in Starts /\ windows
    BY DEF ConnInv, SaveStreams, ToolTypes
  <1>1. Ordered(ends) /\ ends.uw >= 3 /\ fds[Stdin] # None /\ fds[Stdout] # None
    BY <1>0, StreamsAreOpen
  <1>2. Room(fds) \in Nat
    <2>1. IsFiniteSet(Fds)
      BY FS_Interval, BoundAssumption DEF Fds
    <2>2. QED
      BY <2>1, FS_Subset, FS_CardinalityType DEF Room, Free
  <1>3. ASSUME Room(fds) >= 1
        PROVE  /\ one \in Fds /\ fds[one] = None /\ mid \in Tables
               /\ \A x \in Fds : mid[x] = IF x = one THEN fds[Stdin] ELSE fds[x]
               /\ Room(mid) = Room(fds) - 1
               /\ Copied(fds, Stdin) = [table |-> mid, copy |-> one]
               /\ \A x \in Fds : fds[x] = None => one <= x
    BY <1>0, <1>1, <1>3, DupIs, FirstIs, StreamsAreFds
  <1>4. ASSUME Room(fds) >= 2
        PROVE  /\ two \in Fds /\ mid[two] = None /\ all \in Tables
               /\ \A x \in Fds : all[x] = IF x = two THEN mid[Stdout] ELSE mid[x]
               /\ Copied(mid, Stdout) = [table |-> all, copy |-> two]
    <2>1. Room(fds) >= 1 /\ Room(fds) - 1 >= 1
      BY <1>2, <1>4
    <2>2. mid \in Tables /\ Room(mid) >= 1 /\ mid[Stdout] # None
      <3>1. one # Stdout
        BY <1>1, <1>3, <2>1
      <3>2. QED
        BY <1>1, <1>3, <2>1, <3>1, StreamsAreFds
    <2>3. QED
      BY <2>2, DupIs, StreamsAreFds
  <1> HIDE DEF one, mid, two, all
  <1>5. CASE pc' = "idle" /\ saved' = saved
             /\ (fds' = fds \/ (Room(fds) >= 1 /\ fds' = Copied(fds, Stdin).table))
    <2>1. fds' \in Tables /\ \A x \in Fds : fds[x] # None => fds'[x] = fds[x]
      <3>1. CASE fds' = fds
        BY <1>0, <3>1
      <3>2. CASE Room(fds) >= 1 /\ fds' = mid
        BY <1>3, <3>2
      <3>3. QED
        BY <1>3, <1>5, <3>1, <3>2
    <2>2. ToolTypes'
      BY <1>0, <1>5, <2>1 DEF ConnInv, ToolTypes, Steps
    <2>3. Stage'
      BY <1>5 DEF Stage, Handshake
    <2>4. QED
      BY <1>0, <1>5, <2>1, <2>2, <2>3, LiveNumbers, TableStep DEF ConnInv, Early
  <1>6. CASE Room(fds) >= 2 /\ fds' = all /\ saved' = [in |-> one, out |-> two] /\ pc' = "replace"
    <2>1. Room(fds) >= 1
      BY <1>2, <1>6
    <2>2. /\ one \in Fds /\ two \in Fds /\ fds[one] = None /\ fds[two] = None
          /\ one # two /\ one <= two
      BY <1>1, <1>3, <1>4, <1>6, <2>1
    <2>3. fds' \in Tables /\ \A x \in Fds \ {one, two} : fds'[x] = fds[x]
      BY <1>3, <1>4, <1>6, <2>1
    <2>4. Stdin \notin {one, two} /\ Stdout \notin {one, two}
      BY <1>1, <2>2
    <2>5. fds'[one] = fds[Stdin] /\ fds'[two] = fds[Stdout]
      BY <1>3, <1>4, <1>6, <2>1, <2>2, <2>4, StreamsAreFds
    <2>6. /\ Piped /\ (\A fd \in Fds \ Numbers(ends) : fds[fd] = before[fd])
          /\ \A fd \in Fds : fds[fd] = None => ends.uw < fd
      BY <1>0 DEF ConnInv, Stage
    <2>7. one \notin Numbers(ends) /\ two \notin Numbers(ends)
      BY <2>2, <2>6, EndFacts DEF Piped, Numbers
    <2>8. before[one] = None /\ before[two] = None
      BY <2>2, <2>6, <2>7
    <2>9. ends.uw < one /\ one < two
      <3>1. one \in Nat /\ two \in Nat
        BY <2>2, StreamsAreFds
      <3>2. ends.uw < one
        BY <2>2, <2>6
      <3>3. QED
        BY <2>2, <3>1, <3>2
    <2>10. Piped'
      <3>1. Numbers(ends) \subseteq Fds
        BY <1>1 DEF Numbers, Ordered
      <3>2. QED
        BY <1>0, <2>3, <2>6, <2>7, <3>1 DEF Piped, Numbers
    <2>11. \A n \in Starts : Live(n) => {conns[n].to, conns[n].from} \cap {one, two} = {}
      BY <1>0, <2>2, LiveNumbers
    <2>12. ToolTypes'
      BY <1>0, <1>6, <2>3 DEF ConnInv, ToolTypes, Steps
    <2>13. Stage'
      <3>1. saved'.in = one /\ saved'.out = two
        BY <1>6
      <3>3. fds'[Stdin] = fds[Stdin] /\ fds'[Stdout] = fds[Stdout]
        BY <2>3, <2>4, StreamsAreFds
      <3>4. \A n \in Starts : Live(n)' => {conns'[n].to, conns'[n].from} \cap {saved'.in, saved'.out} = {}
        BY <1>0, <2>11, <3>1 DEF Live
      <3>5. \A fd \in Fds \ (Numbers(ends') \cup {saved'.in, saved'.out}) : fds'[fd] = before'[fd]
        BY <1>0, <2>3, <2>6, <3>1
      <3>6. QED
        BY <1>0, <1>6, <2>2, <2>5, <2>8, <2>9, <2>10, <3>1, <3>3, <3>4, <3>5 DEF Stage, Handshake
    <2>14. \A n \in Starts : Live(n) =>
             fds'[conns[n].to] = fds[conns[n].to] /\ fds'[conns[n].from] = fds[conns[n].from]
      BY <1>0, <2>3, <2>11, LiveNumbers
    <2>15. QED
      BY <1>0, <1>6, <2>12, <2>13, <2>14, TableStep DEF ConnInv, Early
  <1>7. CASE Room(fds) >= 2
             /\ fds' = Copied(Copied(fds, Stdin).table, Stdout).table
             /\ saved' = [in |-> Copied(fds, Stdin).copy,
                          out |-> Copied(Copied(fds, Stdin).table, Stdout).copy]
             /\ pc' = "replace"
    <2>1. Room(fds) >= 1
      BY <1>2, <1>7
    <2>2. Copied(fds, Stdin).table = mid /\ Copied(fds, Stdin).copy = one
      BY <1>3, <2>1
    <2>3. Copied(mid, Stdout).table = all /\ Copied(mid, Stdout).copy = two
      BY <1>4, <1>7
    <2>4. QED
      BY <1>6, <1>7, <2>2, <2>3
  <1>8. QED
    BY <1>5, <1>7 DEF SaveStreams, GiveUp, Go


\* Between two starts, and during one that has no connection yet, a connection
\* that lives is open.
LEMMA LiveIsOpen ==
  ASSUME ConnInv, pc \in Early \cup {"restore", "idle"}, NEW n \in Starts, Live(n)
  PROVE  conns[n].ssl = "open"
  BY DEF ConnInv, Current, Live, Early, Handshake

\* The numbers of the two pipes, apart from each other.
LEMMA OrderedIs ==
  ASSUME NEW e, Ordered(e)
  PROVE  /\ e \in [dr : Fds, dw : Fds, ur : Fds, uw : Fds] /\ e # <<>>
         /\ e.dr \in Fds /\ e.dw \in Fds /\ e.ur \in Fds /\ e.uw \in Fds
         /\ e.dr # e.dw /\ e.dr # e.ur /\ e.dr # e.uw /\ e.dw # e.ur /\ e.dw # e.uw /\ e.ur # e.uw
         /\ e.dw # 0 /\ e.ur > 1 /\ e.uw > 2 /\ (e.dr # 0 /\ e.dr # 1 => e.dr > 1)
         /\ e.ur # 0 /\ e.ur # 1 /\ e.uw # 0 /\ e.uw # 1
         /\ (e.dr > 1 => e.dr # 0 /\ e.dr # 1 /\ e.dw # 1)
  <1>1. e \in [dr : Fds, dw : Fds, ur : Fds, uw : Fds]
    BY DEF Ordered
  <1>2. e # <<>>
    <2>1. "dr" \in DOMAIN e
      BY <1>1
    <2>2. DOMAIN <<>> = {}
      OBVIOUS
    <2>3. QED
      BY <2>1, <2>2, Zenon
  <1>3. e.dr \in Nat /\ e.dw \in Nat /\ e.ur \in Nat /\ e.uw \in Nat
    BY <1>1, StreamsAreFds
  <1>4. e.dr < e.dw /\ e.dw < e.ur /\ e.ur < e.uw
    BY DEF Ordered
  <1>5. QED
    BY <1>1, <1>2, <1>3, <1>4

\* The pipes take the place of the tool's streams, one, both or none.
LEMMA StepReplaceStreams ==
  ASSUME ConnInv, ReplaceStreams
  PROVE  ConnInv'
  <1> DEFINE one  == Dup2(fds, ends.dr, Stdin)
             both == Dup2(one, ends.uw, Stdout)
             all  == Shut(Shut(both, ends.dr), ends.uw)
  <1>0. /\ pc = "replace" /\ UNCHANGED <<windows, start, ends, saved, conns, lves, contents, before>>
        /\ fds \in Tables /\ start \in Starts /\ windows /\ Ordered(ends)
    BY DEF ConnInv, ReplaceStreams, ToolTypes, Steps
  <1>1. /\ ends.dr \in Fds /\ ends.dw \in Fds /\ ends.ur \in Fds /\ ends.uw \in Fds
        /\ ends.dr # ends.dw /\ ends.dr # ends.ur /\ ends.dr # ends.uw
        /\ ends.dw # ends.ur /\ ends.dw # ends.uw /\ ends.ur # ends.uw
        /\ ends.dw # 0 /\ ends.ur # 0 /\ ends.ur # 1 /\ ends.uw # 0 /\ ends.uw # 1
        /\ (ends.dr > 1 => ends.dr # 0 /\ ends.dr # 1)
        /\ (ends.dr > 1 => ends.dw # 1)
    BY <1>0, OrderedIs
  <1>a. Stdin \in Fds /\ Stdout \in Fds /\ ends.dr \in Fds /\ ends.uw \in Fds
    BY <1>1, StreamsAreFds
  <1>2. /\ one \in Tables /\ \A x \in Fds : one[x] = IF x = Stdin THEN fds[ends.dr] ELSE fds[x]
    BY <1>0, <1>a, Dup2Is, ZenonT(60)
  <1>3. /\ both \in Tables /\ \A x \in Fds : both[x] = IF x = Stdout THEN one[ends.uw] ELSE one[x]
    <2> HIDE DEF one
    <2>1. QED
      BY <1>a, <1>2, Dup2Is, ZenonT(60)
  <1>4. /\ all \in Tables
        /\ \A x \in Fds : all[x] = IF x = ends.uw \/ x = ends.dr THEN None ELSE both[x]
    <2> HIDE DEF both
    <2>1. /\ Shut(both, ends.dr) \in Tables
          /\ \A x \in Fds : Shut(both, ends.dr)[x] = IF x = ends.dr THEN None ELSE both[x]
      BY <1>a, <1>3, ShutIs
    <2> DEFINE less == Shut(both, ends.dr)
    <2>2. less \in Tables /\ \A x \in Fds : less[x] = IF x = ends.dr THEN None ELSE both[x]
      BY <2>1
    <2> HIDE DEF less
    <2>3. /\ Shut(less, ends.uw) \in Tables
          /\ \A x \in Fds : Shut(less, ends.uw)[x] = IF x = ends.uw THEN None ELSE less[x]
      BY <1>a, <2>2, ShutIs
    <2>4. QED
      BY <2>2, <2>3 DEF less
  <1>5. /\ Piped /\ fds[saved.in] = fds[Stdin] /\ fds[saved.out] = fds[Stdout]
        /\ \A fd \in Fds \ (Numbers(ends) \cup {saved.in, saved.out}) : fds[fd] = before[fd]
        /\ saved.in \in Fds /\ saved.out \in Fds /\ ends.uw < saved.in /\ saved.in < saved.out
        /\ before[saved.in] = None /\ before[saved.out] = None
        /\ \A n \in Starts : Live(n) => {conns[n].to, conns[n].from} \cap {saved.in, saved.out} = {}
    BY <1>0 DEF ConnInv, Stage
  <1>6. /\ saved.in \notin Numbers(ends) /\ saved.out \notin Numbers(ends) /\ saved.in # saved.out
        /\ Stdin \notin {saved.in, saved.out} /\ Stdout \notin {saved.in, saved.out}
    <2>1. saved.in \in Nat /\ saved.out \in Nat /\ ends.dr \in Nat /\ ends.dw \in Nat
          /\ ends.ur \in Nat /\ ends.uw \in Nat
      BY <1>1, <1>5, StreamsAreFds
    <2>2. ends.dr < ends.dw /\ ends.dw < ends.ur /\ ends.ur < ends.uw
      BY <1>0 DEF Ordered
    <2>3. QED
      BY <1>5, <2>1, <2>2, StreamsAreFds DEF Numbers
  <1>7. ASSUME NEW n \in Starts, Live(n)
        PROVE  {conns[n].to, conns[n].from} \cap {Stdin, Stdout, ends.dr, ends.uw} = {}
    <2>1. conns[n].ssl = "open"
      BY <1>0, <1>7, LiveIsOpen DEF Early
    <2>2. conns[n].to > 1 /\ conns[n].from > 1 /\ conns[n].to \in Nat /\ conns[n].from \in Nat
      BY <1>0, <1>7, <2>1, StreamsAreFds DEF ConnInv, ToolEndsOwn
    <2>3. conns[n].to \notin {Stdin, Stdout} /\ conns[n].from \notin {Stdin, Stdout}
      BY <2>2, StreamsAreFds
    <2>4. conns[n].to \notin {ends.dr, ends.uw} /\ conns[n].from \notin {ends.dr, ends.uw}
      BY <1>0, <1>5, <1>7, LiveNumbers, EndFacts DEF Piped
    <2>5. QED
      BY <2>3, <2>4
  <1> HIDE DEF one, both, all
  <1>8. CASE pc' = "idle" /\ (fds' = fds \/ fds' = one)
    <2>1. fds' \in Tables /\ \A x \in Fds \ {Stdin} : fds'[x] = fds[x]
      BY <1>0, <1>2, <1>8
    <2>2. ToolTypes'
      BY <1>0, <1>8, <2>1 DEF ConnInv, ToolTypes, Steps
    <2>3. Stage'
      BY <1>8 DEF Stage, Handshake
    <2>4. \A n \in Starts : Live(n) =>
             fds'[conns[n].to] = fds[conns[n].to] /\ fds'[conns[n].from] = fds[conns[n].from]
      BY <1>0, <1>7, <2>1, LiveNumbers
    <2>5. QED
      BY <1>0, <1>8, <2>2, <2>3, <2>4, TableStep DEF ConnInv, Early
  <1>9. CASE pc' = "spawn" /\ fds' = all /\ kept' = kept \ {Stdin, Stdout}
    <2>1. /\ fds' \in Tables
          /\ \A x \in Fds \ {Stdin, Stdout, ends.dr, ends.uw} : fds'[x] = fds[x]
          /\ fds'[ends.dr] = None /\ fds'[ends.uw] = None
      BY <1>1, <1>2, <1>3, <1>4, <1>9
    <2>2. /\ fds'[Stdin] = IF ends.dr = Stdin THEN None ELSE End(start, "down", "read")
          /\ fds'[Stdout] = IF ends.dr = Stdout THEN None ELSE End(start, "up", "write")
      <3>1. one[Stdin] = End(start, "down", "read") /\ one[ends.uw] = End(start, "up", "write")
        BY <1>1, <1>2, <1>5, StreamsAreFds DEF Piped
      <3>2. both[Stdin] = End(start, "down", "read") /\ both[Stdout] = End(start, "up", "write")
        BY <1>3, <3>1, StreamsAreFds
      <3>3. ends.uw # Stdin /\ ends.uw # Stdout
        BY <1>1, StreamsAreFds
      <3>4. QED
        BY <1>4, <1>9, <3>2, <3>3, StreamsAreFds
    <2>3. fds'[ends.ur] = End(start, "up", "read")
      BY <1>1, <1>5, <2>1, StreamsAreFds DEF Piped
    <2>4. fds'[saved.in] = fds[Stdin] /\ fds'[saved.out] = fds[Stdout]
      BY <1>5, <1>6, <2>1 DEF Numbers
    <2>5. fds'[IF ends.dw = Stdout THEN saved.out ELSE ends.dw] = End(start, "down", "write")
      <3>1. CASE ends.dw = Stdout
        BY <1>5, <2>4, <3>1 DEF Piped
      <3>2. CASE ends.dw # Stdout
        BY <1>1, <1>5, <2>1, <3>2, StreamsAreFds DEF Piped
      <3>3. QED
        BY <3>1, <3>2
    <2>6. \A fd \in Numbers(ends) : before[fd] = None
      BY <1>5 DEF Piped
    <2>7. ASSUME ends.dr > 1
          PROVE  /\ fds'[saved.in] = before[Stdin] /\ fds'[saved.out] = before[Stdout]
                 /\ \A fd \in Fds \ {Stdin, Stdout, ends.dw, ends.ur, saved.in, saved.out} :
                      fds'[fd] = before[fd]
      <3>1. Stdin \notin Numbers(ends) /\ Stdout \notin Numbers(ends)
        BY <1>1, <2>7, StreamsAreFds DEF Numbers
      <3>2. fds[Stdin] = before[Stdin] /\ fds[Stdout] = before[Stdout]
        BY <1>5, <1>6, <3>1, StreamsAreFds
      <3>3. ASSUME NEW fd \in Fds \ {Stdin, Stdout, ends.dw, ends.ur, saved.in, saved.out}
            PROVE  fds'[fd] = before[fd]
        BY <1>5, <2>1, <2>6, <3>3 DEF Numbers
      <3>4. QED
        BY <2>4, <3>2, <3>3
    <2>8. ToolTypes'
      BY <1>0, <1>9, <2>1 DEF ConnInv, ToolTypes, Steps
    <2>9. Stage'
      <3>1. {Stdin, Stdout} \cap kept' = {}
        BY <1>9
      <3>2. \A n \in Starts : Live(n)' => {conns'[n].to, conns'[n].from} \cap {saved'.in, saved'.out} = {}
        BY <1>0, <1>5 DEF Live
      <3>3. QED
        BY <1>0, <1>5, <1>9, <2>2, <2>3, <2>5, <2>6, <2>7, <3>1, <3>2 DEF Stage, Handshake
    <2>10. \A n \in Starts : Live(n) =>
             fds'[conns[n].to] = fds[conns[n].to] /\ fds'[conns[n].from] = fds[conns[n].from]
      BY <1>0, <1>7, <2>1, LiveNumbers
    <2>11. QED
      BY <1>0, <1>9, <2>8, <2>9, <2>10, TableStep DEF ConnInv, Early
  <1>10. QED
    BY <1>8, <1>9 DEF ReplaceStreams, GiveUp, Go, one, both, all

\* A process that has just been made.
LEMMA NewLve ==
  ASSUME NEW s, NEW e, NEW t
  PROVE  /\ [NoLve EXCEPT !.state = s, !.ends = e, !.fds = t]
              = [state |-> s, fds |-> t, ends |-> e, verify |-> NULL, peer |-> NULL]
         /\ [NoLve EXCEPT !.state = s, !.fds = t, !.ends = e]
              = [state |-> s, fds |-> t, ends |-> e, verify |-> NULL, peer |-> NULL]
  <1> DEFINE r == [state |-> s, fds |-> t, ends |-> e, verify |-> NULL, peer |-> NULL]
             p == [NoLve EXCEPT !.state = s, !.ends = e, !.fds = t]
             q == [NoLve EXCEPT !.state = s, !.fds = t, !.ends = e]
             names == {"state", "fds", "ends", "verify", "peer"}
  <1>1. NoLve = [x \in names |-> NoLve[x]] /\ NoLve.verify = NULL /\ NoLve.peer = NULL
    BY DEF NoLve
  <1>2. r = [x \in names |-> r[x]]
    OBVIOUS
  <1>3. /\ r["state"] = s /\ r["fds"] = t /\ r["ends"] = e
        /\ r["verify"] = NULL /\ r["peer"] = NULL
    OBVIOUS
  <1> HIDE DEF r
  <1>4. p = [x \in names |-> p[x]] /\ \A x \in names : p[x] = r[x]
    BY <1>1, <1>3
  <1>5. q = [x \in names |-> q[x]] /\ \A x \in names : q[x] = r[x]
    BY <1>1, <1>3
  <1> HIDE DEF p, q
  <1>6. p = r /\ q = r
    BY <1>2, <1>4, <1>5
  <1>7. QED
    BY <1>6 DEF p, q, r

\* The child is started with what the tool does not keep to itself, or not.
LEMMA StepSpawnChild ==
  ASSUME ConnInv, SpawnChild
  PROVE  ConnInv'
  <1> DEFINE table == [fd \in Fds |-> IF fd \in kept THEN None ELSE fds[fd]]
             child == [NoLve EXCEPT !.state = "started", !.ends = ends, !.fds = table]
  <1>0. /\ pc = "spawn" /\ UNCHANGED <<windows, start, fds, kept, ends, saved, conns, contents, before>>
        /\ fds \in Tables /\ start \in Starts /\ windows /\ Ordered(ends)
    BY DEF ConnInv, SpawnChild, ToolTypes, Steps
  <1>1. CASE pc' = "idle" /\ lves' = lves
    <2>1. ToolTypes' /\ Stage'
      BY <1>0, <1>1 DEF ConnInv, ToolTypes, Steps, Stage, Handshake
    <2>2. QED
      BY <1>0, <1>1, <2>1, TableStep DEF ConnInv, Early
  <1>2. CASE pc' = "restore" /\ lves' = [lves EXCEPT ![start] = child]
    <2>1. table \in Tables
      BY <1>0, EndFacts DEF Tables
    <2>2. /\ table[Stdin] = IF ends.dr = Stdin THEN None ELSE End(start, "down", "read")
          /\ table[Stdout] = IF ends.dr = Stdout THEN None ELSE End(start, "up", "write")
      BY <1>0, StreamsAreFds DEF ConnInv, Stage
    <2>3. child = [state |-> "started", fds |-> table, ends |-> ends, verify |-> NULL, peer |-> NULL]
      <3> HIDE DEF table
      <3>1. QED
        BY NewLve, ZenonT(60)
    <2>4. ends # <<>> /\ ends \in [dr : Fds, dw : Fds, ur : Fds, uw : Fds]
          /\ (ends.dr # Stdin /\ ends.dr # Stdout => ends.dr > 1)
      BY <1>0, OrderedIs, StreamsAreFds
    <2> HIDE DEF table, child
    <2>5. /\ child.state = "started" /\ child.ends = ends /\ child.fds = table
          /\ child \in Process
      BY <2>1, <2>3, <2>4 DEF Process
    <2>6. lves'[start] = child /\ \A n \in Starts : n # start => lves'[n] = lves[n]
      BY <1>0, <1>2 DEF ConnInv, LveTypes
    <2>7. Up(start) = <<>> /\ Down(start) = <<>> /\ conns[start].ssl = "none"
      BY <1>0 DEF ConnInv, Unstarted, Early
    <2>8. ToolTypes'
      BY <1>0, <1>2 DEF ConnInv, ToolTypes, Steps
    <2>9. LveTypes'
      BY <1>0, <1>2, <2>5 DEF ConnInv, LveTypes, Down, Up
    <2>10. Unstarted'
      <3>1. \A n \in Starts : n > start => n # start
        BY <1>0 DEF Starts
      <3>2. QED
        BY <1>0, <1>2, <2>6, <2>7, <3>1 DEF ConnInv, Unstarted, Early, Down, Up
    <2>11. Current' /\ ToolEndsOwn'
      BY <1>0, <1>2 DEF ConnInv, Current, ToolEndsOwn, Live, Handshake
    <2>12. Stage'
      BY <1>0, <1>2, <2>5, <2>6 DEF ConnInv, Stage, Handshake, Live
    <2>13. LveEndsOwn'
      <3>1. ASSUME NEW n \in Starts, n # start
            PROVE  LveEnds(n)'
        BY <1>0, <2>6, <3>1 DEF ConnInv, LveEndsOwn, LveEnds, In, Out, Up
      <3>2. ASSUME NEW n \in Starts, n = start
            PROVE  LveEnds(n)'
        BY <1>0, <3>2, <2>2, <2>4, <2>5, <2>6, <2>7, EndFacts DEF LveEnds, In, Out, Up
      <3>3. QED
        BY <3>1, <3>2 DEF LveEndsOwn
    <2>14. Lengths'
      BY <1>0, <1>2, <2>5, <2>6, <2>7 DEF ConnInv, Lengths, Fill, Down, Up
    <2>15. QED
      BY <2>8, <2>9, <2>10, <2>11, <2>12, <2>13, <2>14 DEF ConnInv
  <1>3. QED
    BY <1>1, <1>2 DEF SpawnChild, GiveUp, Go


\* A connection that has just been made or freed.
LEMMA NewConnection ==
  ASSUME NEW to, NEW from
  PROVE  /\ [NoConnection EXCEPT !.to = to, !.from = from, !.ssl = "unset"]
              = [to |-> to, from |-> from, ssl |-> "unset", x509 |-> NULL]
         /\ [NoConnection EXCEPT !.ssl = "freed"]
              = [to |-> Unset, from |-> Unset, ssl |-> "freed", x509 |-> NULL]
  <1> DEFINE r == [to |-> to, from |-> from, ssl |-> "unset", x509 |-> NULL]
             s == [to |-> Unset, from |-> Unset, ssl |-> "freed", x509 |-> NULL]
             p == [NoConnection EXCEPT !.to = to, !.from = from, !.ssl = "unset"]
             q == [NoConnection EXCEPT !.ssl = "freed"]
             names == {"to", "from", "ssl", "x509"}
  <1>1. /\ NoConnection = [x \in names |-> NoConnection[x]]
        /\ NoConnection.x509 = NULL /\ NoConnection.to = Unset /\ NoConnection.from = Unset
    BY DEF NoConnection
  <1>2. r = [x \in names |-> r[x]] /\ s = [x \in names |-> s[x]]
    OBVIOUS
  <1>3. /\ r["to"] = to /\ r["from"] = from /\ r["ssl"] = "unset" /\ r["x509"] = NULL
        /\ s["to"] = Unset /\ s["from"] = Unset /\ s["ssl"] = "freed" /\ s["x509"] = NULL
    OBVIOUS
  <1> HIDE DEF r, s
  <1>4. p = [x \in names |-> p[x]] /\ \A x \in names : p[x] = r[x]
    BY <1>1, <1>3
  <1>5. q = [x \in names |-> q[x]] /\ \A x \in names : q[x] = s[x]
    BY <1>1, <1>3
  <1> HIDE DEF p, q
  <1>6. p = r /\ q = s
    BY <1>2, <1>4, <1>5
  <1>7. QED
    BY <1>6 DEF p, q, r, s

\* mlle_spawn returns, with a connection or without.
LEMMA ConnectsIs ==
  ASSUME ConnInv, Connects, pc \in {"fork", "restore"},
         UNCHANGED <<windows, start, ends, saved, contents, before>>,
         fds' \in Tables,
         fds'[ends.dw] = End(start, "down", "write"), fds'[ends.ur] = End(start, "up", "read"),
         \A n \in Starts : Live(n) =>
           fds'[conns[n].to] = fds[conns[n].to] /\ fds'[conns[n].from] = fds[conns[n].from],
         \A n \in Starts : n # start => lves'[n] = lves[n],
         lves'[start].ends = ends,
         lves'[start].state = lves[start].state \/ Up(start) = <<>>
  PROVE  /\ ToolTypes' /\ Current' /\ ToolEndsOwn' /\ Unstarted' /\ Lengths'
         /\ pc' \in {"setup", "idle"} /\ \A n \in Starts : Live(n) => conns'[n] = conns[n]
  <1>0. start \in Starts /\ Ordered(ends) /\ (pc = "fork" => ~windows) /\ (pc = "restore" => windows)
    BY DEF ConnInv, ToolTypes, Steps
  <1>1. conns[start].ssl = "none" /\ Down(start) = <<>>
    BY <1>0 DEF ConnInv, Unstarted, Early
  <1>1a. pc = "fork" => Up(start) = <<>>
    BY <1>0 DEF ConnInv, Unstarted, Early
  <1>2. CASE pc' = "idle" /\ conns' = conns
    <2>1. ToolTypes'
      BY <1>0, <1>2 DEF ConnInv, ToolTypes, Steps
    <2>2. Current'
      BY <1>0, <1>2 DEF ConnInv, Current, Handshake
    <2>3. ToolEndsOwn'
      BY <1>0, <1>2 DEF ConnInv, ToolEndsOwn, Live
    <2>4. Unstarted'
      <3>1. \A n \in Starts : n > start => n # start
        BY <1>0 DEF Starts
      <3>2. QED
        BY <1>0, <1>2, <3>1 DEF ConnInv, Unstarted, Early, Down, Up
    <2>5. Lengths'
      <3>1. ASSUME NEW n \in Starts, n # start
            PROVE  Fill(n)'
        BY <1>0, <1>2, <3>1 DEF ConnInv, Lengths, Fill, Down, Up
      <3>2. ASSUME NEW n \in Starts, n = start
            PROVE  Fill(n)'
        BY <1>0, <1>1, <1>2, <3>2 DEF ConnInv, Lengths, Fill, Down, Up
      <3>3. QED
        BY <3>1, <3>2 DEF Lengths
    <2>6. QED
      BY <1>2, <2>1, <2>2, <2>3, <2>4, <2>5
  <1>3. CASE /\ pc' = "setup"
             /\ conns' = [conns EXCEPT ![start] =
                            [to |-> ends.dw, from |-> ends.ur, ssl |-> "unset", x509 |-> NULL]]
    <2>1. /\ conns'[start] = [to |-> ends.dw, from |-> ends.ur, ssl |-> "unset", x509 |-> NULL]
          /\ \A n \in Starts : n # start => conns'[n] = conns[n]
      BY <1>0, <1>3 DEF ConnInv, ToolTypes
    <2>2. conns'[start].to = ends.dw /\ conns'[start].from = ends.ur /\ conns'[start].ssl = "unset"
      BY <2>1
    <2>3. ends.dw \in Fds /\ ends.ur \in Fds
      BY <1>0, OrderedIs
    <2>4. ToolTypes'
      <3>1. [to |-> ends.dw, from |-> ends.ur, ssl |-> "unset", x509 |-> NULL] \in Connection
        BY <2>3 DEF Connection
      <3>2. conns' \in [Starts -> Connection]
        BY <1>3, <3>1 DEF ConnInv, ToolTypes
      <3>3. QED
        BY <1>0, <1>3, <3>2 DEF ConnInv, ToolTypes, Steps
    <2>5. Current'
      BY <1>0, <1>3, <2>1, <2>2 DEF ConnInv, Current, Handshake
    <2>6. ToolEndsOwn'
      BY <1>0, <1>3, <2>1, <2>2, <2>3 DEF ConnInv, ToolEndsOwn, Live
    <2>7. Unstarted'
      <3>1. \A n \in Starts : n > start => n # start
        BY <1>0 DEF Starts
      <3>2. QED
        BY <1>0, <1>3, <2>1, <3>1 DEF ConnInv, Unstarted, Early, Down, Up
    <2>8. Lengths'
      <3>1. ASSUME NEW n \in Starts, n # start
            PROVE  Fill(n)'
        BY <1>0, <1>3, <2>1, <3>1 DEF ConnInv, Lengths, Fill, Down, Up
      <3>2. ASSUME NEW n \in Starts, n = start
            PROVE  Fill(n)'
        BY <1>0, <1>1, <1>3, <2>2, <3>2 DEF ConnInv, Lengths, Fill, Down, Up
      <3>3. QED
        BY <3>1, <3>2 DEF Lengths
    <2>9. \A n \in Starts : Live(n) => conns'[n] = conns[n]
      BY <1>1, <2>1 DEF Live
    <2>10. QED
      BY <1>3, <2>4, <2>5, <2>6, <2>7, <2>8, <2>9
  <1>4. QED
    BY <1>2, <1>3, NewConnection DEF Connects, GiveUp, Go

\* The child is made and the tool closes the end that it reads from, or fork()
\* fails.
LEMMA StepFork ==
  ASSUME ConnInv, Fork
  PROVE  ConnInv'
  <1> DEFINE child == [NoLve EXCEPT !.state = "forked", !.fds = fds, !.ends = ends]
  <1>0. /\ pc = "fork" /\ UNCHANGED <<windows, start, kept, ends, saved, contents, before>>
        /\ fds \in Tables /\ start \in Starts /\ ~windows /\ Ordered(ends)
    BY DEF ConnInv, Fork, ToolTypes, Steps
  <1>1. CASE pc' = "idle" /\ UNCHANGED <<fds, lves, conns>>
    <2>1. ToolTypes' /\ Stage'
      BY <1>0, <1>1 DEF ConnInv, ToolTypes, Steps, Stage, Handshake
    <2>2. QED
      BY <1>0, <1>1, <2>1, TableStep DEF ConnInv, Early
  <1>2. CASE lves' = [lves EXCEPT ![start] = child] /\ fds' = Shut(fds, ends.dr) /\ Connects
    <2>1. child = [state |-> "forked", fds |-> fds, ends |-> ends, verify |-> NULL, peer |-> NULL]
      BY NewLve, ZenonT(60)
    <2>2. ends # <<>> /\ ends \in [dr : Fds, dw : Fds, ur : Fds, uw : Fds] /\ ends.dr \in Fds
          /\ ends.dw \in Fds /\ ends.ur \in Fds /\ ends.dr # ends.dw /\ ends.dr # ends.ur
      BY <1>0, OrderedIs
    <2> HIDE DEF child
    <2>3. /\ child.state = "forked" /\ child.ends = ends /\ child.fds = fds
          /\ child \in Process
      BY <1>0, <2>1, <2>2 DEF Process
    <2>4. lves'[start] = child /\ \A n \in Starts : n # start => lves'[n] = lves[n]
      BY <1>0, <1>2 DEF ConnInv, LveTypes
    <2>5. Up(start) = <<>>
      BY <1>0 DEF ConnInv, Unstarted, Early
    <2>6. fds' \in Tables /\ \A x \in Fds : fds'[x] = IF x = ends.dr THEN None ELSE fds[x]
      BY <1>0, <1>2, <2>2, ShutIs, ZenonT(60)
    <2>7. Piped /\ \A fd \in Fds \ Numbers(ends) : fds[fd] = before[fd]
      BY <1>0 DEF ConnInv, Stage
    <2>8. \A n \in Starts : Live(n) =>
            fds'[conns[n].to] = fds[conns[n].to] /\ fds'[conns[n].from] = fds[conns[n].from]
      <3>1. \A n \in Starts : Live(n) => conns[n].to # ends.dr /\ conns[n].from # ends.dr
        BY <1>0, <2>7, LiveNumbers, EndFacts DEF Piped
      <3>2. QED
        BY <1>0, <2>6, <3>1, LiveNumbers
    <2>9. fds'[ends.dw] = End(start, "down", "write") /\ fds'[ends.ur] = End(start, "up", "read")
      BY <2>2, <2>6, <2>7 DEF Piped
    <2>10. /\ ToolTypes' /\ Current' /\ ToolEndsOwn' /\ Unstarted' /\ Lengths'
           /\ pc' \in {"setup", "idle"}
      BY <1>0, <1>2, <2>3, <2>4, <2>5, <2>6, <2>8, <2>9, ConnectsIs
    <2>11. LveTypes'
      BY <1>0, <1>2, <2>3 DEF ConnInv, LveTypes, Down, Up
    <2>12. LveEndsOwn'
      <3>1. ASSUME NEW n \in Starts, n # start
            PROVE  LveEnds(n)'
        BY <1>0, <2>4, <3>1 DEF ConnInv, LveEndsOwn, LveEnds, In, Out, Up
      <3>2. ASSUME NEW n \in Starts, n = start
            PROVE  LveEnds(n)'
        BY <1>0, <2>3, <2>4, <2>5, <2>7, <3>2 DEF LveEnds, Piped, Up
      <3>3. QED
        BY <3>1, <3>2 DEF LveEndsOwn
    <2>13. Stage'
      <3>1. \A fd \in Numbers(ends) : before[fd] = None
        BY <2>7 DEF Piped
      <3>2. \A fd \in Fds \ ({ends.dw, ends.ur} \cup {ends.uw}) : fds'[fd] = before[fd]
        BY <2>6, <2>7, <3>1 DEF Numbers
      <3>3. QED
        BY <1>0, <2>10, <3>1, <3>2 DEF Stage, Handshake
    <2>14. QED
      BY <2>10, <2>11, <2>12, <2>13 DEF ConnInv
  <1>3. QED
    BY <1>1, <1>2 DEF Fork, GiveUp, Go


\* A copy takes the place of a stream again and is closed.
LEMMA RestoredIs ==
  ASSUME NEW t \in Tables, NEW copy \in Fds, NEW to \in Fds, copy # to
  PROVE  /\ Shut(Dup2(t, copy, to), copy) \in Tables
         /\ \A x \in Fds : Shut(Dup2(t, copy, to), copy)[x] =
              IF x = copy THEN None ELSE IF x = to THEN t[copy] ELSE t[x]
  <1> DEFINE one == Dup2(t, copy, to)
  <1>1. one \in Tables /\ \A x \in Fds : one[x] = IF x = to THEN t[copy] ELSE t[x]
    BY Dup2Is
  <1> HIDE DEF one
  <1>2. Shut(one, copy) \in Tables /\ \A x \in Fds : Shut(one, copy)[x] = IF x = copy THEN None ELSE one[x]
    BY <1>1, ShutIs
  <1>3. QED
    BY <1>1, <1>2 DEF one

\* The tool's streams are put back, both, one or none.
LEMMA StepRestoreStreams ==
  ASSUME ConnInv, RestoreStreams
  PROVE  ConnInv'
  <1>0. /\ pc = "restore" /\ UNCHANGED <<windows, start, kept, ends, saved, lves, contents, before>>
        /\ fds \in Tables /\ start \in Starts /\ windows /\ Ordered(ends)
    BY DEF ConnInv, RestoreStreams, ToolTypes, Steps
  <1>1. /\ saved.in \in Fds /\ saved.out \in Fds /\ ends.uw < saved.in /\ saved.in < saved.out
        /\ before[saved.in] = None /\ before[saved.out] = None
        /\ \A n \in Starts : Live(n) => {conns[n].to, conns[n].from} \cap {saved.in, saved.out} = {}
        /\ fds[ends.ur] = End(start, "up", "read")
        /\ fds[IF ends.dw = Stdout THEN saved.out ELSE ends.dw] = End(start, "down", "write")
        /\ \A fd \in Numbers(ends) : before[fd] = None
        /\ ends.dr > 1 =>
             /\ fds[saved.in] = before[Stdin] /\ fds[saved.out] = before[Stdout]
             /\ \A fd \in Fds \ {Stdin, Stdout, ends.dw, ends.ur, saved.in, saved.out} : fds[fd] = before[fd]
        /\ lves[start].ends = ends
    BY <1>0 DEF ConnInv, Stage
  <1>2. /\ Stdin \in Fds /\ Stdout \in Fds /\ Stdin # Stdout /\ saved.in # saved.out
        /\ {Stdin, Stdout, ends.dw, ends.ur} \cap {saved.in, saved.out} = {}
        /\ saved.in # Unset /\ saved.out # Unset
    <2>1. saved.in \in Nat /\ saved.out \in Nat /\ ends.dw \in Nat /\ ends.ur \in Nat /\ ends.uw \in Nat
      BY <1>0, <1>1, OrderedIs, StreamsAreFds
    <2>2. ends.dw < ends.ur /\ ends.ur < ends.uw
      BY <1>0 DEF Ordered
    <2>3. QED
      BY <1>1, <2>1, <2>2, StreamsAreFds DEF Unset
  <1>2a. /\ ends.dw \in Fds /\ ends.ur \in Fds /\ ends.dw # Stdin /\ ends.ur # Stdin /\ ends.ur # Stdout
    BY <1>0, OrderedIs, StreamsAreFds
  <1>2b. fds \in Tables /\ Stdin \in Fds /\ Stdout \in Fds /\ saved.in \in Fds /\ saved.out \in Fds
         /\ saved.in # Stdin /\ saved.out # Stdout
    BY <1>0, <1>1, <1>2
  <1> DEFINE mid == Shut(Dup2(fds, saved.in, Stdin), saved.in)
             all == Shut(Dup2(mid, saved.out, Stdout), saved.out)
  <1>3. mid \in Tables
        /\ \A x \in Fds : mid[x] = IF x = saved.in THEN None ELSE IF x = Stdin THEN fds[saved.in] ELSE fds[x]
    BY <1>2b, RestoredIs, SMTT(30)
  <1>3a. mid \in Tables /\ saved.out \in Fds /\ Stdout \in Fds /\ saved.out # Stdout
    BY <1>2b, <1>3
  <1>3b. Restored(fds, saved.in, Stdin) = mid /\ Restored(mid, saved.out, Stdout) = all
    BY <1>2 DEF Restored
  <1> HIDE DEF mid
  <1>4. all \in Tables
        /\ \A x \in Fds : all[x] = IF x = saved.out THEN None ELSE IF x = Stdout THEN mid[saved.out] ELSE mid[x]
    BY <1>3a, RestoredIs
  <1> HIDE DEF all
  <1>6. /\ all[Stdin] = fds[saved.in] /\ all[Stdout] = fds[saved.out]
        /\ all[saved.in] = None /\ all[saved.out] = None
        /\ \A x \in Fds \ {Stdin, Stdout, saved.in, saved.out} : all[x] = fds[x] /\ mid[x] = fds[x]
    BY <1>1, <1>2, <1>3, <1>4, ZenonT(60)
  <1>7. ASSUME NEW n \in Starts, Live(n)
        PROVE  /\ conns[n].to \in Fds \ {Stdin, Stdout, saved.in, saved.out}
               /\ conns[n].from \in Fds \ {Stdin, Stdout, saved.in, saved.out}
    <2>1. conns[n].ssl = "open"
      BY <1>0, <1>7, LiveIsOpen DEF Early
    <2>2. conns[n].to > 1 /\ conns[n].from > 1 /\ conns[n].to \in Nat /\ conns[n].from \in Nat
          /\ conns[n].to \in Fds /\ conns[n].from \in Fds
      BY <1>0, <1>7, <2>1, StreamsAreFds DEF ConnInv, ToolEndsOwn
    <2>3. conns[n].to \notin {Stdin, Stdout} /\ conns[n].from \notin {Stdin, Stdout}
      BY <2>2, StreamsAreFds
    <2>4. QED
      BY <1>1, <1>7, <2>2, <2>3
  <1>8. CASE pc' = "idle" /\ conns' = conns /\ (fds' = fds \/ fds' = mid)
    <2>1. fds' \in Tables
      BY <1>0, <1>3, <1>8
    <2>2. ToolTypes' /\ Stage'
      BY <1>0, <1>8, <2>1 DEF ConnInv, ToolTypes, Steps, Stage, Handshake
    <2>3. \A n \in Starts : Live(n) =>
             fds'[conns[n].to] = fds[conns[n].to] /\ fds'[conns[n].from] = fds[conns[n].from]
      BY <1>6, <1>7, <1>8
    <2>4. QED
      BY <1>0, <1>8, <2>2, <2>3, TableStep DEF ConnInv, Early
  <1>9. CASE fds' = all /\ Connects
    <2>1. fds' \in Tables /\ lves' = lves
      BY <1>0, <1>4, <1>9
    <2>2. \A n \in Starts : Live(n) =>
             fds'[conns[n].to] = fds[conns[n].to] /\ fds'[conns[n].from] = fds[conns[n].from]
      BY <1>6, <1>7, <1>9
    <2>3. fds'[ends.ur] = End(start, "up", "read")
      BY <1>1, <1>2, <1>2a, <1>6, <1>9
    <2>4. fds'[ends.dw] = End(start, "down", "write")
      <3>1. CASE ends.dw = Stdout
        BY <1>1, <1>6, <1>9, <3>1
      <3>2. CASE ends.dw # Stdout
        BY <1>1, <1>2, <1>2a, <1>6, <1>9, <3>2
      <3>3. QED
        BY <3>1, <3>2
    <2>5. /\ ToolTypes' /\ Current' /\ ToolEndsOwn' /\ Unstarted' /\ Lengths'
          /\ pc' \in {"setup", "idle"}
      BY <1>0, <1>1, <1>9, <2>1, <2>2, <2>3, <2>4, ConnectsIs
    <2>6. LveTypes' /\ LveEndsOwn'
      BY <1>0 DEF ConnInv, LveTypes, LveEndsOwn, LveEnds, In, Out, Up, Down
    <2>7. Stage'
      <3>1. ASSUME ends.dr > 1, NEW fd \in Fds \ {ends.dw, ends.ur}
            PROVE  fds'[fd] = before[fd]
        <4>1. CASE fd \in {Stdin, Stdout}
          BY <1>1, <1>6, <1>9, <3>1, <4>1
        <4>2. CASE fd \in {saved.in, saved.out}
          BY <1>1, <1>6, <1>9, <4>2
        <4>3. CASE fd \notin {Stdin, Stdout, saved.in, saved.out}
          BY <1>1, <1>6, <1>9, <3>1, <4>3
        <4>4. QED
          BY <4>1, <4>2, <4>3
      <3>2. QED
        BY <1>0, <1>1, <2>5, <3>1 DEF Stage, Handshake
    <2>8. QED
      BY <2>5, <2>6, <2>7 DEF ConnInv
  <1>10. QED
    BY <1>3b, <1>8, <1>9 DEF RestoreStreams, GiveUp, Go


-----------------------------------------------------------------------------
(* Messages.                                                                 *)

\* A message is put at the end of a pipe.
LEMMA PutIs ==
  ASSUME NEW c, NEW d, NEW p \in Starts \X Ways, NEW m, NEW S,
         c = [q \in Starts \X Ways |-> c[q]], c[p] \in Seq(S), m \in S,
         d = [c EXCEPT ![p] = Append(@, m)]
  PROVE  /\ d = [q \in Starts \X Ways |-> d[q]] /\ d[p] = Append(c[p], m)
         /\ d[p] \in Seq(S)
         /\ \A q \in Starts \X Ways : q # p => d[q] = c[q]
  <1>1. d = [q \in Starts \X Ways |-> d[q]] /\ d[p] = Append(c[p], m)
        /\ \A q \in Starts \X Ways : q # p => d[q] = c[q]
    OBVIOUS
  <1>2. Append(c[p], m) \in Seq(S)
    OBVIOUS
  <1>3. QED
    BY <1>1, <1>2

\* A message is taken from the head of a pipe.
LEMMA TakeIs ==
  ASSUME NEW c, NEW d, NEW p \in Starts \X Ways, NEW S,
         c = [q \in Starts \X Ways |-> c[q]], c[p] \in Seq(S), c[p] # <<>>,
         d = [c EXCEPT ![p] = Tail(@)]
  PROVE  /\ d = [q \in Starts \X Ways |-> d[q]] /\ d[p] = Tail(c[p])
         /\ d[p] \in Seq(S) /\ Head(c[p]) \in S
         /\ \A q \in Starts \X Ways : q # p => d[q] = c[q]
  <1>1. d = [q \in Starts \X Ways |-> d[q]] /\ d[p] = Tail(c[p])
        /\ \A q \in Starts \X Ways : q # p => d[q] = c[q]
    OBVIOUS
  <1>2. Tail(c[p]) \in Seq(S) /\ Head(c[p]) \in S
    OBVIOUS
  <1>3. QED
    BY <1>1, <1>2

\* The pipes of a start, by their names.
LEMMA PipeNames ==
  /\ \A n \in Starts : <<n, "down">> \in Starts \X Ways /\ <<n, "up">> \in Starts \X Ways
  /\ \A n \in Starts : <<n, "down">> # <<n, "up">>
  /\ \A n \in Starts, m \in Starts, v \in Ways, w \in Ways : n # m => <<n, v>> # <<m, w>>
  BY DEF Ways

\* What a message says of its kind.
LEMMA Kinds ==
  /\ Hello \in ToLve /\ Notify \in ToLve /\ (X509 # NULL => <<"certificate", X509>> \in ToLve)
  /\ Asks \in ToTool /\ Finished \in ToTool /\ Alert \in ToTool
  /\ \A m \in ToTool : m[1] = "hello" => m[2] = "peer"
  /\ \A m \in ToLve : m[1] = "certificate" => m[2] = X509 /\ X509 # NULL
  BY DEF Hello, Notify, Certs, ToLve, ToTool, Asks, Finished, Alert

-----------------------------------------------------------------------------
(* The handshake of the tool, and the end of a connection.                    *)

\* A step of the tool with one connection, which has an LVE or had one.
LEMMA ToolStep ==
  ASSUME ConnInv, UNCHANGED <<windows, start, lves>>,
         pc \notin Early \cup {"restore"}, pc' \notin Early \cup {"restore"},
         NEW k \in Starts, conns[k].ssl # "none", pc' \in Handshake => k = start,
         \A n \in Starts : n # k => conns'[n] = conns[n],
         contents' = [p \in Starts \X Ways |-> contents'[p]],
         \A n \in Starts, w \in Ways : n # k => contents'[<<n, w>>] = contents[<<n, w>>],
         contents'[<<k, "down">>] \in Seq(ToLve), Len(contents'[<<k, "down">>]) <= 3,
         pc' \in {"setup", "hello"} => contents'[<<k, "down">>] = <<>>,
         pc' = "certificate" => Len(contents'[<<k, "down">>]) <= 1,
         pc' = "finished" \/ conns'[k].ssl = "open" => Len(contents'[<<k, "down">>]) <= 2,
         \/ contents'[<<k, "up">>] = contents[<<k, "up">>]
         \/ contents[<<k, "up">>] # <<>> /\ contents'[<<k, "up">>] = Tail(contents[<<k, "up">>])
  PROVE  LveTypes' /\ Unstarted' /\ LveEndsOwn' /\ Lengths'
  <1>1. /\ Up(k) \in Seq(ToTool) /\ Up(k)' \in Seq(ToTool)
        /\ Len(Up(k)') <= Len(Up(k)) /\ (Up(k)' # <<>> => Up(k) # <<>>)
    <2>1. Up(k) \in Seq(ToTool)
      BY DEF ConnInv, LveTypes
    <2>2. CASE contents'[<<k, "up">>] = contents[<<k, "up">>]
      BY <2>1, <2>2 DEF Up
    <2>3. CASE contents[<<k, "up">>] # <<>> /\ contents'[<<k, "up">>] = Tail(contents[<<k, "up">>])
      BY <2>1, <2>3 DEF Up
    <2>4. QED
      BY <2>2, <2>3
  <1>2. \A n \in Starts : n # k => Up(n)' = Up(n) /\ Down(n)' = Down(n)
    BY DEF Up, Down, Ways
  <1>3. Down(k)' = contents'[<<k, "down">>]
    BY DEF Down
  <1>4. ~(k > start)
    BY DEF ConnInv, Unstarted
  <1>5. LveTypes'
    BY <1>1, <1>2, <1>3 DEF ConnInv, LveTypes
  <1>6. Unstarted'
    BY <1>2, <1>4 DEF ConnInv, Unstarted
  <1>7. LveEndsOwn'
    BY <1>1, <1>2 DEF ConnInv, LveEndsOwn, LveEnds, In, Out
  <1>8. Lengths'
    <2>1. ASSUME NEW n \in Starts, n # k
          PROVE  Fill(n)'
      BY <1>2, <2>1 DEF ConnInv, Lengths, Fill, Handshake
    <2>2. ASSUME NEW n \in Starts, n = k
          PROVE  Fill(n)'
      <3>1. Len(Up(k)) \in Nat /\ Len(Up(k)') \in Nat
        BY <1>1
      <3>2. Fill(k)
        BY DEF ConnInv, Lengths
      <3>3. Len(Up(k)') <= 2 /\ (lves[k].state = "verifying" => Len(Up(k)') <= 1)
            /\ (lves[k].state \in {"none", "forked", "started", "accepting"} => Up(k)' = <<>>)
        BY <1>1, <3>1, <3>2 DEF Fill
      <3>4. QED
        BY <1>3, <2>2, <3>3 DEF Fill
    <2>3. QED
      BY <2>1, <2>2 DEF Lengths
  <1>9. QED
    BY <1>5, <1>6, <1>7, <1>8

\* A connection is freed, and nothing of another's.
LEMMA FreedIs ==
  ASSUME ConnInv, NEW n \in Starts, Live(n), Freed(n),
         pc \in Handshake \cup {"idle"}, pc \in Handshake => n = start, pc' = "idle",
         UNCHANGED <<windows, start, ends, saved, lves, before>>
  PROVE  /\ ToolTypes' /\ Current' /\ ToolEndsOwn' /\ Stage'
         /\ conns'[n].ssl = "freed" /\ \A m \in Starts : m # n => conns'[m] = conns[m]
  <1>1. /\ conns[n].to \in Fds /\ conns[n].from \in Fds
        /\ fds[conns[n].to] = End(n, "down", "write") /\ fds[conns[n].from] = End(n, "up", "read")
    BY LiveNumbers DEF Handshake
  <1> DEFINE freed == [to |-> Unset, from |-> Unset, ssl |-> "freed", x509 |-> NULL]
  <1>2. conns' = [conns EXCEPT ![n] = freed] /\ fds' = Shut(Shut(fds, conns[n].to), conns[n].from)
    BY NewConnection DEF Freed
  <1>3. /\ freed.ssl = "freed"
        /\ freed \in Connection
    BY DEF Connection
  <1> HIDE DEF freed
  <1>4. conns'[n] = freed /\ \A m \in Starts : m # n => conns'[m] = conns[m]
    BY <1>2 DEF ConnInv, ToolTypes
  <1>5. fds \in Tables
    BY DEF ConnInv, ToolTypes
  <1>6. fds' \in Tables /\ \A x \in Fds : x \notin {conns[n].to, conns[n].from} => fds'[x] = fds[x]
    <2> DEFINE less == Shut(fds, conns[n].to)
    <2>1. less \in Tables /\ \A x \in Fds : less[x] = IF x = conns[n].to THEN None ELSE fds[x]
      BY <1>1, <1>5, ShutIs
    <2> HIDE DEF less
    <2>2. Shut(less, conns[n].from) \in Tables
          /\ \A x \in Fds : Shut(less, conns[n].from)[x] = IF x = conns[n].from THEN None ELSE less[x]
      BY <1>1, <2>1, ShutIs
    <2>3. QED
      BY <1>2, <2>1, <2>2 DEF less
  <1>7. ToolTypes'
    BY <1>2, <1>3, <1>6 DEF ConnInv, ToolTypes, Steps
  <1>8. Current'
    BY <1>3, <1>4 DEF ConnInv, Current, Handshake
  <1>9. ToolEndsOwn'
    <2>1. ASSUME NEW m \in Starts, m # n, Live(m)
          PROVE  fds'[conns[m].to] = fds[conns[m].to] /\ fds'[conns[m].from] = fds[conns[m].from]
      <3>1. /\ conns[m].to \in Fds /\ conns[m].from \in Fds
            /\ fds[conns[m].to] = End(m, "down", "write") /\ fds[conns[m].from] = End(m, "up", "read")
        BY <2>1, LiveNumbers DEF Handshake
      <3>2. conns[m].to \notin {conns[n].to, conns[n].from}
            /\ conns[m].from \notin {conns[n].to, conns[n].from}
        BY <1>1, <2>1, <3>1, EndFacts
      <3>3. QED
        BY <1>6, <3>1, <3>2
    <2>2. QED
      BY <1>3, <1>4, <2>1 DEF ConnInv, ToolEndsOwn, Live, Handshake
  <1>10. Stage'
    BY DEF Stage, Handshake
  <1>11. QED
    BY <1>3, <1>4, <1>7, <1>8, <1>9, <1>10

\* The tool ends.
LEMMA DiesIs ==
  ASSUME ConnInv, Dies, UNCHANGED <<windows, start, ends, saved, lves, contents, before>>
  PROVE  ConnInv'
  <1>1. pc' = "ended" /\ UNCHANGED <<conns, fds>>
    BY DEF Dies, Go
  <1>2. ToolTypes' /\ LveTypes' /\ Unstarted' /\ Current' /\ ToolEndsOwn' /\ Stage'
    BY <1>1 DEF ConnInv, ToolTypes, LveTypes, Unstarted, Current, ToolEndsOwn, Stage, Steps, Live,
                Early, Handshake, Down, Up
  <1>3. LveEndsOwn' /\ Lengths'
    BY <1>1 DEF ConnInv, LveEndsOwn, LveEnds, Lengths, Fill, In, Out, Down, Up
  <1>4. QED
    BY <1>2, <1>3 DEF ConnInv


\* The ends of the current connection during the handshake, and of its LVE.
LEMMA ThisConnection ==
  ASSUME ConnInv, pc \in Handshake
  PROVE  /\ start \in Starts /\ Live(start) /\ Ordered(ends) /\ conns[start].ssl # "none"
         /\ conns[start].to = ends.dw /\ conns[start].from = ends.ur /\ lves[start].ends = ends
         /\ To = <<"pipe", <<start, "down">>, "write">> /\ From = <<"pipe", <<start, "up">>, "read">>
  <1>1. /\ start \in Starts /\ Live(start) /\ Ordered(ends) /\ conns[start].ssl # "none"
        /\ conns[start].to = ends.dw /\ conns[start].from = ends.ur /\ lves[start].ends = ends
    BY DEF ConnInv, ToolTypes, Current, Handshake, Steps, Live
  <1>2. fds[conns[start].to] = End(start, "down", "write") /\ fds[conns[start].from] = End(start, "up", "read")
    BY <1>1, LiveNumbers DEF Handshake
  <1>3. QED
    BY <1>1, <1>2, EndFacts DEF To, From, This

\* A step of a handshake that keeps the descriptors and goes on.
LEMMA GoesOn ==
  ASSUME ConnInv, pc \in Handshake, pc' \in {"hello", "certificate", "finished", "idle"},
         UNCHANGED <<windows, start, fds, ends, saved, lves, before>>,
         conns' \in [Starts -> Connection],
         \A n \in Starts : n # start => conns'[n] = conns[n],
         conns'[start].to = conns[start].to, conns'[start].from = conns[start].from,
         pc' # "idle" => conns'[start].ssl = "setup" /\ conns'[start].x509 = X509 /\ X509 # NULL,
         pc' = "idle" => conns'[start].ssl = "open",
         pc' \in {"finished", "idle"} => pc = "finished" \/ Up(start) # <<>>
  PROVE  ToolTypes' /\ Current' /\ ToolEndsOwn' /\ Stage'
  <1>1. /\ start \in Starts /\ Live(start) /\ Ordered(ends) /\ conns[start].ssl # "none"
        /\ conns[start].to = ends.dw /\ conns[start].from = ends.ur /\ lves[start].ends = ends
    BY ThisConnection
  <1>2. ToolTypes'
    BY <1>1 DEF ConnInv, ToolTypes, Steps, Handshake
  <1>3. Current'
    BY <1>1 DEF ConnInv, Current, Handshake
  <1>4. windows /\ pc' \in {"finished", "idle"} => ends.dr > 1
    BY <1>1 DEF ConnInv, Stage, LveEndsOwn, LveEnds
  <1>5. ToolEndsOwn'
    <2>1. windows /\ pc' = "idle" => ends.dw > 1 /\ ends.ur > 1
      <3>1. ends.ur > 1 /\ (ends.dr > 1 => ends.dw > 1)
        <4>1. ends.dr \in Nat /\ ends.dw \in Nat /\ ends.ur \in Nat
          BY <1>1, StreamsAreFds DEF Ordered
        <4>2. ends.dr < ends.dw /\ ends.dw < ends.ur
          BY <1>1 DEF Ordered
        <4>3. QED
          BY <4>1, <4>2
      <3>2. QED
        BY <1>4, <3>1
    <2>2. ASSUME NEW n \in Starts, Live(n)', n # start
          PROVE  /\ conns'[n] = conns[n] /\ Live(n)
      BY <2>2 DEF Live
    <2>3. conns[start].to \in Fds /\ conns[start].from \in Fds
          /\ fds[conns[start].to] = End(start, "down", "write")
          /\ fds[conns[start].from] = End(start, "up", "read")
      BY <1>1, LiveNumbers DEF Handshake
    <2>4. QED
      BY <1>1, <2>1, <2>2, <2>3 DEF ConnInv, ToolEndsOwn, Handshake
  <1>6. Stage'
    BY <1>4 DEF ConnInv, Stage, Handshake
  <1>7. QED
    BY <1>2, <1>3, <1>5, <1>6

\* The objects of the tool are made, or the connection is freed.
LEMMA StepSetupTool ==
  ASSUME ConnInv, SetupTool
  PROVE  ConnInv'
  <1>0. /\ pc = "setup" /\ UNCHANGED <<windows, start, kept, ends, saved, lves, contents, before>>
        /\ pc \in Handshake /\ pc \notin Early \cup {"restore"}
    BY DEF SetupTool, Handshake, Early
  <1>1. start \in Starts /\ Live(start) /\ conns[start].ssl # "none" /\ Down(start) = <<>>
    BY <1>0, ThisConnection DEF ConnInv, Lengths, Fill
  <1>2. /\ contents' = [p \in Starts \X Ways |-> contents'[p]]
        /\ \A n \in Starts, w \in Ways : contents'[<<n, w>>] = contents[<<n, w>>]
        /\ contents'[<<start, "up">>] = contents[<<start, "up">>]
        /\ contents'[<<start, "down">>] = <<>>
    BY <1>0, <1>1 DEF ConnInv, LveTypes, Down
  <1>3. /\ contents'[<<start, "down">>] \in Seq(ToLve) /\ Len(contents'[<<start, "down">>]) <= 3
        /\ Len(contents'[<<start, "down">>]) <= 2
    BY <1>2
  <1>4. CASE pc' = "idle" /\ Freed(start)
    <2>1. /\ ToolTypes' /\ Current' /\ ToolEndsOwn' /\ Stage'
          /\ conns'[start].ssl = "freed" /\ \A m \in Starts : m # start => conns'[m] = conns[m]
      BY <1>0, <1>1, <1>4, FreedIs
    <2>2. pc' \notin Early \cup {"restore"} /\ pc' \notin Handshake
      BY <1>4 DEF Early, Handshake
    <2>3. LveTypes' /\ Unstarted' /\ LveEndsOwn' /\ Lengths'
      <3>1. UNCHANGED <<windows, start, lves>> /\ pc' \notin {"setup", "hello", "certificate", "finished"}
        BY <1>0, <1>4
      <3>2. QED
        BY <1>0, <1>1, <1>2, <1>3, <2>1, <2>2, <3>1, ToolStep
    <2>4. QED
      BY <2>1, <2>3 DEF ConnInv
  <1>5. CASE /\ pc' = "hello" /\ fds' = fds
             /\ \E ctx \in CreateCTX(ToolKey, "client"), rsa \in GetRsa(ToolKey) : \E x509 \in GenerateX509(rsa) :
                  /\ NULL \notin {ctx, rsa, x509}
                  /\ conns' = [conns EXCEPT ![start].ssl = "setup", ![start].x509 = x509]
    <2>1. PICK rsa \in GetRsa(ToolKey) : \E x509 \in GenerateX509(rsa) :
                 /\ NULL \notin {rsa, x509}
                 /\ conns' = [conns EXCEPT ![start].ssl = "setup", ![start].x509 = x509]
      BY <1>5
    <2>2. PICK x509 \in GenerateX509(rsa) :
                 /\ NULL \notin {rsa, x509}
                 /\ conns' = [conns EXCEPT ![start].ssl = "setup", ![start].x509 = x509]
      BY <2>1
    <2>3. x509 = X509 /\ X509 # NULL
      BY <2>1, <2>2 DEF GetRsa, GenerateX509, X509
    <2>4. /\ conns' \in [Starts -> Connection]
          /\ \A n \in Starts : n # start => conns'[n] = conns[n]
          /\ conns'[start].to = conns[start].to /\ conns'[start].from = conns[start].from
          /\ conns'[start].ssl = "setup" /\ conns'[start].x509 = X509
      BY <1>1, <2>2, <2>3 DEF ConnInv, ToolTypes, Connection
    <2>5. ToolTypes' /\ Current' /\ ToolEndsOwn' /\ Stage'
      BY <1>0, <1>5, <2>3, <2>4, GoesOn
    <2>6. pc' \notin Early \cup {"restore"}
      BY <1>5 DEF Early
    <2>7. LveTypes' /\ Unstarted' /\ LveEndsOwn' /\ Lengths'
      BY <1>0, <1>1, <1>2, <1>3, <1>5, <2>4, <2>6, ToolStep
    <2>8. QED
      BY <2>5, <2>7 DEF ConnInv
  <1>6. QED
    BY <1>4, <1>5 DEF SetupTool, GiveUp, Go

\* The current connection is freed and nothing is said.
LEMMA FreedInHandshake ==
  ASSUME ConnInv, pc \in {"hello", "certificate", "finished"}, Freed(start), pc' = "idle",
         UNCHANGED <<windows, start, ends, saved, lves, contents, before>>
  PROVE  ConnInv'
  <1>1. /\ start \in Starts /\ Live(start) /\ conns[start].ssl # "none"
        /\ pc \in Handshake /\ pc \notin Early \cup {"restore"}
    BY ThisConnection DEF Handshake, Early
  <1>2. /\ ToolTypes' /\ Current' /\ ToolEndsOwn' /\ Stage'
        /\ conns'[start].ssl = "freed" /\ \A m \in Starts : m # start => conns'[m] = conns[m]
    BY <1>1, FreedIs
  <1>3. /\ contents' = [p \in Starts \X Ways |-> contents'[p]]
        /\ \A n \in Starts, w \in Ways : contents'[<<n, w>>] = contents[<<n, w>>]
        /\ contents'[<<start, "up">>] = contents[<<start, "up">>]
        /\ contents'[<<start, "down">>] \in Seq(ToLve) /\ Len(contents'[<<start, "down">>]) <= 3
    BY <1>1 DEF ConnInv, LveTypes, Lengths, Fill, Down
  <1>4. pc' \notin Early \cup {"restore"} /\ pc' \notin {"setup", "hello", "certificate", "finished"}
    BY DEF Early
  <1>5. LveTypes' /\ Unstarted' /\ LveEndsOwn' /\ Lengths'
    BY <1>1, <1>2, <1>3, <1>4, ToolStep DEF Handshake
  <1>6. QED
    BY <1>2, <1>5 DEF ConnInv


\* The hello is sent.
LEMMA StepSendHello ==
  ASSUME ConnInv, SendHello
  PROVE  ConnInv'
  <1>0. /\ pc = "hello" /\ UNCHANGED <<windows, start, kept, ends, saved, lves, before>>
        /\ pc \in Handshake /\ pc \notin Early \cup {"restore"}
    BY DEF SendHello, Handshake, Early
  <1>1. start \in Starts /\ Live(start) /\ conns[start].ssl # "none" /\ Down(start) = <<>>
        /\ To = <<"pipe", <<start, "down">>, "write">>
        /\ conns[start].ssl = "setup" /\ conns[start].x509 = X509 /\ X509 # NULL
    BY <1>0, ThisConnection DEF ConnInv, Lengths, Fill, Current
  <1>2. CASE ~Writable(To) /\ contents' = contents /\ Freed(start) /\ pc' = "idle"
    BY <1>0, <1>2, FreedInHandshake
  <1>3. CASE Dies /\ contents' = contents
    BY <1>0, <1>3, DiesIs
  <1>4. CASE /\ contents' = [contents EXCEPT ![To[2]] = Append(@, <<"hello", NULL>>)]
             /\ pc' = "certificate" /\ UNCHANGED <<conns, fds>>
    <2>1. contents' = [contents EXCEPT ![<<start, "down">>] = Append(@, Hello)]
      BY <1>1, <1>4 DEF Hello
    <2>2. /\ contents = [q \in Starts \X Ways |-> contents[q]] /\ Hello \in ToLve
          /\ contents[<<start, "down">>] \in Seq(ToLve) /\ contents[<<start, "down">>] = <<>>
          /\ <<start, "down">> \in Starts \X Ways /\ <<start, "up">> \in Starts \X Ways
          /\ <<start, "down">> # <<start, "up">>
          /\ \A n \in Starts, w \in Ways : n # start => <<n, w>> \in Starts \X Ways /\ <<n, w>> # <<start, "down">>
      BY <1>1, Kinds, PipeNames DEF ConnInv, LveTypes, Down
    <2>3. /\ contents' = [p \in Starts \X Ways |-> contents'[p]]
          /\ contents'[<<start, "down">>] \in Seq(ToLve)
          /\ contents'[<<start, "down">>] = Append(contents[<<start, "down">>], Hello)
          /\ \A q \in Starts \X Ways : q # <<start, "down">> => contents'[q] = contents[q]
      BY <2>1, <2>2, PutIs
    <2>4. /\ \A n \in Starts, w \in Ways : n # start => contents'[<<n, w>>] = contents[<<n, w>>]
          /\ contents'[<<start, "up">>] = contents[<<start, "up">>]
      BY <2>2, <2>3
    <2>5. Len(contents'[<<start, "down">>]) <= 3 /\ Len(contents'[<<start, "down">>]) <= 1
          /\ Len(contents'[<<start, "down">>]) <= 2
      <3>1. Len(contents'[<<start, "down">>]) = 1
        BY <2>2, <2>3
      <3>2. QED
        BY <3>1
    <2>6. /\ pc' \notin Early \cup {"restore"} /\ pc' \notin {"setup", "hello"}
          /\ UNCHANGED <<windows, start, lves>>
      BY <1>0, <1>4 DEF Early
    <2>7. LveTypes' /\ Unstarted' /\ LveEndsOwn' /\ Lengths'
      BY <1>0, <1>1, <1>4, <2>3, <2>4, <2>5, <2>6, ToolStep
    <2>8. conns' \in [Starts -> Connection]
      BY <1>4 DEF ConnInv, ToolTypes
    <2>9. ToolTypes' /\ Current' /\ ToolEndsOwn' /\ Stage'
      BY <1>0, <1>1, <1>4, <2>8, GoesOn
    <2>10. QED
      BY <2>7, <2>9 DEF ConnInv
  <1>5. QED
    BY <1>2, <1>3, <1>4 DEF SendHello, WriteFails, Put, GiveUp, Go

\* An answer is taken and the certificate sent, or the connection freed.
LEMMA StepSendCertificate ==
  ASSUME ConnInv, SendCertificate
  PROVE  ConnInv'
  <1>0. /\ pc = "certificate" /\ UNCHANGED <<windows, start, kept, ends, saved, lves, before>>
        /\ pc \in Handshake /\ pc \notin Early \cup {"restore"}
    BY DEF SendCertificate, Handshake, Early
  <1>1. start \in Starts /\ Live(start) /\ conns[start].ssl # "none" /\ Len(Down(start)) <= 1
        /\ To = <<"pipe", <<start, "down">>, "write">> /\ From = <<"pipe", <<start, "up">>, "read">>
        /\ conns[start].ssl = "setup" /\ conns[start].x509 = X509 /\ X509 # NULL
    BY <1>0, ThisConnection DEF ConnInv, Lengths, Fill, Current
  <1>2. CASE contents' = contents /\ Freed(start) /\ pc' = "idle"
    BY <1>0, <1>2, FreedInHandshake
  <1>3. CASE Dies /\ contents' = contents
    BY <1>0, <1>3, DiesIs
  <1>4. CASE /\ Reads(From, "hello")
             /\ Answer(From, To, "certificate", IF Waiting(From)[2] = "peer" THEN This.x509 ELSE NULL)
             /\ \/ Opened
                \/ pc' = "finished" /\ UNCHANGED <<conns, fds>>
    <2>1. /\ contents = [q \in Starts \X Ways |-> contents[q]]
          /\ contents[<<start, "down">>] \in Seq(ToLve) /\ contents[<<start, "up">>] \in Seq(ToTool)
          /\ contents[<<start, "up">>] # <<>> /\ Head(contents[<<start, "up">>])[1] = "hello"
      BY <1>1, <1>4 DEF ConnInv, LveTypes, Down, Up, Reads, Waiting, IsEnd
    <2>2. /\ <<start, "down">> \in Starts \X Ways /\ <<start, "up">> \in Starts \X Ways
          /\ <<start, "down">> # <<start, "up">>
          /\ \A n \in Starts, w \in Ways : n # start =>
               <<n, w>> \in Starts \X Ways /\ <<n, w>> # <<start, "down">> /\ <<n, w>> # <<start, "up">>
      BY <1>1, PipeNames DEF Ways
    <2> DEFINE taken == [contents EXCEPT ![<<start, "up">>] = Tail(@)]
               cert == <<"certificate", X509>>
    <2>3. /\ taken = [q \in Starts \X Ways |-> taken[q]]
          /\ taken[<<start, "up">>] = Tail(contents[<<start, "up">>])
          /\ Head(contents[<<start, "up">>]) \in ToTool
          /\ \A q \in Starts \X Ways : q # <<start, "up">> => taken[q] = contents[q]
      BY <2>1, <2>2, TakeIs
    <2>4. Waiting(From)[2] = "peer" /\ This.x509 = X509
      BY <1>1, <2>1, <2>3, Kinds DEF Waiting, This
    <2>5. contents' = [taken EXCEPT ![<<start, "down">>] = Append(@, cert)]
      BY <1>1, <1>4, <2>4 DEF Answer, Taken
    <2> HIDE DEF taken, cert
    <2>6. cert \in ToLve
      BY <1>1, Kinds DEF cert
    <2>7. taken[<<start, "down">>] = contents[<<start, "down">>]
      BY <2>2, <2>3
    <2>8. /\ contents' = [p \in Starts \X Ways |-> contents'[p]]
          /\ contents'[<<start, "down">>] \in Seq(ToLve)
          /\ contents'[<<start, "down">>] = Append(taken[<<start, "down">>], cert)
          /\ \A q \in Starts \X Ways : q # <<start, "down">> => contents'[q] = taken[q]
      <3>1. /\ taken = [q \in Starts \X Ways |-> taken[q]] /\ taken[<<start, "down">>] \in Seq(ToLve)
            /\ <<start, "down">> \in Starts \X Ways
        BY <2>1, <2>2, <2>3, <2>7
      <3>2. QED
        BY <2>5, <2>6, <3>1, PutIs
    <2>9. /\ \A n \in Starts, w \in Ways : n # start => contents'[<<n, w>>] = contents[<<n, w>>]
          /\ contents'[<<start, "up">>] = Tail(contents[<<start, "up">>])
      BY <2>2, <2>3, <2>8
    <2>10. Len(contents'[<<start, "down">>]) <= 3 /\ Len(contents'[<<start, "down">>]) <= 2
      <3>1. Len(contents[<<start, "down">>]) <= 1 /\ Len(contents[<<start, "down">>]) \in Nat
        BY <1>1, <2>1 DEF Down
      <3>2. Len(contents'[<<start, "down">>]) = Len(contents[<<start, "down">>]) + 1
        BY <2>1, <2>7, <2>8
      <3>3. QED
        BY <3>1, <3>2
    <2>11. /\ pc' \notin Early \cup {"restore"} /\ pc' \notin {"setup", "hello", "certificate"}
           /\ UNCHANGED <<windows, start, lves>> /\ pc' \in {"finished", "idle"} /\ fds' = fds
      BY <1>0, <1>4 DEF Early, Opened, Go
    <2>12. /\ conns' \in [Starts -> Connection]
           /\ \A n \in Starts : n # start => conns'[n] = conns[n]
           /\ conns'[start].to = conns[start].to /\ conns'[start].from = conns[start].from
           /\ (pc' # "idle" => conns'[start] = conns[start])
           /\ (pc' = "idle" => conns'[start].ssl = "open")
      BY <1>1, <1>4 DEF ConnInv, ToolTypes, Opened, Go, Connection
    <2>13. LveTypes' /\ Unstarted' /\ LveEndsOwn' /\ Lengths'
      BY <1>0, <1>1, <2>1, <2>8, <2>9, <2>10, <2>11, <2>12, ToolStep
    <2>14. ToolTypes' /\ Current' /\ ToolEndsOwn' /\ Stage'
      <3>1. Up(start) # <<>>
        BY <2>1 DEF Up
      <3>2. QED
        BY <1>0, <1>1, <2>11, <2>12, <3>1, GoesOn
    <2>15. QED
      BY <2>13, <2>14 DEF ConnInv
  <1>5. QED
    BY <1>2, <1>3, <1>4 DEF SendCertificate, WriteFails, GiveUp, Go


\* The answer to the certificate is read, or the connection freed.
LEMMA StepReadFinished ==
  ASSUME ConnInv, ReadFinished
  PROVE  ConnInv'
  <1>0. /\ pc = "finished" /\ UNCHANGED <<windows, start, kept, ends, saved, lves, before>>
        /\ pc \in Handshake /\ pc \notin Early \cup {"restore"}
    BY DEF ReadFinished, Handshake, Early
  <1>1. start \in Starts /\ Live(start) /\ conns[start].ssl # "none" /\ Len(Down(start)) <= 2
        /\ From = <<"pipe", <<start, "up">>, "read">>
    BY <1>0, ThisConnection DEF ConnInv, Lengths, Fill
  <1>2. CASE contents' = contents /\ Freed(start) /\ pc' = "idle"
    BY <1>0, <1>2, FreedInHandshake
  <1>3. ASSUME \E kind : Reads(From, kind), Take(From), pc' = "idle",
               ToolTypes' /\ Current' /\ ToolEndsOwn' /\ Stage',
               \A n \in Starts : n # start => conns'[n] = conns[n]
        PROVE  ConnInv'
    <2>1. /\ contents = [q \in Starts \X Ways |-> contents[q]]
          /\ contents[<<start, "down">>] \in Seq(ToLve) /\ contents[<<start, "up">>] \in Seq(ToTool)
          /\ contents[<<start, "up">>] # <<>>
      BY <1>1, <1>3 DEF ConnInv, LveTypes, Down, Up, Reads, IsEnd
    <2>2. /\ <<start, "down">> \in Starts \X Ways /\ <<start, "up">> \in Starts \X Ways
          /\ <<start, "down">> # <<start, "up">>
          /\ \A n \in Starts, w \in Ways : n # start => <<n, w>> \in Starts \X Ways /\ <<n, w>> # <<start, "up">>
      BY <1>1, PipeNames DEF Ways
    <2>3. contents' = [contents EXCEPT ![<<start, "up">>] = Tail(@)]
      BY <1>1, <1>3 DEF Take, Taken
    <2>4. /\ contents' = [q \in Starts \X Ways |-> contents'[q]]
          /\ contents'[<<start, "up">>] = Tail(contents[<<start, "up">>])
          /\ \A q \in Starts \X Ways : q # <<start, "up">> => contents'[q] = contents[q]
      BY <2>1, <2>2, <2>3, TakeIs
    <2>5. /\ \A n \in Starts, w \in Ways : n # start => contents'[<<n, w>>] = contents[<<n, w>>]
          /\ contents'[<<start, "down">>] = contents[<<start, "down">>]
          /\ contents'[<<start, "down">>] \in Seq(ToLve)
      BY <2>1, <2>2, <2>4
    <2>6. Len(contents'[<<start, "down">>]) <= 3 /\ Len(contents'[<<start, "down">>]) <= 2
      <3>1. Len(contents[<<start, "down">>]) <= 2 /\ Len(contents[<<start, "down">>]) \in Nat
        BY <1>1, <2>1 DEF Down
      <3>2. QED
        BY <2>5, <3>1
    <2>7. pc' \notin Early \cup {"restore"} /\ pc' \notin {"setup", "hello", "certificate", "finished"}
      BY <1>3 DEF Early
    <2>8. LveTypes' /\ Unstarted' /\ LveEndsOwn' /\ Lengths'
      BY <1>0, <1>1, <1>3, <2>1, <2>4, <2>5, <2>6, <2>7, ToolStep DEF Handshake
    <2>9. QED
      BY <1>3, <2>8 DEF ConnInv
  <1>4. CASE Reads(From, "alert") /\ Take(From) /\ Freed(start) /\ pc' = "idle"
    <2>1. /\ ToolTypes' /\ Current' /\ ToolEndsOwn' /\ Stage'
          /\ \A m \in Starts : m # start => conns'[m] = conns[m]
      BY <1>0, <1>1, <1>4, FreedIs
    <2>2. QED
      BY <1>3, <1>4, <2>1
  <1>5. CASE Reads(From, "finished") /\ Take(From) /\ Opened
    <2>1. /\ pc' = "idle" /\ fds' = fds
          /\ conns' \in [Starts -> Connection]
          /\ \A n \in Starts : n # start => conns'[n] = conns[n]
          /\ conns'[start].to = conns[start].to /\ conns'[start].from = conns[start].from
          /\ conns'[start].ssl = "open"
      BY <1>1, <1>5 DEF ConnInv, ToolTypes, Opened, Go, Connection
    <2>2. ToolTypes' /\ Current' /\ ToolEndsOwn' /\ Stage'
      BY <1>0, <2>1, GoesOn
    <2>3. QED
      BY <1>3, <1>5, <2>1, <2>2
  <1>6. QED
    BY <1>2, <1>4, <1>5 DEF ReadFinished, GiveUp, Go

\* An open connection is freed, or the tool dies of telling a dead LVE.
LEMMA StepFreeConnection ==
  ASSUME ConnInv, NEW n \in Starts, FreeConnection(n)
  PROVE  ConnInv'
  <1>0. /\ pc = "idle" /\ UNCHANGED <<windows, start, kept, ends, saved, lves, before>>
        /\ pc \notin Early \cup {"restore"} /\ pc \notin {"setup", "hello", "certificate", "finished"}
    BY DEF FreeConnection, Early
  <1>1. Live(n) /\ conns[n].ssl = "open"
        /\ contents = [q \in Starts \X Ways |-> contents[q]]
        /\ contents[<<n, "down">>] \in Seq(ToLve) /\ Len(contents[<<n, "down">>]) \in Nat
        /\ Len(contents[<<n, "down">>]) <= 2
    <2>1. Live(n) /\ conns[n].ssl = "open"
      BY DEF FreeConnection, Live
    <2>2. contents = [q \in Starts \X Ways |-> contents[q]] /\ contents[<<n, "down">>] \in Seq(ToLve)
      BY DEF ConnInv, LveTypes, Down
    <2>3. Fill(n)
      BY DEF ConnInv, Lengths
    <2>4. Len(contents[<<n, "down">>]) <= 2
      BY <2>1, <2>3 DEF Fill, Down
    <2>5. Len(contents[<<n, "down">>]) \in Nat
      BY <2>2
    <2>6. QED
      BY <2>1, <2>2, <2>4, <2>5
  <1>2. /\ <<n, "down">> \in Starts \X Ways /\ <<n, "up">> \in Starts \X Ways
        /\ <<n, "down">> # <<n, "up">>
        /\ \A m \in Starts, w \in Ways : m # n => <<m, w>> \in Starts \X Ways /\ <<m, w>> # <<n, "down">>
    BY PipeNames DEF Ways
  <1>3. CASE Dies /\ contents' = contents
    BY <1>0, <1>3, DiesIs
  <1>4. CASE /\ Freed(n) /\ pc' = pc
             /\ contents' = contents \/ contents' = [contents EXCEPT ![<<n, "down">>] = Append(@, Notify)]
    <2>1. /\ ToolTypes' /\ Current' /\ ToolEndsOwn' /\ Stage'
          /\ conns'[n].ssl = "freed" /\ \A m \in Starts : m # n => conns'[m] = conns[m]
      BY <1>0, <1>1, <1>4, FreedIs DEF Handshake
    <2>2. /\ contents' = [q \in Starts \X Ways |-> contents'[q]]
          /\ contents'[<<n, "down">>] \in Seq(ToLve)
          /\ \A q \in Starts \X Ways : q # <<n, "down">> => contents'[q] = contents[q]
          /\ contents'[<<n, "down">>] = contents[<<n, "down">>]
               \/ contents'[<<n, "down">>] = Append(contents[<<n, "down">>], Notify)
      <3>1. CASE contents' = contents
        BY <1>1, <3>1
      <3>2. CASE contents' = [contents EXCEPT ![<<n, "down">>] = Append(@, Notify)]
        <4>1. Notify \in ToLve
          BY Kinds
        <4>2. /\ contents = [q \in Starts \X Ways |-> contents[q]]
              /\ contents[<<n, "down">>] \in Seq(ToLve) /\ <<n, "down">> \in Starts \X Ways
          BY <1>1, <1>2
        <4>3. QED
          BY <3>2, <4>1, <4>2, PutIs
      <3>3. QED
        BY <1>4, <3>1, <3>2
    <2>3. /\ \A m \in Starts, w \in Ways : m # n => contents'[<<m, w>>] = contents[<<m, w>>]
          /\ contents'[<<n, "up">>] = contents[<<n, "up">>]
      BY <1>2, <2>2
    <2>4. Len(contents'[<<n, "down">>]) <= 3
      <3>1. CASE contents'[<<n, "down">>] = contents[<<n, "down">>]
        BY <1>1, <3>1
      <3>2. CASE contents'[<<n, "down">>] = Append(contents[<<n, "down">>], Notify)
        <4>1. Len(contents'[<<n, "down">>]) = Len(contents[<<n, "down">>]) + 1
          BY <1>1, <3>2
        <4>2. QED
          BY <1>1, <4>1
      <3>3. QED
        BY <2>2, <3>1, <3>2
    <2>5. pc' \notin Early \cup {"restore"} /\ pc' \notin {"setup", "hello", "certificate", "finished"}
          /\ conns[n].ssl # "none" /\ ~(conns'[n].ssl = "open")
      BY <1>0, <1>1, <1>4, <2>1
    <2>6. LveTypes' /\ Unstarted' /\ LveEndsOwn' /\ Lengths'
      BY <1>0, <2>1, <2>2, <2>3, <2>4, <2>5, ToolStep DEF Handshake
    <2>7. QED
      BY <2>1, <2>6 DEF ConnInv
  <1>5. CASE Writable(fds[conns[n].to]) /\ Put(fds[conns[n].to], "close_notify", NULL)
             /\ Freed(n) /\ pc' = pc
    <2>1. fds[conns[n].to] = <<"pipe", <<n, "down">>, "write">>
      BY <1>0, <1>1, LiveNumbers, EndFacts
    <2>2. contents' = [contents EXCEPT ![<<n, "down">>] = Append(@, Notify)]
      BY <1>5, <2>1 DEF Put, Notify
    <2>3. QED
      BY <1>4, <1>5, <2>2
  <1>6. QED
    BY <1>3, <1>4, <1>5 DEF FreeConnection


-----------------------------------------------------------------------------
(* Steps of an LVE.                                                          *)

\* A step of an LVE leaves the tool alone, and takes no more than one message.
LEMMA LveMoves ==
  ASSUME ConnInv, NEW n \in Starts, lves[n].state # "none",
         UNCHANGED <<windows, pc, start, fds, kept, ends, saved, conns, before>>,
         lves' \in [Starts -> Process],
         \A m \in Starts : m # n => lves'[m] = lves[m], lves'[n].ends = lves[n].ends,
         contents' = [p \in Starts \X Ways |-> contents'[p]],
         \A m \in Starts, w \in Ways : m # n => contents'[<<m, w>>] = contents[<<m, w>>],
         \/ contents'[<<n, "down">>] = contents[<<n, "down">>]
         \/ contents[<<n, "down">>] # <<>> /\ contents'[<<n, "down">>] = Tail(contents[<<n, "down">>]),
         contents'[<<n, "up">>] \in Seq(ToTool), Len(contents'[<<n, "up">>]) <= 2,
         lves'[n].state = "verifying" => Len(contents'[<<n, "up">>]) <= 1,
         lves'[n].state \in {"none", "forked", "started", "accepting"} => contents'[<<n, "up">>] = <<>>,
         LveEnds(n)'
  PROVE  ConnInv'
  <1>1. /\ Down(n) \in Seq(ToLve) /\ Down(n)' \in Seq(ToLve)
        /\ Len(Down(n)') <= Len(Down(n)) /\ (Down(n) = <<>> => Down(n)' = <<>>)
    <2>1. Down(n) \in Seq(ToLve)
      BY DEF ConnInv, LveTypes
    <2>2. CASE contents'[<<n, "down">>] = contents[<<n, "down">>]
      BY <2>1, <2>2 DEF Down
    <2>3. CASE contents[<<n, "down">>] # <<>> /\ contents'[<<n, "down">>] = Tail(contents[<<n, "down">>])
      BY <2>1, <2>3 DEF Down
    <2>4. QED
      BY <2>2, <2>3
  <1>2. \A m \in Starts : m # n => Up(m)' = Up(m) /\ Down(m)' = Down(m)
    BY DEF Up, Down, Ways
  <1>3. Up(n)' = contents'[<<n, "up">>]
    BY DEF Up
  <1>4. ~(n > start) /\ ~(n = start /\ pc \in Early)
    BY DEF ConnInv, Unstarted
  <1>5. ToolTypes'
    BY DEF ConnInv, ToolTypes
  <1>6. LveTypes'
    BY <1>1, <1>2, <1>3 DEF ConnInv, LveTypes, Process
  <1>7. Unstarted'
    BY <1>1, <1>2, <1>4 DEF ConnInv, Unstarted
  <1>8. \A m \in Starts : lves'[m].ends = lves[m].ends
    OBVIOUS
  <1>9. Current' /\ ToolEndsOwn'
    BY <1>8 DEF ConnInv, ToolTypes, Current, ToolEndsOwn, Live, Handshake
  <1>10. Stage'
    BY <1>8 DEF ConnInv, ToolTypes, Stage, Piped, Live
  <1>11. LveEndsOwn'
    <2>1. ASSUME NEW m \in Starts, m # n
          PROVE  LveEnds(m)'
      BY <1>2, <2>1, SMTT(30) DEF ConnInv, LveEndsOwn, LveEnds, In, Out
    <2>2. QED
      BY <2>1 DEF LveEndsOwn
  <1>12. Lengths'
    <2>1. ASSUME NEW m \in Starts, m # n
          PROVE  Fill(m)'
      BY <1>2, <2>1 DEF ConnInv, Lengths, Fill
    <2>2. ASSUME NEW m \in Starts, m = n
          PROVE  Fill(m)'
      <3>1. Len(Down(n)) \in Nat /\ Len(Down(n)') \in Nat
        BY <1>1
      <3>2. Fill(n)
        BY DEF ConnInv, Lengths
      <3>3. /\ Len(Down(n)') <= 3
            /\ n = start /\ pc \in {"setup", "hello"} => Down(n)' = <<>>
            /\ n = start /\ pc = "certificate" => Len(Down(n)') <= 1
            /\ (n = start /\ pc = "finished") \/ conns[n].ssl = "open" => Len(Down(n)') <= 2
        BY <1>1, <3>1, <3>2 DEF Fill
      <3>4. QED
        BY <1>3, <2>2, <3>3 DEF Fill
    <2>3. QED
      BY <2>1, <2>2 DEF Lengths
  <1>13. QED
    BY <1>5, <1>6, <1>7, <1>9, <1>10, <1>11, <1>12 DEF ConnInv

\* What is in the pipes of a process, and what it may hold.
LEMMA ProcessIs ==
  ASSUME ConnInv, NEW n \in Starts
  PROVE  /\ lves \in [Starts -> Process] /\ lves[n] \in Process /\ Closed \in Tables
         /\ contents = [p \in Starts \X Ways |-> contents[p]]
         /\ contents[<<n, "down">>] \in Seq(ToLve) /\ contents[<<n, "up">>] \in Seq(ToTool)
         /\ Len(contents[<<n, "up">>]) \in Nat /\ Len(contents[<<n, "up">>]) <= 2
         /\ lves[n].state = "verifying" => Len(contents[<<n, "up">>]) <= 1
         /\ lves[n].state \in {"none", "forked", "started", "accepting"} => contents[<<n, "up">>] = <<>>
         /\ LveEnds(n)
  <1>1. lves \in [Starts -> Process] /\ lves[n] \in Process
    BY DEF ConnInv, LveTypes, Process
  <1>2. Closed \in Tables
    BY EndFacts DEF Closed, Tables
  <1>3. /\ contents = [p \in Starts \X Ways |-> contents[p]]
        /\ contents[<<n, "down">>] \in Seq(ToLve) /\ contents[<<n, "up">>] \in Seq(ToTool)
    BY DEF ConnInv, LveTypes, Down, Up
  <1>4. Fill(n) /\ LveEnds(n)
    BY DEF ConnInv, Lengths, LveEndsOwn
  <1>5. /\ Len(contents[<<n, "up">>]) <= 2
        /\ lves[n].state = "verifying" => Len(contents[<<n, "up">>]) <= 1
        /\ lves[n].state \in {"none", "forked", "started", "accepting"} => contents[<<n, "up">>] = <<>>
    BY <1>4 DEF Fill, Up
  <1>6. Len(contents[<<n, "up">>]) \in Nat
    BY <1>3
  <1>7. QED
    BY <1>1, <1>2, <1>3, <1>4, <1>5, <1>6

\* A process ends, having answered or not.
LEMMA EndedIs ==
  ASSUME ConnInv, NEW n \in Starts, lves[n].state # "none", Ended(n),
         UNCHANGED <<windows, pc, start, fds, kept, ends, saved, conns, before>>,
         contents' = [p \in Starts \X Ways |-> contents'[p]],
         \A m \in Starts, w \in Ways : m # n => contents'[<<m, w>>] = contents[<<m, w>>],
         \/ contents'[<<n, "down">>] = contents[<<n, "down">>]
         \/ contents[<<n, "down">>] # <<>> /\ contents'[<<n, "down">>] = Tail(contents[<<n, "down">>]),
         contents'[<<n, "up">>] \in Seq(ToTool), Len(contents'[<<n, "up">>]) <= 2,
         windows /\ contents'[<<n, "up">>] # <<>> => lves[n].ends # <<>> /\ lves[n].ends.dr > 1
  PROVE  ConnInv'
  <1>1. lves \in [Starts -> Process] /\ Closed \in Tables
    BY ProcessIs
  <1>2. /\ lves' \in [Starts -> Process] /\ \A m \in Starts : m # n => lves'[m] = lves[m]
        /\ lves'[n].ends = lves[n].ends /\ lves'[n].state = "ended"
    <2>1. lves' = [lves EXCEPT ![n] = [lves[n] EXCEPT !.state = "ended", !.fds = Closed]]
      BY <1>1 DEF Ended
    <2> DEFINE p == [lves[n] EXCEPT !.state = "ended", !.fds = Closed]
    <2>2. lves[n] \in Process
      BY <1>1
    <2>3. p \in Process /\ p.ends = lves[n].ends /\ p.state = "ended"
      BY <1>1, <2>2 DEF Process
    <2>4. lves' = [lves EXCEPT ![n] = p]
      BY <2>1
    <2> HIDE DEF p
    <2>5. QED
      BY <1>1, <2>3, <2>4
  <1>3. LveEnds(n)'
    BY <1>2 DEF LveEnds, Up
  <1>4. QED
    BY <1>2, <1>3, LveMoves

\* A process ends and says nothing.
LEMMA EndedSilently ==
  ASSUME ConnInv, NEW n \in Starts, lves[n].state # "none", Ended(n),
         UNCHANGED <<windows, pc, start, fds, kept, ends, saved, conns, contents, before>>
  PROVE  ConnInv'
  <1>1. /\ contents = [p \in Starts \X Ways |-> contents[p]]
        /\ contents[<<n, "up">>] \in Seq(ToTool) /\ Len(contents[<<n, "up">>]) <= 2
        /\ LveEnds(n)
    BY ProcessIs
  <1>2. windows /\ contents[<<n, "up">>] # <<>> => lves[n].ends # <<>> /\ lves[n].ends.dr > 1
    BY <1>1 DEF LveEnds, Up
  <1>3. /\ contents' = [p \in Starts \X Ways |-> contents'[p]]
        /\ \A m \in Starts, w \in Ways : m # n => contents'[<<m, w>>] = contents[<<m, w>>]
        /\ contents'[<<n, "down">>] = contents[<<n, "down">>]
        /\ contents'[<<n, "up">>] \in Seq(ToTool) /\ Len(contents'[<<n, "up">>]) <= 2
        /\ windows /\ contents'[<<n, "up">>] # <<>> => lves[n].ends # <<>> /\ lves[n].ends.dr > 1
    BY <1>1, <1>2
  <1>4. QED
    BY <1>3, EndedIs


\* What a child makes of its table, where dup2() succeeds: the ends of its own
\* pipes in the place of its streams.
LEMMA ChildTableIs ==
  ASSUME NEW n, NEW t \in Tables, NEW e, Ordered(e), ChildTable(t, e) # <<>>,
         t[e.dr] = End(n, "down", "read"), t[e.uw] = End(n, "up", "write")
  PROVE  /\ ChildTable(t, e) \in Tables
         /\ ChildTable(t, e)[Stdin] = End(n, "down", "read")
         /\ ChildTable(t, e)[Stdout] = End(n, "up", "write")
  <1> DEFINE one == Shut(t, e.dw)
             in  == Shut(one, Stdin)
             dup == Dup2(in, e.dr, Stdin)
             two == Shut(dup, e.dr)
             mid == Shut(two, e.ur)
             out == Shut(mid, Stdout)
             all == Dup2(out, e.uw, Stdout)
             end == Shut(all, e.uw)
  <1>1. ChildTable(t, e) = end /\ in[e.dr] # None /\ out[e.uw] # None
    BY DEF ChildTable
  <1>2. /\ Stdin \in Fds /\ Stdout \in Fds /\ e.dr \in Fds /\ e.dw \in Fds /\ e.ur \in Fds /\ e.uw \in Fds
        /\ Stdin # Stdout /\ e.ur # Stdin /\ e.uw # Stdin /\ e.uw # Stdout
        /\ e.dr # e.dw /\ e.dr # e.ur /\ e.dr # e.uw /\ e.dw # e.uw /\ e.ur # e.uw
    BY OrderedIs, StreamsAreFds
  <1> HIDE DEF end
  <1>3. one \in Tables /\ \A x \in Fds : one[x] = IF x = e.dw THEN None ELSE t[x]
    BY <1>2, ShutIs
  <1> HIDE DEF one
  <1>4. in \in Tables /\ \A x \in Fds : in[x] = IF x = Stdin THEN None ELSE one[x]
    BY <1>2, <1>3, ShutIs
  <1> HIDE DEF in
  <1>5. dup \in Tables /\ \A x \in Fds : dup[x] = IF x = Stdin THEN in[e.dr] ELSE in[x]
    <2>1. in \in Tables /\ e.dr \in Fds /\ Stdin \in Fds
      BY <1>2, <1>4
    <2>2. QED
      BY <2>1, Dup2Is, ZenonT(60)
  <1> HIDE DEF dup
  <1>6. two \in Tables /\ \A x \in Fds : two[x] = IF x = e.dr THEN None ELSE dup[x]
    BY <1>2, <1>5, ShutIs
  <1> HIDE DEF two
  <1>7. mid \in Tables /\ \A x \in Fds : mid[x] = IF x = e.ur THEN None ELSE two[x]
    BY <1>2, <1>6, ShutIs
  <1> HIDE DEF mid
  <1>8. out \in Tables /\ \A x \in Fds : out[x] = IF x = Stdout THEN None ELSE mid[x]
    BY <1>2, <1>7, ShutIs
  <1> HIDE DEF out
  <1>9. all \in Tables /\ \A x \in Fds : all[x] = IF x = Stdout THEN out[e.uw] ELSE out[x]
    <2>1. out \in Tables /\ e.uw \in Fds /\ Stdout \in Fds
      BY <1>2, <1>8
    <2>2. /\ Dup2(out, e.uw, Stdout) \in Tables
          /\ \A x \in Fds : Dup2(out, e.uw, Stdout)[x] = IF x = Stdout THEN out[e.uw] ELSE out[x]
      BY <2>1, Dup2Is, ZenonT(60)
    <2>3. QED
      BY <2>2
  <1> HIDE DEF all
  <1>10. end \in Tables /\ \A x \in Fds : end[x] = IF x = e.uw THEN None ELSE all[x]
    BY <1>2, <1>9, ShutIs DEF end
  <1>11. e.dr # Stdin /\ in[e.dr] = End(n, "down", "read")
    BY <1>1, <1>2, <1>3, <1>4
  <1>12. out[Stdin] = End(n, "down", "read")
    BY <1>2, <1>5, <1>6, <1>7, <1>8, <1>11
  <1>13. out[e.uw] = End(n, "up", "write")
    BY <1>2, <1>3, <1>4, <1>5, <1>6, <1>7, <1>8
  <1>14. QED
    BY <1>1, <1>2, <1>9, <1>10, <1>12, <1>13

\* The child becomes the LVE or exits.
LEMMA StepChild ==
  ASSUME ConnInv, NEW n \in Starts, Child(n)
  PROVE  ConnInv'
  <1> DEFINE table == ChildTable(lves[n].fds, lves[n].ends)
  <1>0. /\ lves[n].state = "forked"
        /\ UNCHANGED <<windows, pc, start, fds, kept, ends, saved, conns, contents, before>>
    BY DEF Child
  <1>1. CASE Ended(n)
    BY <1>0, <1>1, EndedSilently
  <1>2. CASE table # <<>> /\ lves' = [lves EXCEPT ![n].state = "started", ![n].fds = table]
    <2>1. /\ lves \in [Starts -> Process] /\ lves[n] \in Process
          /\ contents = [p \in Starts \X Ways |-> contents[p]] /\ contents[<<n, "up">>] = <<>>
          /\ contents[<<n, "up">>] \in Seq(ToTool) /\ Len(contents[<<n, "up">>]) <= 2
          /\ LveEnds(n)
      BY <1>0, ProcessIs
    <2>2. /\ ~windows /\ Ordered(lves[n].ends)
          /\ lves[n].fds[lves[n].ends.dr] = End(n, "down", "read")
          /\ lves[n].fds[lves[n].ends.uw] = End(n, "up", "write")
      BY <1>0, <2>1 DEF LveEnds
    <2>3. lves[n].fds \in Tables
      BY <2>1 DEF Process
    <2>4. table \in Tables /\ table[Stdin] = End(n, "down", "read") /\ table[Stdout] = End(n, "up", "write")
      BY <1>2, <2>2, <2>3, ChildTableIs
    <2> HIDE DEF table
    <2> DEFINE p == [lves[n] EXCEPT !.state = "started", !.fds = table]
    <2>5. p \in Process /\ p.ends = lves[n].ends /\ p.state = "started" /\ p.fds = table
      BY <2>1, <2>4 DEF Process
    <2>6. lves' = [lves EXCEPT ![n] = p]
      BY <1>2
    <2> HIDE DEF p
    <2>7. lves' \in [Starts -> Process] /\ lves'[n] = p /\ \A m \in Starts : m # n => lves'[m] = lves[m]
      BY <2>1, <2>5, <2>6
    <2>8. LveEnds(n)'
      BY <1>0, <2>1, <2>2, <2>4, <2>5, <2>7 DEF LveEnds, In, Out, Up
    <2>9. /\ contents' = [q \in Starts \X Ways |-> contents'[q]]
          /\ \A m \in Starts, w \in Ways : m # n => contents'[<<m, w>>] = contents[<<m, w>>]
          /\ contents'[<<n, "down">>] = contents[<<n, "down">>]
          /\ contents'[<<n, "up">>] = <<>>
          /\ contents'[<<n, "up">>] \in Seq(ToTool) /\ Len(contents'[<<n, "up">>]) <= 2
          /\ lves[n].state # "none" /\ lves'[n].state # "verifying" /\ lves'[n].ends = lves[n].ends
      BY <1>0, <2>1, <2>5, <2>7
    <2>10. QED
      BY <1>0, <2>7, <2>8, <2>9, LveMoves
  <1>3. QED
    BY <1>1, <1>2 DEF Child

\* An LVE that starts makes its objects, or exits.
LEMMA StepSetupLve ==
  ASSUME ConnInv, NEW n \in Starts, SetupLve(n)
  PROVE  ConnInv'
  <1>0. /\ lves[n].state = "started"
        /\ UNCHANGED <<windows, pc, start, fds, kept, ends, saved, conns, contents, before>>
    BY DEF SetupLve
  <1>1. CASE Ended(n)
    BY <1>0, <1>1, EndedSilently
  <1>2. CASE \E ctx \in CreateCTX(LveKey, "server") :
               NULL # ctx /\ lves' = [lves EXCEPT ![n].state = "accepting", ![n].verify = ctx.verify]
    <2>1. PICK ctx \in CreateCTX(LveKey, "server") :
               NULL # ctx /\ lves' = [lves EXCEPT ![n].state = "accepting", ![n].verify = ctx.verify]
      BY <1>2
    <2>2. ctx.verify = "peer"
      BY <2>1 DEF CreateCTX
    <2>3. /\ lves \in [Starts -> Process] /\ lves[n] \in Process
          /\ contents = [p \in Starts \X Ways |-> contents[p]] /\ contents[<<n, "up">>] = <<>>
          /\ contents[<<n, "up">>] \in Seq(ToTool) /\ Len(contents[<<n, "up">>]) <= 2
          /\ LveEnds(n)
      BY <1>0, ProcessIs
    <2> DEFINE p == [lves[n] EXCEPT !.state = "accepting", !.verify = "peer"]
    <2>4. p \in Process /\ p.ends = lves[n].ends /\ p.state = "accepting" /\ p.fds = lves[n].fds
          /\ p.verify = "peer"
      BY <2>3 DEF Process
    <2>5. lves' = [lves EXCEPT ![n] = p]
      BY <2>1, <2>2
    <2> HIDE DEF p
    <2>6. lves' \in [Starts -> Process] /\ lves'[n] = p /\ \A m \in Starts : m # n => lves'[m] = lves[m]
      BY <2>3, <2>4, <2>5
    <2>7. LveEnds(n)'
      BY <1>0, <2>3, <2>4, <2>6 DEF LveEnds, In, Out, Up
    <2>8. /\ contents' = [q \in Starts \X Ways |-> contents'[q]]
          /\ \A m \in Starts, w \in Ways : m # n => contents'[<<m, w>>] = contents[<<m, w>>]
          /\ contents'[<<n, "down">>] = contents[<<n, "down">>]
          /\ contents'[<<n, "up">>] = <<>>
          /\ contents'[<<n, "up">>] \in Seq(ToTool) /\ Len(contents'[<<n, "up">>]) <= 2
          /\ lves[n].state # "none" /\ lves'[n].state # "verifying" /\ lves'[n].ends = lves[n].ends
      BY <1>0, <2>3, <2>4, <2>6
    <2>9. QED
      BY <1>0, <2>6, <2>7, <2>8, LveMoves
  <1>3. QED
    BY <1>1, <1>2 DEF SetupLve


\* An LVE that can read a message of its tool, and answer it, has its own ends.
LEMMA OwnPipes ==
  ASSUME ConnInv, NEW n \in Starts, lves[n].state \in {"accepting", "verifying"},
         NEW kind, Reads(In(n), kind), Writable(Out(n))
  PROVE  /\ In(n) = End(n, "down", "read") /\ Out(n) = End(n, "up", "write")
         /\ In(n)[2] = <<n, "down">> /\ Out(n)[2] = <<n, "up">>
         /\ In(n) # None /\ Out(n) # None
         /\ contents[<<n, "down">>] # <<>> /\ Head(contents[<<n, "down">>])[1] = kind
         /\ windows => lves[n].ends # <<>> /\ lves[n].ends.dr > 1
  <1>1. LveEnds(n)
    BY ProcessIs
  <1>2. In(n) # None /\ Out(n) # None
    BY EndFacts DEF Reads, Writable, IsEnd
  <1>3. In(n) = End(n, "down", "read") /\ Out(n) = End(n, "up", "write")
        /\ (windows => lves[n].ends # <<>> /\ lves[n].ends.dr > 1)
    BY <1>1, <1>2 DEF LveEnds
  <1>4. In(n)[2] = <<n, "down">> /\ Out(n)[2] = <<n, "up">>
    BY <1>3, EndFacts
  <1>5. contents[<<n, "down">>] # <<>> /\ Head(contents[<<n, "down">>])[1] = kind
    BY <1>4 DEF Reads, Waiting
  <1>6. QED
    BY <1>2, <1>3, <1>4, <1>5

\* An answer: a message taken from one pipe and one put into the other.
LEMMA AnswerIs ==
  ASSUME ConnInv, NEW n \in Starts, In(n)[2] = <<n, "down">>, Out(n)[2] = <<n, "up">>,
         contents[<<n, "down">>] # <<>>,
         NEW m, NEW c, <<m, c>> \in ToTool, Answer(In(n), Out(n), m, c)
  PROVE  /\ contents' = [p \in Starts \X Ways |-> contents'[p]]
         /\ \A k \in Starts, w \in Ways : k # n => contents'[<<k, w>>] = contents[<<k, w>>]
         /\ contents'[<<n, "down">>] = Tail(contents[<<n, "down">>])
         /\ contents'[<<n, "up">>] \in Seq(ToTool)
         /\ Len(contents'[<<n, "up">>]) = Len(contents[<<n, "up">>]) + 1
         /\ Head(contents[<<n, "down">>]) \in ToLve
  <1> DEFINE taken == [contents EXCEPT ![<<n, "down">>] = Tail(@)]
             message == <<m, c>>
  <1>1. /\ contents = [p \in Starts \X Ways |-> contents[p]]
        /\ contents[<<n, "down">>] \in Seq(ToLve) /\ contents[<<n, "up">>] \in Seq(ToTool)
    BY ProcessIs
  <1>2. /\ <<n, "down">> \in Starts \X Ways /\ <<n, "up">> \in Starts \X Ways
        /\ <<n, "down">> # <<n, "up">>
        /\ \A k \in Starts, w \in Ways : k # n =>
             <<k, w>> \in Starts \X Ways /\ <<k, w>> # <<n, "down">> /\ <<k, w>> # <<n, "up">>
    BY PipeNames DEF Ways
  <1>3. contents' = [taken EXCEPT ![<<n, "up">>] = Append(@, message)]
    BY DEF Answer, Taken
  <1>4. /\ taken = [q \in Starts \X Ways |-> taken[q]]
        /\ taken[<<n, "down">>] = Tail(contents[<<n, "down">>])
        /\ Head(contents[<<n, "down">>]) \in ToLve
        /\ \A q \in Starts \X Ways : q # <<n, "down">> => taken[q] = contents[q]
    BY <1>1, <1>2, TakeIs
  <1>5. message \in ToTool
    OBVIOUS
  <1> HIDE DEF taken, message
  <1>6. taken[<<n, "up">>] = contents[<<n, "up">>]
    BY <1>2, <1>4
  <1>7. /\ contents' = [p \in Starts \X Ways |-> contents'[p]]
        /\ contents'[<<n, "up">>] \in Seq(ToTool)
        /\ contents'[<<n, "up">>] = Append(taken[<<n, "up">>], message)
        /\ \A q \in Starts \X Ways : q # <<n, "up">> => contents'[q] = taken[q]
    <2>1. /\ taken = [q \in Starts \X Ways |-> taken[q]] /\ taken[<<n, "up">>] \in Seq(ToTool)
          /\ <<n, "up">> \in Starts \X Ways
      BY <1>1, <1>2, <1>4, <1>6
    <2>2. QED
      BY <1>3, <1>5, <2>1, PutIs
  <1>8. Len(contents'[<<n, "up">>]) = Len(contents[<<n, "up">>]) + 1
    BY <1>1, <1>6, <1>7
  <1>9. /\ \A k \in Starts, w \in Ways : k # n => contents'[<<k, w>>] = contents[<<k, w>>]
        /\ contents'[<<n, "down">>] = Tail(contents[<<n, "down">>])
    BY <1>2, <1>4, <1>7
  <1>10. QED
    BY <1>4, <1>7, <1>8, <1>9

\* The LVE answers a hello and asks for a certificate, or ends.
LEMMA StepAccept ==
  ASSUME ConnInv, NEW n \in Starts, Accept(n)
  PROVE  ConnInv'
  <1>0. /\ lves[n].state = "accepting"
        /\ UNCHANGED <<windows, pc, start, fds, kept, ends, saved, conns, before>>
    BY DEF Accept
  <1>1. CASE Ended(n) /\ contents' = contents
    BY <1>0, <1>1, EndedSilently
  <1>2. CASE /\ Reads(In(n), "hello") /\ Writable(Out(n)) /\ Answer(In(n), Out(n), "hello", lves[n].verify)
             /\ Becomes(n, "verifying")
    <2>1. /\ lves \in [Starts -> Process] /\ lves[n] \in Process
          /\ contents[<<n, "up">>] = <<>> /\ LveEnds(n)
      BY <1>0, ProcessIs
    <2>2. /\ In(n) = End(n, "down", "read") /\ Out(n) = End(n, "up", "write")
          /\ In(n)[2] = <<n, "down">> /\ Out(n)[2] = <<n, "up">>
          /\ In(n) # None /\ Out(n) # None
          /\ contents[<<n, "down">>] # <<>>
          /\ windows => lves[n].ends # <<>> /\ lves[n].ends.dr > 1
      BY <1>0, <1>2, OwnPipes
    <2>3. <<"hello", lves[n].verify>> \in ToTool
      BY <1>0, <2>1, Kinds DEF LveEnds, Asks
    <2>4. /\ contents' = [p \in Starts \X Ways |-> contents'[p]]
          /\ \A k \in Starts, w \in Ways : k # n => contents'[<<k, w>>] = contents[<<k, w>>]
          /\ contents'[<<n, "down">>] = Tail(contents[<<n, "down">>])
          /\ contents'[<<n, "up">>] \in Seq(ToTool)
          /\ Len(contents'[<<n, "up">>]) = Len(contents[<<n, "up">>]) + 1
      BY <1>2, <2>2, <2>3, AnswerIs
    <2>5. Len(contents'[<<n, "up">>]) <= 2 /\ Len(contents'[<<n, "up">>]) <= 1
      <3>1. Len(contents[<<n, "up">>]) = 0
        BY <2>1
      <3>2. QED
        BY <2>4, <3>1
    <2> DEFINE p == [lves[n] EXCEPT !.state = "verifying"]
    <2>6. p \in Process /\ p.ends = lves[n].ends /\ p.state = "verifying" /\ p.fds = lves[n].fds
          /\ p.verify = lves[n].verify
      BY <2>1 DEF Process
    <2>7. lves' = [lves EXCEPT ![n] = p]
      BY <1>2 DEF Becomes
    <2> HIDE DEF p
    <2>8. lves' \in [Starts -> Process] /\ lves'[n] = p /\ \A m \in Starts : m # n => lves'[m] = lves[m]
      BY <2>1, <2>6, <2>7
    <2>9. LveEnds(n)'
      <3>1. In(n)' = In(n) /\ Out(n)' = Out(n) /\ lves'[n].verify = "peer"
        BY <1>0, <2>1, <2>6, <2>8 DEF In, Out, LveEnds
      <3>2. windows' = windows /\ lves'[n].ends = lves[n].ends /\ lves'[n].state = "verifying"
        BY <1>0, <2>6, <2>8
      <3>3. QED
        BY <2>2, <3>1, <3>2 DEF LveEnds
    <2>10. lves[n].state # "none" /\ lves'[n].state \notin {"none", "forked", "started", "accepting"}
           /\ lves'[n].ends = lves[n].ends
      BY <1>0, <2>6, <2>8
    <2>11. QED
      BY <1>0, <2>2, <2>4, <2>5, <2>8, <2>9, <2>10, LveMoves
  <1>3. QED
    BY <1>1, <1>2 DEF Accept

\* The LVE takes the key out of the certificate and serves its owner, or
\* refuses it or ends.
LEMMA StepVerify ==
  ASSUME ConnInv, NEW n \in Starts, Verify(n)
  PROVE  ConnInv'
  <1> DEFINE x509 == Waiting(In(n))[2]
  <1>0. /\ lves[n].state = "verifying"
        /\ UNCHANGED <<windows, pc, start, fds, kept, ends, saved, conns, before>>
    BY DEF Verify
  <1>1. CASE Ended(n) /\ contents' = contents
    BY <1>0, <1>1, EndedSilently
  <1>2. ASSUME Reads(In(n), "certificate"), Writable(Out(n)), NEW key \in CertVerify(x509), NEW m,
               <<m, NULL>> \in ToTool, Answer(In(n), Out(n), m, NULL),
               \/ /\ x509 = NULL \/ key # NULL
                  /\ lves' = [lves EXCEPT ![n].state = "serving", ![n].peer = key]
               \/ Ended(n)
        PROVE  ConnInv'
    <2>1. /\ lves \in [Starts -> Process] /\ lves[n] \in Process
          /\ Len(contents[<<n, "up">>]) \in Nat /\ Len(contents[<<n, "up">>]) <= 1 /\ LveEnds(n)
          /\ contents[<<n, "down">>] \in Seq(ToLve)
      BY <1>0, ProcessIs
    <2>2. /\ In(n) = End(n, "down", "read") /\ Out(n) = End(n, "up", "write")
          /\ In(n)[2] = <<n, "down">> /\ Out(n)[2] = <<n, "up">>
          /\ In(n) # None /\ Out(n) # None
          /\ contents[<<n, "down">>] # <<>> /\ Head(contents[<<n, "down">>])[1] = "certificate"
          /\ windows => lves[n].ends # <<>> /\ lves[n].ends.dr > 1
      BY <1>0, <1>2, OwnPipes
    <2>3. /\ contents' = [p \in Starts \X Ways |-> contents'[p]]
          /\ \A k \in Starts, w \in Ways : k # n => contents'[<<k, w>>] = contents[<<k, w>>]
          /\ contents'[<<n, "down">>] = Tail(contents[<<n, "down">>])
          /\ contents'[<<n, "up">>] \in Seq(ToTool)
          /\ Len(contents'[<<n, "up">>]) = Len(contents[<<n, "up">>]) + 1
          /\ Head(contents[<<n, "down">>]) \in ToLve
      BY <1>2, <2>2, AnswerIs
    <2>4. Len(contents'[<<n, "up">>]) <= 2
      BY <2>1, <2>3
    <2>5. x509 = X509 /\ X509 # NULL
      <3>1. Waiting(In(n)) = Head(contents[<<n, "down">>])
        BY <2>2 DEF Waiting
      <3>2. QED
        BY <2>2, <2>3, <3>1, Kinds
    <2>6. CASE Ended(n)
      BY <1>0, <2>2, <2>3, <2>4, <2>6, EndedIs
    <2>7. CASE key # NULL /\ lves' = [lves EXCEPT ![n].state = "serving", ![n].peer = key]
      <3>1. key = ToolKey
        BY <1>2, <2>5, <2>7 DEF CertVerify, GetPublicKey, X509
      <3> DEFINE p == [lves[n] EXCEPT !.state = "serving", !.peer = ToolKey]
      <3>2. p \in Process /\ p.ends = lves[n].ends /\ p.state = "serving" /\ p.fds = lves[n].fds
            /\ p.verify = lves[n].verify /\ p.peer = ToolKey
        BY <2>1 DEF Process
      <3>3. lves' = [lves EXCEPT ![n] = p]
        BY <2>7, <3>1
      <3> HIDE DEF p
      <3>4. lves' \in [Starts -> Process] /\ lves'[n] = p /\ \A k \in Starts : k # n => lves'[k] = lves[k]
        BY <2>1, <3>2, <3>3
      <3>5. LveEnds(n)'
        <4>1. In(n)' = In(n) /\ Out(n)' = Out(n) /\ lves'[n].verify = "peer" /\ lves'[n].peer = ToolKey
          BY <1>0, <2>1, <3>2, <3>4 DEF In, Out, LveEnds
        <4>2. windows' = windows /\ lves'[n].ends = lves[n].ends /\ lves'[n].state = "serving"
          BY <1>0, <3>2, <3>4
        <4>3. QED
          BY <2>2, <4>1, <4>2 DEF LveEnds
      <3>6. lves[n].state # "none" /\ lves'[n].ends = lves[n].ends
            /\ lves'[n].state \notin {"none", "forked", "started", "accepting", "verifying"}
        BY <1>0, <3>2, <3>4
      <3>7. QED
        BY <1>0, <2>2, <2>3, <2>4, <3>4, <3>5, <3>6, LveMoves
    <2>8. QED
      BY <1>2, <2>5, <2>6, <2>7
  <1>3. <<"finished", NULL>> \in ToTool /\ <<"alert", NULL>> \in ToTool
    BY Kinds DEF Finished, Alert
  <1>4. QED
    BY <1>1, <1>2, <1>3 DEF Verify


-----------------------------------------------------------------------------
(* What holds of every behaviour.                                            *)

\* The invariant holds initially and every step keeps it.
THEOREM ConnectionsInvariant == Spec => []ConnInv
  <1>1. ASSUME ConnInv, [Next]_vars
        PROVE  ConnInv'
    <2>1. CASE StartExecutable
      BY <1>1, <2>1, StepStartExecutable
    <2>2. CASE StartStep
      BY <1>1, <2>2, StepOpenPipes, StepFork, StepSaveStreams, StepReplaceStreams, StepSpawnChild,
         StepRestoreStreams, StepSetupTool, StepSendHello, StepSendCertificate, StepReadFinished
         DEF StartStep
    <2>3. CASE ToolEnds
      BY <1>1, <2>3, DiesIs DEF ToolEnds
    <2>4. ASSUME NEW n \in Starts, FreeConnection(n)
          PROVE  ConnInv'
      BY <1>1, <2>4, StepFreeConnection
    <2>5. ASSUME NEW n \in Starts, LveStep(n)
          PROVE  ConnInv'
      <3>1. CASE Serve(n)
        BY <1>1, <3>1, EndedSilently DEF Serve
      <3>2. QED
        BY <1>1, <2>5, <3>1, StepChild, StepSetupLve, StepAccept, StepVerify DEF LveStep
    <2>6. ASSUME NEW n \in Starts, LveKilled(n)
          PROVE  ConnInv'
      BY <1>1, <2>6, EndedSilently DEF LveKilled, Alive
    <2>7. CASE UNCHANGED vars
      <3>1. UNCHANGED <<windows, pc, start, fds, kept, ends, saved, conns, lves, contents, before>>
        BY <2>7 DEF vars
      <3>2. ToolTypes' /\ LveTypes' /\ Unstarted' /\ Current' /\ ToolEndsOwn'
        BY <1>1, <3>1 DEF ConnInv, ToolTypes, LveTypes, Unstarted, Current, ToolEndsOwn, Live, Down, Up
      <3>3. Stage'
        BY <1>1, <3>1 DEF ConnInv, Stage, Piped, Live
      <3>4. LveEndsOwn' /\ Lengths'
        BY <1>1, <3>1 DEF ConnInv, LveEndsOwn, LveEnds, Lengths, Fill, In, Out, Down, Up
      <3>5. QED
        BY <3>2, <3>3, <3>4 DEF ConnInv
    <2>8. QED
      BY <1>1, <2>1, <2>2, <2>3, <2>4, <2>5, <2>6, <2>7 DEF Next
  <1>2. QED
    BY <1>1, ConnStarts, PTL DEF Spec

\* Every variable keeps to its type, and a connection that lives has two
\* descriptors of the tool (mlle_spawn, mlle_connections).
THEOREM ConnectionsTypeCorrect == Spec => []ConnectionsTypeOK
  <1>1. ConnInv => ConnectionsTypeOK
    <2> SUFFICES ASSUME ConnInv PROVE ConnectionsTypeOK
      OBVIOUS
    <2>1. pc \in Steps /\ start \in 0..MaxStarts
      BY DEF ConnInv, ToolTypes
    <2>2. \A fd \in Fds : fds[fd] \in {None, Stream(Stdin), Stream(Stdout), Stream(Stderr)}
             \cup {End(n, way, io) : n \in Starts, way \in {"down", "up"}, io \in {"read", "write"}}
      BY DEF ConnInv, ToolTypes, Tables, Values, Ways
    <2>3. \A n \in Starts : Live(n) => {conns[n].to, conns[n].from} \subseteq Fds
      BY DEF ConnInv, ToolEndsOwn
    <2>4. \A p \in DOMAIN contents : Len(contents[p]) <= 3
      <3>1. contents = [p \in Starts \X Ways |-> contents[p]]
        BY DEF ConnInv, LveTypes
      <3>2. ASSUME NEW n \in Starts
            PROVE  Len(contents[<<n, "down">>]) <= 3 /\ Len(contents[<<n, "up">>]) <= 3
        <4>1. Len(contents[<<n, "down">>]) <= 3
          BY DEF ConnInv, Lengths, Fill, Down
        <4>2. Len(contents[<<n, "up">>]) \in Nat /\ Len(contents[<<n, "up">>]) <= 2
          BY ProcessIs
        <4>3. QED
          BY <4>1, <4>2
      <3>3. DOMAIN contents = Starts \X Ways
        BY <3>1
      <3>4. ASSUME NEW p \in Starts \X Ways
            PROVE  Len(contents[p]) <= 3
        <4>1. PICK n \in Starts, w \in Ways : p = <<n, w>>
          OBVIOUS
        <4>2. CASE w = "down"
          BY <3>2, <4>1, <4>2
        <4>3. CASE w = "up"
          BY <3>2, <4>1, <4>3
        <4>4. QED
          BY <4>2, <4>3 DEF Ways
      <3>5. QED
        BY <3>3, <3>4
    <2>5. QED
      BY <2>1, <2>2, <2>3, <2>4 DEF ConnectionsTypeOK
  <1>2. QED
    BY <1>1, ConnectionsInvariant, PTL

\* A connection that lives has the ends of its own pipes, and an LVE that has
\* answered hears its own tool, which it serves under the key of its certificate
\* (mlle_connections, mlle_spawn, mlle_connections_free, cert_verify_callback).
THEOREM ConnectionsUseTheirOwnEnds == Spec => []OwnEnds
  <1>1. ConnInv => OwnEnds
    <2> SUFFICES ASSUME ConnInv PROVE OwnEnds
      OBVIOUS
    <2>1. \A n \in Starts : Live(n) /\ pc # "ended" =>
            fds[conns[n].to] = End(n, "down", "write") /\ fds[conns[n].from] = End(n, "up", "read")
      BY DEF ConnInv, ToolEndsOwn
    <2>2. \A n \in Starts : lves[n].state \in {"verifying", "serving"} =>
            In(n) = End(n, "down", "read") /\ Out(n) = End(n, "up", "write")
      BY DEF ConnInv, LveEndsOwn, LveEnds
    <2>3. \A n \in Starts : lves[n].state = "serving" => lves[n].peer = ToolKey
      BY DEF ConnInv, LveEndsOwn, LveEnds
    <2>4. QED
      BY <2>1, <2>2, <2>3 DEF OwnEnds
  <1>2. QED
    BY <1>1, ConnectionsInvariant, PTL

\* A start that ends with an open connection ends by the answer of its LVE.
LEMMA StartOpens ==
  ASSUME ConnInv, StartStep, pc' = "idle", conns'[start].ssl = "open"
  PROVE  /\ pc = "finished" \/ (pc = "certificate" /\ Up(start) # <<>>)
         /\ fds' = fds /\ conns'[start].to = conns[start].to /\ conns'[start].from = conns[start].from
  <1>1. pc # "idle" /\ start \in Starts
    <2>1. pc \in {"pipes", "fork", "save", "replace", "spawn", "restore", "setup", "hello",
                  "certificate", "finished"}
      BY DEF StartStep, OpenPipes, Fork, SaveStreams, ReplaceStreams, SpawnChild, RestoreStreams,
             SetupTool, SendHello, SendCertificate, ReadFinished
    <2>2. QED
      BY <2>1 DEF ConnInv, ToolTypes
  <1>2. ~Freed(start)
    <2>1. Freed(start) => conns'[start].ssl = "freed"
      BY <1>1, NewConnection DEF Freed, ConnInv, ToolTypes
    <2>2. QED
      BY <2>1
  <1>3. pc \in Early \cup {"restore"} => conns[start].ssl = "none"
    BY <1>1 DEF ConnInv, Unstarted, Early
  <1>4. conns' = conns => pc \notin Early \cup {"restore"}
    BY <1>3
  <1>5. CASE OpenPipes \/ Fork \/ SaveStreams \/ ReplaceStreams \/ SpawnChild \/ RestoreStreams
    <2>1. pc \in Early \cup {"restore"}
      BY <1>5 DEF OpenPipes, Fork, SaveStreams, ReplaceStreams, SpawnChild, RestoreStreams, Early
    <2>2. conns' = conns
      BY <1>5 DEF OpenPipes, Fork, SaveStreams, ReplaceStreams, SpawnChild, RestoreStreams, Connects, Go
    <2>3. QED
      BY <1>4, <2>1, <2>2
  <1>6. CASE SetupTool \/ SendHello
    BY <1>2, <1>6 DEF SetupTool, SendHello, WriteFails, Dies, Go
  <1>7. ASSUME Opened
        PROVE  fds' = fds /\ conns'[start].to = conns[start].to /\ conns'[start].from = conns[start].from
    BY <1>1, <1>7 DEF Opened, ConnInv, ToolTypes
  <1>8. CASE SendCertificate
    <2>1. pc = "certificate" /\ Reads(From, "hello") /\ Opened
      BY <1>2, <1>8 DEF SendCertificate, WriteFails, Dies, Go
    <2>2. From = <<"pipe", <<start, "up">>, "read">>
      BY <2>1, ThisConnection DEF Handshake
    <2>3. Up(start) # <<>>
      BY <2>1, <2>2 DEF Reads, Up
    <2>4. QED
      BY <1>7, <2>1, <2>3
  <1>9. CASE ReadFinished
    <2>1. pc = "finished" /\ Opened
      BY <1>2, <1>9 DEF ReadFinished
    <2>2. QED
      BY <1>7, <2>1
  <1>10. QED
    BY <1>5, <1>6, <1>8, <1>9 DEF StartStep

\* A start that succeeds changes nothing of the tool's descriptors but the ends
\* of the connection and, in the POSIX build, the end that is never closed again
\* (mlle_spawn of both builds).
THEOREM StartCostsNoMore == Spec => StartCosts
  <1> DEFINE cost == {conns'[start].to, conns'[start].from} \cup (IF windows THEN {} ELSE {ends.uw})
             A == pc # "idle" /\ pc' = "idle" /\ conns'[start].ssl = "open" =>
                    /\ \A fd \in cost : before[fd] = None
                    /\ \A fd \in Fds \ cost : fds'[fd] = before[fd]
  <1>1. ASSUME ConnInv, [Next]_vars
        PROVE  [A]_vars
    <2>1. CASE StartStep
      <3>1. SUFFICES ASSUME pc # "idle", pc' = "idle", conns'[start].ssl = "open"
                     PROVE  /\ \A fd \in cost : before[fd] = None
                            /\ \A fd \in Fds \ cost : fds'[fd] = before[fd]
        OBVIOUS
      <3>2. /\ pc = "finished" \/ (pc = "certificate" /\ Up(start) # <<>>)
            /\ fds' = fds /\ conns'[start].to = conns[start].to /\ conns'[start].from = conns[start].from
        BY <1>1, <2>1, <3>1, StartOpens
      <3>3. pc \in Handshake
        BY <3>2 DEF Handshake
      <3>4. /\ start \in Starts /\ conns[start].to = ends.dw /\ conns[start].from = ends.ur
            /\ lves[start].ends = ends
        BY <1>1, <3>3, ThisConnection
      <3>5. windows => ends.dr > 1
        BY <1>1, <3>2, <3>4 DEF ConnInv, Stage, LveEndsOwn, LveEnds
      <3>6. cost = {ends.dw, ends.ur} \cup (IF windows THEN {} ELSE {ends.uw})
        BY <3>2, <3>4
      <3> HIDE DEF cost
      <3>7. /\ \A fd \in Numbers(ends) : before[fd] = None
            /\ \A fd \in Fds \ ({ends.dw, ends.ur} \cup (IF windows THEN {} ELSE {ends.uw})) :
                 fds[fd] = before[fd]
        BY <1>1, <3>3, <3>5 DEF ConnInv, Stage
      <3>8. QED
        BY <3>2, <3>6, <3>7 DEF Numbers
    <2>2. CASE ~StartStep
      <3>1. pc = "idle" \/ pc' = pc \/ pc' = "ended" \/ UNCHANGED vars
        BY <1>1, <2>2 DEF Next, LveStep, StartExecutable, ToolEnds, Dies, Go, FreeConnection, Child, SetupLve,
                          Accept, Verify, Serve, LveKilled
      <3>2. QED
        BY <3>1
    <2>3. QED
      BY <2>1, <2>2
  <1>2. QED
    BY <1>1, ConnectionsInvariant, PTL DEF Spec, StartCosts
=================================================================================
