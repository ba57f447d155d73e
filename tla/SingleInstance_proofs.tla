----------------------- MODULE SingleInstance_proofs -----------------------
(***************************************************************************)
(* One daemon per project, for any number of daemons, stops and clients,   *)
(* and whatever overlaps: starts, ends, stops, kills and pruning reads.    *)
(*                                                                         *)
(* What no removal of a file can break is the lock itself: a daemon past   *)
(* it holds the file it opened (Held), wherever the path leads by then, so *)
(* two that serve have two files.  And what dead daemons leave can be told *)
(* from what living ones have: the registry and what was read from it name *)
(* daemons that have registered (Names), a start that comes to bind finds  *)
(* the socket taken only by one it met (Binding), and of two daemons that  *)
(* are alive each has met the other (Meetings).                            *)
(***************************************************************************)
EXTENDS SingleInstance, FiniteSetTheorems, TLAPS

\* A daemon's labels by what it has: a PID file that is open, and its lock.
Opening == {"lock", "write", "look", "probe", "reap", "bind", "register", "serve",
            "clean", "unregister", "unlink"}
Holding == (Opening \ {"lock"}) \cup {"exit"}
Labels == {"idle", "check", "open", "exit", "refused", "gone"} \cup Opening

\* What a stop has left of its clean-up: to unlink can only be the next thing.
CleanUps == {"socket", "pid", "unlink", "entry"}
Plans == {p \in Seq(CleanUps) : \A i \in 2 .. Len(p) : p[i] # "unlink"}

Types ==
  /\ pidPath \in PidFiles \cup {None}
  /\ written \in [PidFiles -> Daemons \cup {None}]
  /\ holder \in [PidFiles -> Daemons \cup {None}]
  /\ opened \in [Daemons -> PidFiles \cup {None}]
  /\ pc = [p \in Processes |-> pc[p]]
  /\ \A d \in Daemons : pc[d] \in Labels
  /\ plan = [s \in Stops |-> plan[s]]
  /\ \A s \in Stops : plan[s] \in Plans
  /\ met \subseteq Daemons

\* Who is past the lock holds the file it opened, and nobody else does.
Held ==
  /\ \A d \in Daemons :
       /\ pc[d] \in {"idle", "check", "open"} => opened[d] = None
       /\ pc[d] \in Opening \cup {"exit"} => opened[d] \in PidFiles
       /\ pc[d] \in Holding => holder[opened[d]] = d
  /\ \A n \in PidFiles : holder[n] # None =>
       pc[holder[n]] \in Holding /\ opened[holder[n]] = n

\* What was read is of the daemons, and only a daemon with a socket listens.
Reads ==
  /\ socket \in Daemons \cup {None} /\ registry \in Daemons \cup {None}
  /\ looked \in [Processes -> Daemons \cup {None}]
  /\ target \in [Stops -> Daemons \cup {None}]
  /\ asked \subseteq Daemons
  /\ listening \subseteq {d \in Daemons : pc[d] \in {"register", "serve"}}

\* The registry, and what was read from it, names nobody who has yet to register.
Registrants == {"serve", "clean", "unregister", "unlink", "exit", "gone"}
Named(e) == e # None => e \in Daemons /\ pc[e] \in Registrants
Names == Named(registry) /\ \A p \in Processes : Named(looked[p])

\* Of two daemons that are alive, the later one met the other as it began.
Meetings == \A d, e \in Alive : d # e => d \in met

\* A start that finds the socket taken after all has met who took it.
Binding == \A d \in Daemons : At(d, "bind") => socket = None \/ d \in met

-----------------------------------------------------------------------------
LEMMA FreshFile ==
  ASSUME Types, NEW d \in Daemons, opened[d] = None
  PROVE  NewFile \in PidFiles /\ \A e \in Daemons : opened[e] # NewFile
<1>. DEFINE others == Daemons \ {d}
            used == {opened[e] : e \in others}
<1>1. IsFiniteSet(Daemons) /\ Cardinality(Daemons) \in Nat
  BY InstanceAssumption, FS_CardinalityType
<1>2. IsFiniteSet(others) /\ Cardinality(others) = Cardinality(Daemons) - 1
  BY <1>1, FS_RemoveElement
<1>3. IsFiniteSet(used) /\ Cardinality(used) <= Cardinality(others)
  <2>1. [e \in others |-> opened[e]] \in Surjection(others, used)
    BY DEF Surjection
  <2>. QED BY <1>2, <2>1, FS_Surjection
<1>4. IsFiniteSet(PidFiles) /\ Cardinality(PidFiles) = Cardinality(Daemons)
  BY <1>1, FS_Interval DEF PidFiles
<1>5. ~(PidFiles \subseteq used)
  <2>1. Cardinality(used) \in Nat
    BY <1>3, FS_CardinalityType
  <2>2. Cardinality(used) < Cardinality(PidFiles)
    BY <1>1, <1>2, <1>3, <1>4, <2>1
  <2>3. PidFiles \subseteq used => Cardinality(PidFiles) <= Cardinality(used)
    BY <1>3, FS_Subset
  <2>. QED BY <1>1, <1>4, <2>1, <2>2, <2>3
<1>6. PICK n \in PidFiles : n \notin used
  BY <1>5
<1>7. \A e \in Daemons : opened[e] # n
  BY <1>6, InstanceAssumption DEF PidFiles
<1>. QED BY <1>6, <1>7 DEF NewFile

-----------------------------------------------------------------------------
(* The moves of the processes                                              *)

\* What a daemon does between the write of its pid and the removal of the file.
Between == Opening \ {"lock", "write"}
Works(d) ==
  \/ At(d, "look") /\ Look(d, "probe")
  \/ Probe(d) \/ Reap(d) \/ Bind(d) \/ Register(d)
  \/ Leave(d) \/ Fail(d) \/ Clean(d) \/ Unregister(d)

DaemonStep(d) ==
  \/ Start(d) \/ Check(d) \/ Open(d) \/ Lock(d) \/ Write(d) \/ Works(d) \/ Unlink(d)
  \/ d \in Alive /\ End(d)

OtherStep(p) == (p \in Stops /\ Stop(p)) \/ (p \in Clients /\ Client(p))

LEMMA Kinds ==
  ASSUME Next
  PROVE  (\E d \in Daemons : DaemonStep(d)) \/ (\E p \in Stops \cup Clients : OtherStep(p))
BY DEF Next, Daemon, DaemonStep, OtherStep, Works, Exit, Kill, Alive, Over, At

LEMMA Move ==
  ASSUME Types, NEW p \in Processes, NEW l, Goto(p, l)
  PROVE  /\ pc'[p] = l /\ \A r \in Processes : r # p => pc'[r] = pc[r]
         /\ pc' = [r \in Processes |-> pc'[r]]
<1>1. pc = [r \in Processes |-> pc[r]]
  BY DEF Types
<1>. QED BY <1>1 DEF Goto

LEMMA Kinships ==
  /\ Daemons \subseteq Processes /\ Stops \subseteq Processes /\ Clients \subseteq Processes
  /\ \A d \in Daemons : d \notin Stops /\ d \notin Clients /\ d # None
  /\ \A d \in Daemons : d \notin Stops \cup Clients
  /\ \A s \in Stops : s \notin Daemons /\ s \notin Clients
  /\ \A c \in Clients : c \notin Daemons /\ c \notin Stops
  /\ None \notin PidFiles /\ None \notin Daemons
BY InstanceAssumption DEF Processes, PidFiles

LEMMA Working ==
  ASSUME Types, NEW d \in Daemons, Works(d)
  PROVE  /\ UNCHANGED <<files, opened, stops, met>>
         /\ pc[d] \in Between /\ pc'[d] \in Between
         /\ \A p \in Processes : p # d => pc'[p] = pc[p]
         /\ pc' = [p \in Processes |-> pc'[p]]
<1>1. PICK l \in Between : Goto(d, l)
  BY DEF Works, Look, Probe, Reap, Bind, Register, Leave, Fail, Clean, Unregister, Between,
         Opening
<1>2. pc[d] \in Between /\ UNCHANGED <<files, opened, stops, met>>
  BY DEF Works, Look, Probe, Reap, Bind, Register, Leave, Fail, Clean, Unregister, Between,
         Opening, At
<1>3. d \in Processes
  BY Kinships
<1>. QED BY <1>1, <1>2, <1>3, Move

LEMMA DaemonMoves ==
  ASSUME Types, NEW d \in Daemons, DaemonStep(d)
  PROVE  \A p \in Processes : p # d => pc'[p] = pc[p]
BY Move, Working, Kinships DEF DaemonStep, Start, Check, Open, Lock, Write, Unlink, End

\* A stop or a client moves no daemon.
LEMMA OthersMove ==
  ASSUME Types, NEW p \in Stops \cup Clients, Stop(p) \/ Client(p)
  PROVE  /\ \A r \in Processes : r # p => pc'[r] = pc[r]
         /\ \A d \in Daemons : pc'[d] = pc[d]
         /\ pc' = [r \in Processes |-> pc'[r]]
         /\ UNCHANGED <<written, holder, opened, listening, met>>
         /\ pidPath' = pidPath \/ UnlinkStale(p)
         /\ registry' \in {registry, None} \cup {looked[q] : q \in Processes}
<1>1. UNCHANGED pc \/ \E l : Goto(p, l)
  BY DEF Stop, Client, Snapshot, Look, ProbeDaemon, Send, Wait, CheckPid, UnlinkStale,
         CleanSocket, RemoveEntry, Prune
<1>2. p \in Processes /\ p \notin Daemons
  BY Kinships
<1>3. /\ \A r \in Processes : r # p => pc'[r] = pc[r]
      /\ pc' = [r \in Processes |-> pc'[r]]
  BY <1>1, <1>2, Move DEF Types
<1>4. UNCHANGED <<written, holder, opened, listening, met>>
  BY DEF Stop, Client, Snapshot, Look, ProbeDaemon, Send, Wait, CheckPid, UnlinkStale,
         CleanSocket, RemoveEntry, Prune, files
<1>5. pidPath' = pidPath \/ UnlinkStale(p)
  BY DEF Stop, Client, Snapshot, Look, ProbeDaemon, Send, Wait, CheckPid, UnlinkStale,
         CleanSocket, RemoveEntry, Prune, files
<1>6. registry' \in {registry, None} \cup {looked[q] : q \in Processes}
  BY <1>2 DEF Stop, Client, Snapshot, Look, ProbeDaemon, Send, Wait, CheckPid, UnlinkStale,
         CleanSocket, RemoveEntry, Prune, files, Pruned
<1>. QED BY <1>2, <1>3, <1>4, <1>5, <1>6, Kinships

-----------------------------------------------------------------------------
(* Types, and who holds the lock                                           *)

\* What a daemon's own steps do to the PID files.
LEMMA DaemonTypes ==
  ASSUME Types, Held, NEW d \in Daemons, DaemonStep(d)
  PROVE  Types'
<1>. USE DEF DaemonStep
<1>. USE Kinships
<1>1. /\ pidPath' \in PidFiles \cup {None}
      /\ opened' \in [Daemons -> PidFiles \cup {None}]
  <2>1. CASE Open(d)
    <3>1. opened[d] = None
      BY <2>1 DEF Open, At, Held
    <3>. QED BY <2>1, <3>1, FreshFile DEF Open, Types
  <2>2. CASE ~Open(d)
    <3>1. opened' = opened /\ pidPath' \in {pidPath, None}
      BY <2>2, Working DEF Start, Check, Lock, Write, Unlink, End, files
    <3>. QED BY <3>1 DEF Types
  <2>. QED BY <2>1, <2>2
<1>2. holder' \in [PidFiles -> Daemons \cup {None}]
  <2>1. CASE Lock(d)
    BY <2>1 DEF Lock, Types
  <2>2. CASE d \in Alive /\ End(d)
    BY <2>2 DEF End, Types
  <2>3. CASE ~Lock(d) /\ ~(d \in Alive /\ End(d))
    <3>1. holder' = holder
      BY <2>3, Working DEF Start, Check, Open, Write, Unlink, files
    <3>. QED BY <3>1 DEF Types
  <2>. QED BY <2>1, <2>2, <2>3
<1>3. written' \in [PidFiles -> Daemons \cup {None}]
  <2>1. CASE Write(d)
    BY <2>1 DEF Write, Types
  <2>2. CASE ~Write(d)
    <3>1. written' = written
      BY <2>2, Working DEF Start, Check, Open, Lock, Unlink, End, files
    <3>. QED BY <3>1 DEF Types
  <2>. QED BY <2>1, <2>2
<1>4. pc' = [p \in Processes |-> pc'[p]] /\ \A e \in Daemons : pc'[e] \in Labels
  <2>1. CASE Works(d)
    BY <2>1, Working DEF Types, Between, Labels
  <2>2. CASE ~Works(d)
    <3>1. PICK l \in Labels : Goto(d, l)
      BY <2>2 DEF Start, Check, Open, Lock, Write, Unlink, End, Labels, Opening
    <3>2. d \in Processes
      OBVIOUS
    <3>3. /\ pc'[d] = l /\ \A r \in Processes : r # d => pc'[r] = pc[r]
          /\ pc' = [r \in Processes |-> pc'[r]]
      BY <3>1, <3>2, Move
    <3>. QED BY <3>3 DEF Types
  <2>. QED BY <2>1, <2>2
<1>5. plan' = plan /\ met' \subseteq Daemons
  <2>1. CASE Start(d)
    BY <2>1 DEF Start, Types, stops, Alive
  <2>2. CASE ~Start(d)
    BY <2>2, Working DEF Check, Open, Lock, Write, Unlink, End, Types, stops
  <2>. QED BY <2>1, <2>2
<1>. QED BY <1>1, <1>2, <1>3, <1>4, <1>5 DEF Types

LEMMA PlanSteps ==
  ASSUME NEW p \in Plans, p # <<>>
  PROVE  /\ Tail(p) \in Plans
         /\ Tail(p) # <<>> => Head(Tail(p)) # "unlink"
         /\ <<"unlink">> \o Tail(p) \in Plans
<1>1. /\ p \in Seq(CleanUps) /\ \A i \in 2 .. Len(p) : p[i] # "unlink"
      /\ Len(p) \in Nat \ {0}
  BY DEF Plans
<1>2. /\ Tail(p) \in Seq(CleanUps) /\ Len(Tail(p)) = Len(p) - 1
      /\ \A i \in 1 .. Len(p) - 1 : Tail(p)[i] = p[i + 1]
  BY <1>1
<1>3. \A i \in 1 .. Len(p) - 1 : Tail(p)[i] # "unlink"
  BY <1>1, <1>2
<1>. DEFINE t == Tail(p)
<1>4. t \in Plans
  <2>1. \A i \in 2 .. Len(t) : i \in 1 .. Len(p) - 1
    BY <1>1, <1>2
  <2>. QED BY <1>2, <1>3, <2>1 DEF Plans
<1>5. t # <<>> => Head(t) # "unlink"
  BY <1>1, <1>2, <1>3
<1>6. <<"unlink">> \o t \in Plans
  <2>1. <<"unlink">> \in Seq(CleanUps) /\ Len(<<"unlink">>) = 1
    BY DEF CleanUps
  <2>2. /\ <<"unlink">> \o t \in Seq(CleanUps) /\ Len(<<"unlink">> \o t) = Len(p)
        /\ \A i \in 2 .. Len(p) : (<<"unlink">> \o t)[i] = t[i - 1]
    BY <1>1, <1>2, <2>1
  <2>3. \A i \in 2 .. Len(p) : i - 1 \in 1 .. Len(p) - 1
    BY <1>1
  <2>. QED BY <1>3, <2>2, <2>3 DEF Plans
<1>. QED BY <1>4, <1>5, <1>6

LEMMA FirstPlans ==
  /\ <<"socket", "pid", "entry">> \in Plans /\ <<"pid", "socket", "entry">> \in Plans
  /\ <<>> \in Plans
<1>1. /\ <<"socket", "pid", "entry">> \in Seq(CleanUps)
      /\ <<"pid", "socket", "entry">> \in Seq(CleanUps)
      /\ Len(<<"socket", "pid", "entry">>) = 3 /\ Len(<<"pid", "socket", "entry">>) = 3
  BY DEF CleanUps
<1>2. \A i \in 2 .. 3 : i = 2 \/ i = 3
  OBVIOUS
<1>3. <<>> \in Seq(CleanUps) /\ Len(<<>>) = 0
  OBVIOUS
<1>. QED BY <1>1, <1>2, <1>3 DEF Plans

LEMMA StopPlans ==
  ASSUME Types, NEW s \in Stops, Stop(s)
  PROVE  plan' = [r \in Stops |-> plan'[r]] /\ \A r \in Stops : plan'[r] \in Plans
<1>1. CASE ProbeDaemon(s)
  BY <1>1, FirstPlans DEF ProbeDaemon, Types
<1>2. CASE CheckPid(s)
  <2>1. plan[s] \in Plans /\ plan[s] # <<>> /\ Head(plan[s]) = "pid"
    BY <1>2 DEF CheckPid, Types
  <2>2. Tail(plan[s]) \in Plans /\ <<"unlink">> \o Tail(plan[s]) \in Plans
    BY <2>1, PlanSteps
  <2>. QED BY <1>2, <2>2 DEF CheckPid, Planned, Types
<1>3. CASE UnlinkStale(s) \/ CleanSocket(s)
  <2>1. plan[s] \in Plans /\ plan[s] # <<>>
    BY <1>3 DEF UnlinkStale, CleanSocket, Types
  <2>2. Tail(plan[s]) \in Plans
    BY <2>1, PlanSteps
  <2>3. plan' = [plan EXCEPT ![s] = Tail(plan[s])]
    BY <1>3 DEF UnlinkStale, CleanSocket, Planned
  <2>. QED BY <2>2, <2>3 DEF Types
<1>4. CASE RemoveEntry(s)
  BY <1>4, FirstPlans DEF RemoveEntry, Planned, Types
<1>5. CASE UNCHANGED plan
  BY <1>5 DEF Types
<1>. QED
  BY <1>1, <1>2, <1>3, <1>4, <1>5 DEF Stop, Snapshot, Look, Send, Wait, stops

LEMMA OtherTypes ==
  ASSUME Types, NEW p \in Stops \cup Clients, OtherStep(p)
  PROVE  Types'
<1>. USE DEF OtherStep
<1>1. /\ pidPath' \in PidFiles \cup {None}
      /\ UNCHANGED <<written, holder, opened, met>>
      /\ pc' = [r \in Processes |-> pc'[r]] /\ \A d \in Daemons : pc'[d] = pc[d]
  BY OthersMove DEF Types, UnlinkStale
<1>2. plan' = [r \in Stops |-> plan'[r]] /\ \A r \in Stops : plan'[r] \in Plans
  <2>1. CASE Client(p)
    BY <2>1 DEF Client, Look, Prune, stops, Types
  <2>. QED BY <2>1, StopPlans
<1>. QED BY <1>1, <1>2 DEF Types

LEMMA DaemonKeepsHeld ==
  ASSUME Types, Held, NEW d \in Daemons, DaemonStep(d)
  PROVE  Held'
<1>. USE DEF DaemonStep
<1>1. /\ \A e \in Daemons : e # d => pc'[e] = pc[e]
      /\ \A n \in PidFiles : holder[n] # None => holder[n] \in Daemons
  BY DaemonMoves, Kinships DEF Types
<1>2. CASE Works(d) \/ Write(d) \/ Unlink(d)
  <2>1. UNCHANGED <<holder, opened>>
    BY <1>2, Working DEF Write, Unlink, files
  <2>2. pc[d] \in Opening \cap Holding /\ pc'[d] \in (Opening \cup {"exit"}) \cap Holding
    <3>1. CASE Works(d)
      BY <3>1, Working DEF Between, Holding, Opening
    <3>2. CASE Write(d) \/ Unlink(d)
      BY <3>2, Move, Kinships DEF Write, Unlink, At, Holding, Opening
    <3>. QED BY <1>2, <3>1, <3>2
  <2>3. \A l \in (Opening \cup {"exit"}) \cap Holding : l \notin {"idle", "check", "open"}
    BY DEF Opening, Holding
  <2>. QED BY <1>1, <2>1, <2>2, <2>3 DEF Held
<1>3. CASE Start(d) \/ Check(d)
  <2>1. UNCHANGED <<holder, opened>> /\ pc[d] \in {"idle", "check"}
    BY <1>3 DEF Start, Check, At, files
  <2>2. pc'[d] \in {"check", "open", "refused"}
    BY <1>3, Move, Kinships DEF Start, Check
  <2>3. pc'[d] \notin Opening \cup {"exit"} /\ pc[d] \notin Holding
    BY <2>1, <2>2 DEF Opening, Holding
  <2>4. "refused" \notin Holding /\ {"check", "open"} \cap Holding = {}
    BY DEF Opening, Holding
  <2>5. ASSUME NEW e \in Daemons
        PROVE  /\ pc'[e] \in {"idle", "check", "open"} => opened[e] = None
               /\ pc'[e] \in Opening \cup {"exit"} => opened[e] \in PidFiles
               /\ pc'[e] \in Holding => holder[opened[e]] = e
    BY <1>1, <2>1, <2>2, <2>3, <2>4 DEF Held
  <2>6. ASSUME NEW n \in PidFiles, holder[n] # None
        PROVE  pc'[holder[n]] \in Holding /\ opened[holder[n]] = n
    BY <1>1, <2>3, <2>6 DEF Held
  <2>. QED BY <2>1, <2>5, <2>6 DEF Held
<1>4. CASE Open(d)
  <2>1. PICK n \in PidFiles : opened' = [opened EXCEPT ![d] = n]
    <3>1. opened[d] = None
      BY <1>4 DEF Open, At, Held
    <3>. QED BY <1>4, <3>1, FreshFile DEF Open, Types
  <2>2. holder' = holder /\ pc'[d] = "lock" /\ pc[d] = "open"
    BY <1>4, Move, Kinships DEF Open, At
  <2>3. opened'[d] = n /\ \A e \in Daemons : e # d => opened'[e] = opened[e]
    BY <2>1 DEF Types
  <2>4. "open" \notin Holding
    BY DEF Holding, Opening
  <2>5. "lock" \notin Holding /\ "lock" \notin {"idle", "check", "open"}
    BY DEF Holding, Opening
  <2>6. ASSUME NEW e \in Daemons
        PROVE  /\ pc'[e] \in {"idle", "check", "open"} => opened'[e] = None
               /\ pc'[e] \in Opening \cup {"exit"} => opened'[e] \in PidFiles
               /\ pc'[e] \in Holding => holder[opened'[e]] = e
    BY <1>1, <2>2, <2>3, <2>5 DEF Held
  <2>7. ASSUME NEW m \in PidFiles, holder[m] # None
        PROVE  pc'[holder[m]] \in Holding /\ opened'[holder[m]] = m
    <3>1. holder[m] \in Daemons /\ pc[holder[m]] \in Holding /\ opened[holder[m]] = m
      BY <1>1, <2>7 DEF Held
    <3>2. holder[m] # d
      BY <2>2, <2>4, <3>1
    <3>. QED BY <1>1, <2>3, <3>1, <3>2
  <2>. QED BY <2>2, <2>6, <2>7 DEF Held
<1>5. CASE Lock(d)
  <2>1. opened' = opened /\ pc[d] = "lock" /\ opened[d] \in PidFiles
    BY <1>5 DEF Lock, At, Held, Opening
  <2>2. CASE holder[opened[d]] = None
    <3>1. pc'[d] = "write" /\ holder' = [holder EXCEPT ![opened[d]] = d]
      BY <1>5, <2>2, Move, Kinships DEF Lock
    <3>2. holder'[opened[d]] = d
          /\ \A n \in PidFiles : n # opened[d] => holder'[n] = holder[n]
      BY <2>1, <3>1 DEF Types
    <3>3. "write" \in Holding /\ "lock" \notin Holding
      BY DEF Holding, Opening
    <3>4. "write" \notin {"idle", "check", "open"}
      OBVIOUS
    <3>5. ASSUME NEW e \in Daemons
          PROVE  /\ pc'[e] \in {"idle", "check", "open"} => opened[e] = None
                 /\ pc'[e] \in Opening \cup {"exit"} => opened[e] \in PidFiles
                 /\ pc'[e] \in Holding => holder'[opened[e]] = e
      <4>1. CASE e = d
        BY <2>1, <3>1, <3>2, <3>4, <4>1
      <4>2. CASE e # d
        <5>1. pc'[e] = pc[e]
          BY <1>1, <4>2
        <5>2. pc[e] \in Holding => opened[e] \in PidFiles /\ holder[opened[e]] = e
          BY DEF Held, Holding
        <5>3. pc[e] \in Holding => opened[e] # opened[d]
          BY <2>2, <5>2, Kinships
        <5>. QED BY <3>2, <5>1, <5>2, <5>3 DEF Held
      <4>. QED BY <4>1, <4>2
    <3>6. ASSUME NEW n \in PidFiles, holder'[n] # None
          PROVE  pc'[holder'[n]] \in Holding /\ opened[holder'[n]] = n
      <4>1. CASE n = opened[d]
        BY <3>1, <3>2, <3>3, <4>1
      <4>2. CASE n # opened[d]
        <5>1. holder'[n] = holder[n] /\ holder[n] \in Daemons
          BY <1>1, <3>2, <3>6, <4>2
        <5>2. pc[holder[n]] \in Holding /\ opened[holder[n]] = n
          BY <3>6, <5>1 DEF Held
        <5>3. holder[n] # d
          BY <4>2, <5>2
        <5>. QED BY <1>1, <5>1, <5>2, <5>3
      <4>. QED BY <4>1, <4>2
    <3>. QED BY <2>1, <3>5, <3>6 DEF Held
  <2>3. CASE holder[opened[d]] # None
    <3>1. pc'[d] = "refused" /\ holder' = holder
      BY <1>5, <2>3, Move, Kinships DEF Lock
    <3>2. "lock" \notin Holding /\ "refused" \notin Opening \cup Holding
      BY DEF Holding, Opening
    <3>3. ASSUME NEW e \in Daemons
          PROVE  /\ pc'[e] \in {"idle", "check", "open"} => opened[e] = None
                 /\ pc'[e] \in Opening \cup {"exit"} => opened[e] \in PidFiles
                 /\ pc'[e] \in Holding => holder[opened[e]] = e
      BY <1>1, <3>1, <3>2 DEF Held
    <3>4. ASSUME NEW n \in PidFiles, holder[n] # None
          PROVE  pc'[holder[n]] \in Holding /\ opened[holder[n]] = n
      BY <1>1, <2>1, <3>2, <3>4 DEF Held
    <3>. QED BY <2>1, <3>1, <3>3, <3>4 DEF Held
  <2>. QED BY <2>2, <2>3
<1>6. CASE d \in Alive /\ End(d)
  <2>1. /\ opened' = opened /\ pc'[d] = "gone"
        /\ holder' = [n \in PidFiles |-> IF holder[n] = d THEN None ELSE holder[n]]
    BY <1>6, Move, Kinships DEF End
  <2>2. "gone" \notin Opening \cup Holding
    BY DEF Opening, Holding
  <2>3. ASSUME NEW e \in Daemons
        PROVE  /\ pc'[e] \in {"idle", "check", "open"} => opened[e] = None
               /\ pc'[e] \in Opening \cup {"exit"} => opened[e] \in PidFiles
               /\ pc'[e] \in Holding => holder'[opened[e]] = e
    <3>1. CASE e = d
      BY <2>1, <2>2, <3>1
    <3>2. CASE e # d
      <4>1. pc'[e] = pc[e]
        BY <1>1, <3>2
      <4>2. pc[e] \in Holding => opened[e] \in PidFiles /\ holder[opened[e]] = e
        BY DEF Held, Holding
      <4>. QED BY <2>1, <3>2, <4>1, <4>2 DEF Held
    <3>. QED BY <3>1, <3>2
  <2>4. ASSUME NEW n \in PidFiles, holder'[n] # None
        PROVE  pc'[holder'[n]] \in Holding /\ opened[holder'[n]] = n
    <3>1. holder'[n] = holder[n] /\ holder[n] # d /\ holder[n] \in Daemons
      BY <1>1, <2>1, <2>4
    <3>. QED BY <1>1, <2>4, <3>1 DEF Held
  <2>. QED BY <2>1, <2>3, <2>4 DEF Held
<1>. QED BY <1>2, <1>3, <1>4, <1>5, <1>6

-----------------------------------------------------------------------------
(* What the processes read and listen to                                   *)

LEMMA DaemonKeepsReads ==
  ASSUME Types, Reads, NEW d \in Daemons, DaemonStep(d)
  PROVE  Reads'
<1>. USE DEF DaemonStep
<1>1. \A e \in Daemons : e # d => pc'[e] = pc[e]
  BY DaemonMoves, Kinships
<1>2. UNCHANGED <<target, asked>>
  BY Working DEF Start, Check, Open, Lock, Write, Unlink, End, stops
<1>3. socket' \in {socket, None, d} /\ registry' \in {registry, None, d, looked[d]}
  BY DEF Start, Check, Open, Lock, Write, Works, Look, Probe, Pruned, Reap, Bind, Register,
         Leave, Fail, Clean, Unregister, Unlink, End
<1>4. looked' \in [Processes -> Daemons \cup {None}]
  BY DEF Start, Check, Open, Lock, Write, Works, Look, Probe, Reap, Bind, Register, Leave,
         Fail, Clean, Unregister, Unlink, End, Reads
<1>5. listening' \subseteq {e \in Daemons : pc'[e] \in {"register", "serve"}}
  <2>1. CASE d \notin listening'
    <3>1. listening' \subseteq listening \cup {d}
      BY DEF Start, Check, Open, Lock, Write, Works, Look, Probe, Reap, Bind, Register,
             Leave, Fail, Clean, Unregister, Unlink, End
    <3>. QED BY <1>1, <2>1, <3>1 DEF Reads
  <2>2. CASE d \in listening'
    <3>1. ~Leave(d) /\ ~Fail(d) /\ ~End(d)
      BY <2>2 DEF Leave, Fail, End
    <3>2. CASE Bind(d) /\ socket = None
      BY <1>1, <3>2, Move, Kinships DEF Bind, Reads
    <3>3. CASE ~(Bind(d) /\ socket = None)
      <4>1. listening' = listening
        BY <3>1, <3>3 DEF Start, Check, Open, Lock, Write, Works, Look, Probe, Reap, Bind,
                          Register, Clean, Unregister, Unlink
      <4>2. pc[d] \in {"register", "serve"}
        BY <2>2, <4>1 DEF Reads
      <4>3. Register(d)
        BY <3>1, <4>2 DEF Start, Check, Open, Lock, Write, Works, Probe, Reap, Bind,
                          Clean, Unregister, Unlink, At
      <4>4. pc'[d] = "serve"
        BY <4>3, Move, Kinships DEF Register
      <4>. QED BY <1>1, <4>1, <4>4 DEF Reads
    <3>. QED BY <3>2, <3>3
  <2>. QED BY <2>1, <2>2
<1>6. looked[d] \in Daemons \cup {None}
  BY Kinships DEF Reads
<1>. QED BY <1>2, <1>3, <1>4, <1>5, <1>6 DEF Reads

LEMMA OthersKeepReads ==
  ASSUME Types, Held, Reads, NEW p \in Stops \cup Clients, OtherStep(p)
  PROVE  Held' /\ Reads'
<1>. USE DEF OtherStep
<1>1. /\ \A d \in Daemons : pc'[d] = pc[d]
      /\ UNCHANGED <<holder, opened, listening>> /\ registry' \in {registry, None} \cup {looked[q] : q \in Processes}
  BY OthersMove
<1>2. \A n \in PidFiles : holder[n] # None => holder[n] \in Daemons
  BY DEF Types
<1>3. socket' \in {socket, None}
  BY DEF Stop, Client, Snapshot, Look, ProbeDaemon, Send, Wait, CheckPid, UnlinkStale,
         CleanSocket, RemoveEntry, Prune
<1>4. looked' \in [Processes -> Daemons \cup {None}]
  BY DEF Stop, Client, Snapshot, Look, ProbeDaemon, Send, Wait, CheckPid, UnlinkStale,
         CleanSocket, RemoveEntry, Prune, Reads
<1>5. target' \in [Stops -> Daemons \cup {None}]
  BY DEF Stop, Client, Snapshot, Look, ProbeDaemon, Send, Wait, CheckPid, UnlinkStale,
         CleanSocket, RemoveEntry, Prune, Reads, stops
<1>6. asked' \subseteq Daemons
  BY DEF Stop, Client, Snapshot, Look, ProbeDaemon, Send, Wait, CheckPid, UnlinkStale,
         CleanSocket, RemoveEntry, Prune, Reads, Connects, stops
<1>. QED BY <1>1, <1>2, <1>3, <1>4, <1>5, <1>6 DEF Held, Reads

-----------------------------------------------------------------------------
(* Who is named, and who met whom                                          *)

LEMMA DaemonKeepsNames ==
  ASSUME Types, Reads, Names, NEW d \in Daemons, DaemonStep(d)
  PROVE  Names'
<1>. USE DEF DaemonStep
<1>1. \A e \in Daemons : e # d => pc'[e] = pc[e]
  BY DaemonMoves, Kinships
<1>2. CASE Register(d)
  <2>1. registry' = d /\ pc'[d] = "serve" /\ looked' = looked
    BY <1>2, Move, Kinships DEF Register
  <2>. QED BY <1>1, <2>1 DEF Names, Named, Registrants
<1>3. CASE ~Register(d)
  <2>1. registry' \in {registry, None, looked[d]}
    BY <1>3 DEF Start, Check, Open, Lock, Write, Works, Look, Probe, Pruned, Reap, Bind,
                Leave, Fail, Clean, Unregister, Unlink, End
  <2>2. pc[d] \in Registrants => pc'[d] \in Registrants
    <3>1. CASE Works(d)
      <4>1. CASE Leave(d) \/ Fail(d) \/ Clean(d) \/ Unregister(d)
        BY <4>1, Move, Kinships DEF Leave, Fail, Clean, Unregister, Registrants
      <4>2. CASE (At(d, "look") /\ Look(d, "probe")) \/ Probe(d) \/ Reap(d) \/ Bind(d)
        BY <4>2 DEF Probe, Reap, Bind, At, Registrants
      <4>. QED BY <1>3, <3>1, <4>1, <4>2 DEF Works
    <3>2. CASE Unlink(d) \/ End(d)
      BY <3>2, Move, Kinships DEF Unlink, End, Registrants
    <3>3. CASE Start(d) \/ Check(d) \/ Open(d) \/ Lock(d) \/ Write(d)
      BY <3>3 DEF Start, Check, Open, Lock, Write, At, Registrants
    <3>. QED BY <3>1, <3>2, <3>3
  <2>3. looked' = looked \/ looked' = [looked EXCEPT ![d] = registry]
    BY DEF Start, Check, Open, Lock, Write, Works, Look, Probe, Reap, Bind, Register, Leave,
           Fail, Clean, Unregister, Unlink, End
  <2>4. \A e : Named(e) => Named(e)'
    BY <1>1, <2>2 DEF Named
  <2>5. Named(registry) /\ Named(looked[d]) /\ Named(None)
    BY Kinships DEF Names, Named
  <2>6. Named(registry)'
    BY <2>1, <2>4, <2>5 DEF Named
  <2>7. ASSUME NEW p \in Processes PROVE Named(looked[p])'
    <3>1. Named(looked[p]) /\ looked'[p] \in {looked[p], registry}
      BY <2>3 DEF Names, Reads
    <3>. QED BY <2>4, <2>5, <3>1 DEF Named
  <2>. QED BY <2>6, <2>7 DEF Names
<1>. QED BY <1>2, <1>3

LEMMA DaemonKeepsMeetings ==
  ASSUME Types, Meetings, NEW d \in Daemons, DaemonStep(d)
  PROVE  Meetings'
<1>. USE DEF DaemonStep
<1>1. \A e \in Daemons : e # d => pc'[e] = pc[e]
  BY DaemonMoves, Kinships
<1>2. CASE Start(d)
  <2>1. Alive' \subseteq Alive \cup {d}
    BY <1>1 DEF Alive
  <2>. QED BY <1>2, <2>1 DEF Start, Meetings
<1>3. CASE ~Start(d)
  <2>1. pc[d] \notin Over
    BY <1>3, Working DEF Check, Open, Lock, Write, Unlink, Alive, Over, At, Between, Opening
  <2>2. Alive' \subseteq Alive
    BY <1>1, <2>1 DEF Alive
  <2>3. met' = met
    BY <1>3, Working DEF Check, Open, Lock, Write, Unlink, End
  <2>. QED BY <2>2, <2>3 DEF Meetings
<1>. QED BY <1>2, <1>3

\* A start comes to bind when there is no socket or a living one, and another daemon
\* that takes the socket meanwhile is alive with it.
LEMMA DaemonKeepsBinding ==
  ASSUME Types, Reads, Meetings, Binding, NEW d \in Daemons, DaemonStep(d)
  PROVE  Binding'
<1>. USE DEF DaemonStep
<1>1. \A e \in Daemons : e # d => pc'[e] = pc[e]
  BY DaemonMoves, Kinships
<1>2. met \subseteq met'
  BY Working DEF Start, Check, Open, Lock, Write, Unlink, End
<1>3. ASSUME NEW e \in Daemons, e # d, pc'[e] = "bind"
      PROVE  socket' = None \/ e \in met'
  <2>1. pc[e] = "bind" /\ (socket = None \/ e \in met)
    BY <1>1, <1>3 DEF Binding, At
  <2>2. CASE Bind(d)
    <3>1. e \in Alive /\ d \in Alive
      BY <2>1, <2>2 DEF Bind, At, Alive, Over
    <3>. QED BY <1>2, <1>3, <3>1 DEF Meetings
  <2>3. CASE ~Bind(d)
    <3>1. socket' \in {socket, None}
      BY <2>3 DEF Start, Check, Open, Lock, Write, Works, Look, Probe, Reap, Register, Leave,
                  Fail, Clean, Unregister, Unlink, End
    <3>. QED BY <1>2, <2>1, <3>1
  <2>. QED BY <2>2, <2>3
<1>4. ASSUME pc'[d] = "bind"
      PROVE  socket' = None \/ d \in met'
  <2>1. CASE Works(d)
    <3>1. CASE Probe(d)
      <4>1. socket' = socket /\ pc[d] = "probe" /\ Connects
        BY <1>4, <3>1, Move, Kinships DEF Probe, At
      <4>2. socket \in Daemons /\ pc[socket] \in {"register", "serve"}
        BY <4>1 DEF Connects, Reads
      <4>3. socket \in Alive /\ d \in Alive /\ socket # d
        BY <4>1, <4>2 DEF Alive, Over
      <4>. QED BY <1>2, <4>3 DEF Meetings
    <3>2. CASE Reap(d)
      BY <3>2 DEF Reap
    <3>3. CASE ~Probe(d) /\ ~Reap(d)
      <4>1. /\ Bind(d) => pc'[d] \in {"register", "unlink"}
            /\ Register(d) => pc'[d] = "serve"
            /\ Leave(d) => pc'[d] = "clean"
            /\ Fail(d) => pc'[d] = "unlink"
            /\ Clean(d) => pc'[d] = "unregister"
            /\ Unregister(d) => pc'[d] = "unlink"
            /\ Look(d, "probe") => pc'[d] = "probe"
        BY Move, Kinships DEF Bind, Register, Leave, Fail, Clean, Unregister, Look
      <4>. QED BY <1>4, <2>1, <3>3, <4>1 DEF Works
    <3>. QED BY <3>1, <3>2, <3>3
  <2>2. CASE Write(d)
    BY <1>4, <2>2, Move, Kinships DEF Write
  <2>3. CASE ~Works(d) /\ ~Write(d)
    <3>1. /\ Start(d) => pc'[d] = "check"
          /\ Check(d) => pc'[d] \in {"refused", "open"}
          /\ Open(d) => pc'[d] = "lock"
          /\ Lock(d) => pc'[d] \in {"write", "refused"}
          /\ Unlink(d) => pc'[d] = "exit"
          /\ End(d) => pc'[d] = "gone"
      BY Move, Kinships DEF Start, Check, Open, Lock, Unlink, End
    <3>. QED BY <1>4, <2>3, <3>1
  <2>. QED BY <2>1, <2>2, <2>3
<1>. QED BY <1>3, <1>4 DEF Binding, At

LEMMA OthersKeepNames ==
  ASSUME Types, Reads, Names, Meetings, Binding, NEW p \in Stops \cup Clients, OtherStep(p)
  PROVE  Names' /\ Meetings' /\ Binding'
<1>. USE DEF OtherStep
<1>1. /\ \A d \in Daemons : pc'[d] = pc[d]
      /\ registry' \in {registry, None} \cup {looked[q] : q \in Processes} /\ met' = met
  BY OthersMove
<1>2. Alive' = Alive
  BY <1>1 DEF Alive
<1>3. socket' \in {socket, None}
  BY DEF Stop, Client, Snapshot, Look, ProbeDaemon, Send, Wait, CheckPid, UnlinkStale,
         CleanSocket, RemoveEntry, Prune
<1>4. Meetings' /\ Binding'
  BY <1>1, <1>2, <1>3 DEF Meetings, Binding, At
<1>5. \A e : Named(e) => Named(e)'
  BY <1>1 DEF Named
<1>6. Named(registry) /\ Named(None) /\ \A q \in Processes : Named(looked[q])
  BY Kinships DEF Names, Named
<1>7. Named(registry)'
  BY <1>1, <1>5, <1>6 DEF Named
<1>8. looked' = looked \/ looked' = [looked EXCEPT ![p] = registry]
  BY DEF Stop, Client, Snapshot, Look, ProbeDaemon, Send, Wait, CheckPid, UnlinkStale,
         CleanSocket, RemoveEntry, Prune
<1>9. ASSUME NEW q \in Processes PROVE Named(looked[q])'
  <2>1. looked'[q] \in {looked[q], registry}
    BY <1>8 DEF Reads
  <2>. QED BY <1>5, <1>6, <2>1 DEF Named
<1>. QED BY <1>4, <1>7, <1>9 DEF Names

-----------------------------------------------------------------------------
(* The invariant, and the theorems                                         *)

Instance == Types /\ Held /\ Reads /\ Names /\ Meetings /\ Binding

LEMMA InitInstance == Init => Instance
<1>. SUFFICES ASSUME Init PROVE Instance
  OBVIOUS
<1>. USE Kinships
<1>1. \A d \in Daemons : pc[d] = "idle" /\ opened[d] = None
  BY DEF Init
<1>2. \A s \in Stops : pc[s] = "idle" /\ plan[s] = <<>>
  BY DEF Init
<1>3. Types
  BY <1>1, <1>2, FirstPlans DEF Init, Types, Labels
<1>4. Held /\ Reads
  BY <1>1 DEF Init, Held, Reads, Opening, Holding
<1>5. Names /\ Meetings /\ Binding
  BY <1>1 DEF Init, Names, Named, Meetings, Binding, Alive, Over, At
<1>. QED BY <1>3, <1>4, <1>5 DEF Instance

LEMMA StepInstance == Instance /\ [Next]_vars => Instance'
<1>. SUFFICES ASSUME Instance, [Next]_vars PROVE Instance'
  OBVIOUS
<1>. USE DEF Instance
<1>1. ASSUME NEW d \in Daemons, DaemonStep(d)
      PROVE  Instance'
  BY <1>1, DaemonTypes, DaemonKeepsHeld, DaemonKeepsReads, DaemonKeepsNames,
     DaemonKeepsMeetings, DaemonKeepsBinding
<1>2. ASSUME NEW p \in Stops \cup Clients, OtherStep(p)
      PROVE  Instance'
  BY <1>2, OtherTypes, OthersKeepReads, OthersKeepNames
<1>3. CASE UNCHANGED vars
  <2>1. Types' /\ Held' /\ Reads'
    BY <1>3 DEF vars, files, stops, Types, Held, Reads
  <2>2. Names' /\ Meetings' /\ Binding'
    BY <1>3 DEF vars, files, stops, Names, Named, Meetings, Binding, Alive, At
  <2>. QED BY <2>1, <2>2
<1>4. CASE Next
  BY <1>1, <1>2, <1>4, Kinds
<1>. QED BY <1>3, <1>4

\* Whatever overlaps, the locked files, the sockets that listen and what was read
\* are the daemons': a lock is a living daemon's on the file it opened, even when the
\* path leads to another file by now.
THEOREM InstanceTypes == Spec => []TypeOK
<1>1. Instance => TypeOK
  <2>. SUFFICES ASSUME Instance PROVE TypeOK
    OBVIOUS
  <2>. USE DEF Instance
  <2>1. Holding \cap Over = {} /\ {"register", "serve"} \cap Over = {}
    BY DEF Holding, Opening, Over
  <2>2. \A n \in PidFiles : holder[n] # None => holder[n] \in Alive /\ opened[holder[n]] = n
    BY <2>1 DEF Types, Held, Alive
  <2>3. listening \subseteq Alive
    BY <2>1 DEF Reads, Alive
  <2>. QED BY <2>2, <2>3 DEF Types, Reads, TypeOK
<1>. QED BY <1>1, InitInstance, StepInstance, PTL DEF Spec

\* Of any number of daemons, at most one serves with the PID file that is at the path,
\* whatever starts, ends, stops or is killed meanwhile: the lock (try_lock_file) is
\* exclusive on a file, so that two daemons can only serve one project after somebody
\* removed the file of one of them (PidGuard's drop, cleanup_stale_pid).
THEOREM OneServesAtThePath == Spec => []OneAtThePath
<1>1. Instance => OneAtThePath
  <2>. SUFFICES ASSUME Instance PROVE OneAtThePath
    OBVIOUS
  <2>. DEFINE served == {d \in Serving : opened[d] = pidPath}
  <2>1. \A d, e \in served : d = e
    BY DEF Instance, Held, Serving, At, Holding, Opening
  <2>2. CASE served = {}
    BY <2>2, FS_EmptySet DEF OneAtThePath
  <2>3. CASE served # {}
    <3>1. PICK d : served = {d}
      BY <2>1, <2>3
    <3>2. Cardinality(served) = 1
      BY <3>1, FS_Singleton
    <3>. QED BY <3>2 DEF OneAtThePath
  <2>. QED BY <2>2, <2>3
<1>. QED BY <1>1, InitInstance, StepInstance, PTL DEF Spec

\* A start is refused only by a daemon that was alive with it: neither the socket,
\* the PID file nor the entry of a dead one is taken for a living one's, whatever
\* overlaps and whatever a pruning read writes back.
THEOREM OnlyTheLivingRefuse == Spec => RefusedByTheLiving
<1>. DEFINE A == \A d \in Daemons :
       pc[d] \in {"check", "lock", "bind"} /\ pc'[d] \in {"refused", "unlink"} => d \in met
<1>1. Instance /\ [Next]_vars => [A]_vars
  <2>. SUFFICES ASSUME Instance, Next, NEW d \in Daemons,
                       pc[d] \in {"check", "lock", "bind"}, pc'[d] \in {"refused", "unlink"}
                PROVE  d \in met
    OBVIOUS
  <2>. USE DEF Instance
  <2>1. pc'[d] # pc[d] /\ d \in Alive
    BY DEF Alive, Over
  <2>2. Check(d) \/ Lock(d) \/ Bind(d)
    <3>1. ASSUME NEW p \in Stops \cup Clients, OtherStep(p)
          PROVE  FALSE
      BY <3>1, <2>1, OthersMove DEF OtherStep
    <3>2. ASSUME NEW e \in Daemons, DaemonStep(e)
          PROVE  e = d
      BY <3>2, <2>1, DaemonMoves, Kinships
    <3>3. DaemonStep(d)
      BY <3>1, <3>2, Kinds
    <3>4. ~Start(d) /\ ~Open(d) /\ ~Write(d) /\ ~Unlink(d)
      BY DEF Start, Open, Write, Unlink, At
    <3>5. ~(d \in Alive /\ End(d))
      BY Move, Kinships DEF End
    <3>6. Works(d) => Bind(d)
      BY DEF Works, Look, Probe, Reap, Register, Leave, Fail, Clean, Unregister, At
    <3>. QED BY <3>3, <3>4, <3>5, <3>6 DEF DaemonStep
  <2>3. CASE Check(d)
    <3>1. pc[d] = "check" /\ registry \in Alive
      BY <2>3, Move, Kinships DEF Check, At
    <3>2. registry # d
      BY <3>1, Kinships DEF Names, Named, Registrants
    <3>. QED BY <2>1, <3>1, <3>2 DEF Meetings
  <2>4. CASE Lock(d)
    <3>1. pc[d] = "lock" /\ holder[opened[d]] # None /\ opened[d] \in PidFiles
      BY <2>4, Move, Kinships DEF Lock, At, Held, Opening
    <3>2. /\ holder[opened[d]] \in Daemons /\ pc[holder[opened[d]]] \in Holding
      BY <3>1 DEF Held, Types
    <3>3. "lock" \notin Holding /\ Holding \cap Over = {}
      BY DEF Holding, Opening, Over
    <3>4. holder[opened[d]] \in Alive /\ holder[opened[d]] # d
      BY <3>1, <3>2, <3>3 DEF Alive
    <3>. QED BY <2>1, <3>4 DEF Meetings
  <2>5. CASE Bind(d)
    <3>1. pc[d] = "bind" /\ (socket = None => pc'[d] = "register")
      BY <2>5, Move, Kinships DEF Bind, At
    <3>2. socket # None
      BY <3>1
    <3>. QED BY <3>1, <3>2 DEF Binding, At
  <2>. QED BY <2>2, <2>3, <2>4, <2>5
<1>. QED BY <1>1, InitInstance, StepInstance, PTL DEF Spec, RefusedByTheLiving
=============================================================================
