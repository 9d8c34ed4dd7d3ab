------------------------ MODULE ServiceLifecycleProofs ------------------------
(***************************************************************************)
(* Theorems about ServiceLifecycle for any number of loops, connections,   *)
(* slots, dependencies and refreshers.                                     *)
(***************************************************************************)
EXTENDS ServiceLifecycle, TLAPS, FiniteSetTheorems

Where(S, f, A) == {u \in S : f[u] \in A}

\* How many of S are where A says, before and after one of them moves.
LEMMA Moved ==
  ASSUME NEW S, IsFiniteSet(S), NEW A, NEW f, NEW g, NEW t \in S,
         \A u \in S \ {t} : g[u] = f[u]
  PROVE  /\ Cardinality(Where(S, f, A)) \in Nat /\ Cardinality(Where(S, g, A)) \in Nat
         /\ (f[t] \in A <=> g[t] \in A) => Cardinality(Where(S, g, A)) = Cardinality(Where(S, f, A))
         /\ f[t] \notin A /\ g[t] \in A =>
              Cardinality(Where(S, g, A)) = Cardinality(Where(S, f, A)) + 1
         /\ f[t] \in A /\ g[t] \notin A =>
              /\ Cardinality(Where(S, g, A)) = Cardinality(Where(S, f, A)) - 1
              /\ Cardinality(Where(S, f, A)) > 0
<1> DEFINE B == Where(S, f, A)
           C == Where(S, g, A)
<1>1. IsFiniteSet(B) /\ IsFiniteSet(C)
  BY FS_Subset DEF Where
<1>2. Cardinality(B) \in Nat /\ Cardinality(C) \in Nat
  BY <1>1, FS_CardinalityType
<1>3. ASSUME f[t] \in A <=> g[t] \in A PROVE C = B
  BY <1>3 DEF Where
<1>4. ASSUME f[t] \notin A, g[t] \in A PROVE Cardinality(C) = Cardinality(B) + 1
  <2>1. C = B \cup {t} /\ t \notin B
    BY <1>4 DEF Where
  <2> QED BY <2>1, <1>1, FS_AddElement
<1>5. ASSUME f[t] \in A, g[t] \notin A
      PROVE  Cardinality(C) = Cardinality(B) - 1 /\ Cardinality(B) > 0
  <2>1. C = B \ {t} /\ t \in B
    BY <1>5 DEF Where
  <2>2. Cardinality(C) = Cardinality(B) - 1
    BY <2>1, <1>1, FS_RemoveElement
  <2>3. B # {}
    BY <2>1
  <2>4. Cardinality(B) # 0
    BY <2>3, <1>1, FS_EmptySet
  <2> QED BY <2>2, <2>4, <1>2
<1> QED BY <1>2, <1>3, <1>4, <1>5

LEMMA NoneThere ==
  ASSUME NEW S, IsFiniteSet(S), NEW A, NEW f, Cardinality(Where(S, f, A)) = 0
  PROVE  \A u \in S : f[u] \notin A
<1>1. IsFiniteSet(Where(S, f, A))
  BY FS_Subset DEF Where
<1>2. Where(S, f, A) = {}
  BY <1>1, FS_EmptySet
<1> QED BY <1>2 DEF Where

-----------------------------------------------------------------------------
(* The invariant.                                                          *)

Holding == {"header", "over"} \cup Serving

Counted(at) == Cardinality(Where(Loops, at, Admitted))
Served(at)  == Cardinality(Where(Conns, at, Serving))
Held(at)    == Cardinality(Where(Conns, at, Holding))

\* TypeOK, but for the bounds of slots, which SlotsCounted gives.
Typed ==
  /\ shutdown \in BOOLEAN /\ life \in {"RUNNING", "DRAINING", "STOPPED"}
  /\ active \in Nat
  /\ stop \in {"none", "clear", "set"}
  /\ main \in {"install", "spawn", "serve", "close", "join", "drain", "mark", "exit", "clean", "error"}
  /\ stopped \in BOOLEAN /\ expired \in BOOLEAN
  /\ loop \in [Loops -> {"none", "dead"} \cup Alive]
  /\ shown \in [Loops -> [started: BOOLEAN, alive: BOOLEAN, ok: {"never", "yes", "no"}, late: BOOLEAN]]
  /\ conn \in [Conns -> {"none", "header", "over"} \cup Serving]
  /\ avail \in [Deps -> BOOLEAN]
  /\ probed \in [Refreshers -> {Nothing} \cup [Deps -> BOOLEAN]]
  /\ faults \in 0 .. MaxFaults

\* Every connection in the process holds a slot.
SlotsCounted == slots \in Nat /\ slots + Held(conn) = Slots

OpsCounted == active = Counted(loop) + Served(conn)

\* Before Spawn there are no loops, and a service without a stop event has
\* none that live.
LoopsBegin ==
  /\ main \in {"install", "spawn"} => \A t \in Loops : loop[t] = "none"
  /\ stop = "none" => \A t \in Loops : loop[t] \in {"none", "dead"}

\* How far the main thread is says what it has seen.
MainKnows ==
  /\ main \in {"close", "join", "drain", "mark", "clean", "error"} => shutdown
  /\ main \in {"drain", "mark"} =>
       IF stopped THEN \A t \in Loops : loop[t] \in {"none", "dead"} ELSE expired
  /\ main = "mark" => active = 0

\* STOPPED is said after the shutdown, by the main thread, of a quiet service.
StoppedTells ==
  life = "STOPPED" =>
    /\ shutdown /\ main \in {"drain", "mark", "clean", "error"}
    /\ active = 0 /\ \A t \in Loops : loop[t] \in {"none", "dead"}

\* What a loop shows of itself.
LoopShown(t) ==
  /\ loop[t] \in {"none", "new", "flagged", "refused"} => shown[t].ok = "never"
  /\ loop[t] \in {"ending", "gone", "dead"} => ~shown[t].alive

IInv ==
  /\ Typed /\ SlotsCounted /\ OpsCounted /\ LoopsBegin /\ MainKnows /\ StoppedTells
  /\ ExitIsTrue /\ \A t \in Loops : LoopShown(t)

LEMMA InitInv == Init => IInv
<1> SUFFICES ASSUME Init PROVE IInv
  OBVIOUS
<1>1. /\ \A t \in Loops : loop[t] = "none" /\ shown[t].ok = "never"
      /\ \A c \in Conns : conn[c] = "none"
  BY DEF Init
<1>2. Counted(loop) = 0
  <2>1. Where(Loops, loop, Admitted) = {}
    BY <1>1 DEF Admitted, Where
  <2> QED BY <2>1, FS_EmptySet DEF Counted
<1>3. Served(conn) = 0 /\ Held(conn) = 0
  <2>1. Where(Conns, conn, Serving) = {} /\ Where(Conns, conn, Holding) = {}
    BY <1>1 DEF Serving, Holding, Where
  <2> QED BY <2>1, FS_EmptySet DEF Served, Held
<1>4. Typed
  <2>1. probed \in [Refreshers -> {Nothing} \cup [Deps -> BOOLEAN]]
    BY DEF Init
  <2>2. shown \in [Loops -> [started: BOOLEAN, alive: BOOLEAN, ok: {"never", "yes", "no"}, late: BOOLEAN]]
    BY DEF Init
  <2>3. faults \in 0 .. MaxFaults
    BY Sizes DEF Init
  <2>4. avail \in [Deps -> BOOLEAN] /\ loop \in [Loops -> {"none"}] /\ conn \in [Conns -> {"none"}]
    BY DEF Init
  <2> QED BY <2>1, <2>2, <2>3, <2>4 DEF Init, Typed
<1>5. SlotsCounted /\ OpsCounted
  BY <1>2, <1>3, Sizes DEF Init, SlotsCounted, OpsCounted
<1>6. LoopsBegin /\ MainKnows /\ StoppedTells /\ ExitIsTrue /\ \A t \in Loops : LoopShown(t)
  BY <1>1 DEF Init, LoopsBegin, MainKnows, StoppedTells, ExitIsTrue, LoopShown
<1> QED BY <1>4, <1>5, <1>6 DEF IInv

LEMMA IdleMeans ==
  ASSUME IInv, active = 0
  PROVE  /\ \A t \in Loops : loop[t] \notin Admitted
         /\ \A c \in Conns : conn[c] \notin Serving
<1>1. /\ Counted(loop) \in Nat /\ Served(conn) \in Nat
  <2>1. IsFiniteSet(Where(Loops, loop, Admitted)) /\ IsFiniteSet(Where(Conns, conn, Serving))
    BY Sizes, FS_Subset DEF Where
  <2> QED BY <2>1, FS_CardinalityType DEF Counted, Served
<1>2. Counted(loop) = 0 /\ Served(conn) = 0
  BY <1>1 DEF IInv, OpsCounted
<1>3. \A t \in Loops : loop[t] \notin Admitted
  BY <1>2, Sizes, NoneThere DEF Counted
<1>4. \A c \in Conns : conn[c] \notin Serving
  BY <1>2, Sizes, NoneThere DEF Served
<1> QED BY <1>3, <1>4

-----------------------------------------------------------------------------
(* The main thread.                                                        *)

\* What does not move keeps what is counted.
LEMMA Recounted ==
  ASSUME IInv, UNCHANGED <<active, loop, conn, slots>>
  PROVE  SlotsCounted' /\ OpsCounted'
<1>1. loop' = loop /\ conn' = conn /\ active' = active /\ slots' = slots
  OBVIOUS
<1>2. Counted(loop)' = Counted(loop) /\ Served(conn)' = Served(conn) /\ Held(conn)' = Held(conn)
  BY <1>1 DEF Counted, Served, Held
<1> QED BY <1>1, <1>2 DEF IInv, SlotsCounted, OpsCounted

\* Idle is what STOPPED says.
LEMMA MarkIsTrue ==
  ASSUME IInv, Mark, main \notin {"install", "spawn", "serve", "clean", "error"},
         UNCHANGED <<shutdown, active, loop>>,
         main' \in {"drain", "mark", "clean", "error"}
  PROVE  StoppedTells' /\ life' \in {"RUNNING", "DRAINING", "STOPPED"}
<1>1. life' \in {"RUNNING", "DRAINING", "STOPPED"}
  BY DEF Mark, IInv, Typed
<1>2. ASSUME AliveLoops = {} PROVE \A t \in Loops : loop[t] \in {"none", "dead"}
  BY <1>2 DEF AliveLoops, IInv, Typed
<1>3. CASE life' = life
  BY <1>1, <1>3 DEF IInv, StoppedTells
<1>4. CASE shutdown /\ Idle
  BY <1>1, <1>2, <1>4 DEF StoppedTells, Idle
<1> QED BY <1>1, <1>3, <1>4 DEF Mark

LEMMA MainInv == ASSUME IInv, MainStep \/ Signal \/ ServeEnds \/ Expire PROVE IInv'
<1> USE DEF IInv
<1>1. CASE StartCheck
  <2>1. SlotsCounted' /\ OpsCounted'
    BY <1>1, Recounted DEF StartCheck, service
  <2>2. Typed' /\ LoopsBegin' /\ MainKnows' /\ StoppedTells' /\ ExitIsTrue'
    BY <1>1 DEF StartCheck, service, health, Typed, LoopsBegin, MainKnows, StoppedTells, ExitIsTrue
  <2>3. \A t \in Loops : LoopShown(t)'
    BY <1>1 DEF StartCheck, LoopShown
  <2> QED BY <2>1, <2>2, <2>3
<1>2. CASE Spawn
  <2>1. /\ \A t \in Loops : loop[t] = "none" /\ loop'[t] = "new"
        /\ conn' = conn /\ active' = active /\ slots' = slots
    BY <1>2 DEF Spawn, LoopsBegin
  <2>2. Counted(loop') = Counted(loop)
    <3>1. Where(Loops, loop, Admitted) = Where(Loops, loop', Admitted)
      BY <2>1 DEF Admitted, Where
    <3> QED BY <3>1 DEF Counted
  <2>3. SlotsCounted' /\ OpsCounted'
    BY <2>1, <2>2 DEF SlotsCounted, OpsCounted, Served, Held, Counted
  <2>4. Typed'
    BY <1>2 DEF Spawn, service, health, Typed, Alive
  <2>5. LoopsBegin' /\ MainKnows' /\ StoppedTells' /\ ExitIsTrue'
    BY <1>2 DEF Spawn, LoopsBegin, MainKnows, StoppedTells, ExitIsTrue
  <2>6. \A t \in Loops : LoopShown(t)'
    BY <1>2, <2>1 DEF Spawn, LoopShown
  <2> QED BY <2>3, <2>4, <2>5, <2>6
<1>3. CASE Signal \/ Expire
  <2>1. SlotsCounted' /\ OpsCounted'
    BY <1>3, Recounted DEF Signal, Expire, service
  <2>2. Typed'
    BY <1>3 DEF Signal, Expire, RequestShutdown, service, process, health, Typed
  <2>3. LoopsBegin' /\ MainKnows' /\ StoppedTells' /\ ExitIsTrue'
    BY <1>3 DEF Signal, Expire, RequestShutdown, service, process, Typed,
                LoopsBegin, MainKnows, StoppedTells, ExitIsTrue
  <2>4. \A t \in Loops : LoopShown(t)'
    BY <1>3 DEF Signal, Expire, LoopShown
  <2> QED BY <2>1, <2>2, <2>3, <2>4
<1>4. CASE ServeEnds
  <2>1. SlotsCounted' /\ OpsCounted'
    BY <1>4, Recounted DEF ServeEnds
  <2>2. Typed'
    BY <1>4 DEF ServeEnds, RequestShutdown, health, Typed
  <2>3. LoopsBegin' /\ MainKnows' /\ StoppedTells' /\ ExitIsTrue'
    BY <1>4 DEF ServeEnds, RequestShutdown, Typed, LoopsBegin, MainKnows, StoppedTells, ExitIsTrue
  <2>4. \A t \in Loops : LoopShown(t)'
    BY <1>4 DEF ServeEnds, LoopShown
  <2> QED BY <2>1, <2>2, <2>3, <2>4
<1>5. CASE StopWorkers
  <2>1. SlotsCounted' /\ OpsCounted'
    BY <1>5, Recounted DEF StopWorkers
  <2>2. StoppedTells' /\ life' \in {"RUNNING", "DRAINING", "STOPPED"}
    <3>1. CASE Mark /\ main' = "drain"
      BY <1>5, <3>1, MarkIsTrue DEF StopWorkers
    <3>2. CASE UNCHANGED life
      BY <1>5, <3>2 DEF StopWorkers, StoppedTells, Typed
    <3> QED BY <1>5, <3>1, <3>2 DEF StopWorkers
  <2>3. Typed'
    BY <1>5, <2>2 DEF StopWorkers, health, Typed
  <2>4. LoopsBegin' /\ MainKnows' /\ ExitIsTrue'
    BY <1>5 DEF StopWorkers, LoopsBegin, MainKnows, ExitIsTrue
  <2>5. \A t \in Loops : LoopShown(t)'
    BY <1>5 DEF StopWorkers, LoopShown
  <2> QED BY <2>1, <2>2, <2>3, <2>4, <2>5
<1>6. CASE Join
  <2>1. SlotsCounted' /\ OpsCounted'
    BY <1>6, Recounted DEF Join
  <2>2. StoppedTells' /\ life' \in {"RUNNING", "DRAINING", "STOPPED"}
    BY <1>6, MarkIsTrue DEF Join
  <2>3. AliveLoops = {} => \A t \in Loops : loop[t] \in {"none", "dead"}
    BY DEF AliveLoops, Typed
  <2>4. Typed'
    BY <1>6, <2>2 DEF Join, health, Typed
  <2>5. LoopsBegin' /\ MainKnows' /\ ExitIsTrue'
    BY <1>6, <2>3 DEF Join, LoopsBegin, MainKnows, ExitIsTrue
  <2>6. \A t \in Loops : LoopShown(t)'
    BY <1>6 DEF Join, LoopShown
  <2> QED BY <2>1, <2>2, <2>4, <2>5, <2>6
<1>7. CASE Drained \/ DrainExpires
  <2>1. SlotsCounted' /\ OpsCounted'
    BY <1>7, Recounted DEF Drained, DrainExpires, service
  <2>2. Typed'
    BY <1>7 DEF Drained, DrainExpires, service, health, Typed
  <2>3. LoopsBegin' /\ MainKnows' /\ StoppedTells' /\ ExitIsTrue'
    BY <1>7 DEF Drained, DrainExpires, service, LoopsBegin, MainKnows, StoppedTells, ExitIsTrue
  <2>4. \A t \in Loops : LoopShown(t)'
    BY <1>7 DEF Drained, DrainExpires, LoopShown
  <2> QED BY <2>1, <2>2, <2>3, <2>4
<1>8. CASE MarkDrained
  <2>1. SlotsCounted' /\ OpsCounted'
    BY <1>8, Recounted DEF MarkDrained
  <2>2. StoppedTells' /\ life' \in {"RUNNING", "DRAINING", "STOPPED"}
    BY <1>8, MarkIsTrue DEF MarkDrained
  <2>3. Typed'
    BY <1>8, <2>2 DEF MarkDrained, health, Typed
  <2>4. LoopsBegin' /\ MainKnows'
    BY <1>8 DEF MarkDrained, LoopsBegin, MainKnows
  <2>5. ExitIsTrue'
    <3>1. stopped => Idle
      BY <1>8 DEF MarkDrained, MainKnows, Idle, AliveLoops, Alive
    <3> QED BY <1>8, <3>1 DEF MarkDrained, MainKnows, ExitIsTrue, Mark
  <2>6. \A t \in Loops : LoopShown(t)'
    BY <1>8 DEF MarkDrained, LoopShown
  <2> QED BY <2>1, <2>2, <2>3, <2>4, <2>5, <2>6
<1> QED BY <1>1, <1>2, <1>3, <1>4, <1>5, <1>6, <1>7, <1>8 DEF MainStep

-----------------------------------------------------------------------------
(* The background loops.                                                   *)

\* A loop that lives goes on, and the operations stay counted.
LEMMA LoopGoes ==
  ASSUME IInv, NEW t \in Loops, NEW to \in {"dead"} \cup Alive, loop[t] \in Alive,
         loop' = [loop EXCEPT ![t] = to], OnlyLoops,
         IF loop[t] \in Admitted <=> to \in Admitted THEN active' = active
         ELSE IF to \in Admitted THEN Begin ELSE End
  PROVE  /\ SlotsCounted' /\ OpsCounted' /\ LoopsBegin' /\ MainKnows' /\ StoppedTells' /\ ExitIsTrue'
         /\ active' \in Nat /\ loop' \in [Loops -> {"none", "dead"} \cup Alive]
<1> USE DEF IInv
<1>1. /\ loop'[t] = to /\ \A u \in Loops \ {t} : loop'[u] = loop[u]
      /\ loop' \in [Loops -> {"none", "dead"} \cup Alive]
  BY DEF Typed
<1>2. loop[t] \notin {"none", "dead"}
  BY DEF Alive
<1>3. SlotsCounted'
  <2>1. conn' = conn /\ slots' = slots
    BY DEF OnlyLoops
  <2> QED BY <2>1 DEF SlotsCounted, Held
<1>4. /\ Counted(loop) \in Nat /\ Counted(loop') \in Nat
      /\ (loop[t] \in Admitted <=> to \in Admitted) => Counted(loop') = Counted(loop)
      /\ loop[t] \notin Admitted /\ to \in Admitted => Counted(loop') = Counted(loop) + 1
      /\ loop[t] \in Admitted /\ to \notin Admitted => Counted(loop') = Counted(loop) - 1 /\ Counted(loop) > 0
  <2>1. IsFiniteSet(Loops)
    BY Sizes
  <2> DEFINE before == Cardinality(Where(Loops, loop, Admitted))
             after  == Cardinality(Where(Loops, loop', Admitted))
  <2>2. /\ before \in Nat /\ after \in Nat
        /\ (loop[t] \in Admitted <=> loop'[t] \in Admitted) => after = before
        /\ loop[t] \notin Admitted /\ loop'[t] \in Admitted => after = before + 1
        /\ loop[t] \in Admitted /\ loop'[t] \notin Admitted => after = before - 1 /\ before > 0
    <3>1. t \in Loops /\ \A u \in Loops \ {t} : loop'[u] = loop[u]
      BY <1>1
    <3> HIDE DEF IInv
    <3> QED BY <2>1, <3>1, Moved
  <2> QED BY <1>1, <2>2 DEF Counted
<1>5. Served(conn) \in Nat /\ Served(conn)' = Served(conn)
  <2>1. IsFiniteSet(Where(Conns, conn, Serving))
    BY Sizes, FS_Subset DEF Where
  <2>2. conn' = conn
    BY DEF OnlyLoops
  <2> QED BY <2>1, <2>2, FS_CardinalityType DEF Served
<1>6. active = Counted(loop) + Served(conn)
  BY DEF OpsCounted
<1>7. OpsCounted' /\ active' \in Nat
  <2>1. active' = Counted(loop') + Served(conn)
    BY <1>4, <1>5, <1>6 DEF Begin, End
  <2>2. Counted(loop)' = Counted(loop')
    BY DEF Counted
  <2> QED BY <2>1, <2>2, <1>4, <1>5 DEF OpsCounted
<1>8. shutdown => active' <= active
  BY <1>4, <1>5, <1>6 DEF Begin, Open, End
<1>9. LoopsBegin' /\ StoppedTells' /\ ExitIsTrue'
  BY <1>2 DEF OnlyLoops, process, LoopsBegin, StoppedTells, ExitIsTrue
<1>10. MainKnows'
  <2>1. main' = "mark" => active' = 0
    BY <1>7, <1>8 DEF OnlyLoops, process, MainKnows, Typed
  <2> QED BY <2>1, <1>2 DEF OnlyLoops, process, MainKnows
<1> QED BY <1>1, <1>3, <1>7, <1>9, <1>10

\* What a loop shows keeps its type and is true.
LEMMA LoopSays ==
  ASSUME IInv, NEW t \in Loops, NEW row,
         row \in [started: BOOLEAN, alive: BOOLEAN, ok: {"never", "yes", "no"}, late: BOOLEAN],
         shown' = [shown EXCEPT ![t] = row], \A u \in Loops \ {t} : loop'[u] = loop[u],
         loop'[t] \in {"none", "new", "flagged", "refused"} => row.ok = "never",
         loop'[t] \in {"ending", "gone", "dead"} => ~row.alive
  PROVE  /\ shown' \in [Loops -> [started: BOOLEAN, alive: BOOLEAN, ok: {"never", "yes", "no"}, late: BOOLEAN]]
         /\ \A u \in Loops : LoopShown(u)'
<1>1. shown \in [Loops -> [started: BOOLEAN, alive: BOOLEAN, ok: {"never", "yes", "no"}, late: BOOLEAN]]
  BY DEF IInv, Typed
<1>2. /\ shown'[t] = row /\ \A u \in Loops \ {t} : shown'[u] = shown[u]
      /\ shown' \in [Loops -> [started: BOOLEAN, alive: BOOLEAN, ok: {"never", "yes", "no"}, late: BOOLEAN]]
  BY <1>1
<1>3. ASSUME NEW u \in Loops PROVE LoopShown(u)'
  BY <1>2 DEF IInv, LoopShown
<1> QED BY <1>2, <1>3

LEMMA LoopInv == ASSUME IInv, NEW t \in Loops, LoopStep(t) \/ LoopFault(t) PROVE IInv'
<1> DEFINE Shapes == [started: BOOLEAN, alive: BOOLEAN, ok: {"never", "yes", "no"}, late: BOOLEAN]
<1>1. shown[t] \in Shapes /\ LoopShown(t) /\ faults \in 0 .. MaxFaults
  BY DEF IInv, Typed
<1>2. ASSUME NEW from \in Alive, NEW to \in {"dead"} \cup Alive, Goes(t, from, to)
      PROVE  /\ loop[t] = from /\ loop' = [loop EXCEPT ![t] = to]
             /\ loop'[t] = to /\ \A u \in Loops \ {t} : loop'[u] = loop[u]
  BY <1>2 DEF Goes, IInv, Typed
\* A step of t that counts as LoopGoes says, and shows what LoopSays allows.
<1>3. ASSUME NEW from \in Alive, NEW to \in {"dead"} \cup Alive, Goes(t, from, to), OnlyLoops,
             IF from \in Admitted <=> to \in Admitted THEN active' = active
             ELSE IF to \in Admitted THEN Begin ELSE End,
             NEW row \in Shapes, Show(t, row),
             to \in {"none", "new", "flagged", "refused"} => row.ok = "never",
             to \in {"ending", "gone", "dead"} => ~row.alive,
             UNCHANGED health, faults' \in 0 .. MaxFaults
      PROVE  IInv'
  <2>1. /\ loop[t] = from /\ loop' = [loop EXCEPT ![t] = to]
        /\ loop'[t] = to /\ \A u \in Loops \ {t} : loop'[u] = loop[u]
    BY <1>2, <1>3
  <2>2. /\ SlotsCounted' /\ OpsCounted' /\ LoopsBegin' /\ MainKnows' /\ StoppedTells' /\ ExitIsTrue'
        /\ active' \in Nat /\ loop' \in [Loops -> {"none", "dead"} \cup Alive]
    BY <1>3, <2>1, LoopGoes
  <2>3. shown' \in [Loops -> Shapes] /\ \A u \in Loops : LoopShown(u)'
    BY <1>3, <2>1, LoopSays DEF Show
  <2>4. Typed'
    BY <1>3, <2>2, <2>3 DEF IInv, Typed, OnlyLoops, process, health
  <2> QED BY <2>2, <2>3, <2>4 DEF IInv
<1>4. ASSUME UNCHANGED shown PROVE Show(t, shown[t])
  <2>1. shown = [u \in Loops |-> shown[u]]
    BY DEF IInv, Typed
  <2> QED BY <1>4, <2>1 DEF Show
<1>5. CASE LoopShows(t)
  <2>1. Goes(t, "new", "flagged")
    BY <1>5 DEF LoopShows
  <2>2. shown[t].ok = "never"
    BY <1>1, <2>1 DEF LoopShown, Goes
  <2> DEFINE row == [shown[t] EXCEPT !.started = TRUE, !.alive = TRUE]
  <2>3. row \in Shapes /\ row.ok = "never"
    BY <1>1, <2>2
  <2>4. "new" \in Alive \ Admitted /\ "flagged" \in Alive \ Admitted
    BY DEF Alive, Admitted
  <2>5. OnlyLoops /\ active' = active /\ UNCHANGED <<health, faults>> /\ Show(t, row)
    BY <1>5 DEF LoopShows
  <2> HIDE DEF row, Shapes
  <2>6. /\ "flagged" \notin {"ending", "gone", "dead"} /\ faults' \in 0 .. MaxFaults
        /\ UNCHANGED health
    BY <1>1, <2>5
  <2> QED BY <1>3, <2>1, <2>3, <2>4, <2>5, <2>6
<1>6. CASE LoopAdmitted(t)
  <2>1. "flagged" \in Alive \ Admitted /\ "top" \in Alive /\ "top" \in Admitted
    BY DEF Alive, Admitted
  <2>2. Goes(t, "flagged", "top") /\ Begin /\ OnlyLoops /\ UNCHANGED <<shown, health, faults>>
    BY <1>6 DEF LoopAdmitted
  <2> HIDE DEF Shapes
  <2> QED BY <1>1, <1>3, <1>4, <2>1, <2>2
<1>7. CASE LoopRefused(t)
  <2>1. "flagged" \in Alive \ Admitted /\ "refused" \in Alive \ Admitted
    BY DEF Alive, Admitted
  <2>2. Goes(t, "flagged", "refused") /\ OnlyLoops /\ UNCHANGED <<active, shown, health, faults>>
    BY <1>7 DEF LoopRefused
  <2>3. shown[t].ok = "never"
    BY <1>1, <2>2 DEF LoopShown, Goes
  <2> HIDE DEF Shapes
  <2> QED BY <1>1, <1>3, <1>4, <2>1, <2>2, <2>3
<1>8. CASE Iterate(t) \/ Wakes(t) \/ LeavesLoop(t)
  <2>1. {"top", "busy", "wait", "leaving"} \subseteq Alive \cap Admitted
    BY DEF Alive, Admitted
  <2>2. /\ OnlyLoops /\ UNCHANGED <<active, shown, health, faults>>
        /\ \/ Goes(t, "top", "busy") \/ Goes(t, "wait", "top")
           \/ Goes(t, "top", "leaving")
    BY <1>8 DEF Iterate, Wakes, LeavesLoop
  <2> HIDE DEF Shapes
  <2> QED BY <1>1, <1>3, <1>4, <2>1, <2>2
<1>9. CASE IterationDone(t) \/ IterationRaises(t)
  <2>1. {"busy", "wait"} \subseteq Alive \cap Admitted
    BY DEF Alive, Admitted
  <2>2. /\ OnlyLoops /\ UNCHANGED <<active, health>> /\ Goes(t, "busy", "wait")
    BY <1>9 DEF IterationDone, IterationRaises
  <2>3. faults' \in 0 .. MaxFaults
    BY <1>1, <1>9, Sizes DEF IterationDone, IterationRaises
  <2>4. PICK row \in Shapes : Show(t, row)
    <3>1. /\ [shown[t] EXCEPT !.ok = "yes", !.late = FALSE] \in Shapes
          /\ [shown[t] EXCEPT !.ok = "no", !.late = FALSE] \in Shapes
      BY <1>1
    <3> HIDE DEF Shapes
    <3> QED BY <1>9, <3>1 DEF IterationDone, IterationRaises
  <2>5. "wait" \notin {"none", "new", "flagged", "refused", "ending", "gone", "dead"}
    OBVIOUS
  <2> HIDE DEF Shapes
  <2> QED BY <1>3, <2>1, <2>2, <2>3, <2>4, <2>5
<1>10. CASE Unwinds(t)
  <2>1. /\ "leaving" \in Alive \cap Admitted /\ "ending" \in Alive \cap Admitted
        /\ "refused" \in Alive \ Admitted /\ "gone" \in Alive \ Admitted
    BY DEF Alive, Admitted
  <2> DEFINE row == [shown[t] EXCEPT !.alive = FALSE, !.late = FALSE]
  <2>2. row \in Shapes /\ ~row.alive
    BY <1>1
  <2>3. /\ Goes(t, "leaving", "ending") \/ Goes(t, "refused", "gone")
        /\ Show(t, row) /\ OnlyLoops /\ UNCHANGED <<active, health, faults>>
    BY <1>10 DEF Unwinds, ShownDead
  <2>4. "ending" \notin {"none", "new", "flagged", "refused"} /\ "gone" \notin {"none", "new", "flagged", "refused"}
    OBVIOUS
  <2>5. UNCHANGED health /\ active' = active /\ faults' \in 0 .. MaxFaults
    BY <1>1, <2>3
  <2> HIDE DEF row, Shapes
  <2>6. CASE Goes(t, "leaving", "ending")
    BY <1>3, <2>1, <2>2, <2>3, <2>4, <2>5, <2>6
  <2>7. CASE Goes(t, "refused", "gone")
    BY <1>3, <2>1, <2>2, <2>3, <2>4, <2>5, <2>7
  <2> QED BY <2>3, <2>6, <2>7
<1>11. CASE LoopEnds(t)
  <2>1. "ending" \in Alive \cap Admitted /\ "gone" \in Alive \ Admitted
    BY DEF Alive, Admitted
  <2>2. Goes(t, "ending", "gone") /\ End /\ OnlyLoops /\ UNCHANGED <<shown, health, faults>>
    BY <1>11 DEF LoopEnds, Released
  <2>3. ~shown[t].alive
    BY <1>1, <2>2 DEF LoopShown, Goes
  <2> HIDE DEF Shapes
  <2> QED BY <1>1, <1>3, <1>4, <2>1, <2>2, <2>3
<1>12. CASE ThreadEnds(t)
  <2>1. "gone" \in Alive \ Admitted /\ "dead" \notin Admitted
    BY DEF Alive, Admitted
  <2>2. Goes(t, "gone", "dead") /\ OnlyLoops /\ UNCHANGED <<active, shown, health, faults>>
    BY <1>12 DEF ThreadEnds
  <2>3. ~shown[t].alive
    BY <1>1, <2>2 DEF LoopShown, Goes
  <2> HIDE DEF Shapes
  <2> QED BY <1>1, <1>3, <1>4, <2>1, <2>2, <2>3
<1>13. CASE GetsLate(t) \/ \E d \in Deps : JobFails(t, d)
  <2>1. OnlyLoops /\ UNCHANGED <<active, loop, probed>> /\ loop[t] = "busy"
    BY <1>13 DEF GetsLate, JobFails, health
  <2>2. SlotsCounted' /\ OpsCounted'
    BY <2>1, Recounted DEF OnlyLoops
  <2>3. LoopsBegin' /\ MainKnows' /\ StoppedTells' /\ ExitIsTrue'
    BY <2>1 DEF IInv, OnlyLoops, process, LoopsBegin, MainKnows, StoppedTells, ExitIsTrue
  <2>4. faults' \in 0 .. MaxFaults
    BY <1>1, <1>13, Sizes DEF GetsLate, JobFails
  <2>5. avail' \in [Deps -> BOOLEAN]
    BY <1>13 DEF GetsLate, JobFails, health, IInv, Typed
  <2>6. shown' \in [Loops -> Shapes] /\ \A u \in Loops : LoopShown(u)'
    <3>1. CASE UNCHANGED shown
      BY <2>1, <3>1 DEF IInv, Typed, LoopShown
    <3>2. CASE GetsLate(t)
      <4> DEFINE row == [shown[t] EXCEPT !.late = TRUE]
      <4>1. row \in Shapes
        BY <1>1
      <4>2. shown' = [shown EXCEPT ![t] = row]
        BY <3>2 DEF GetsLate, Show
      <4> HIDE DEF row
      <4> QED BY <2>1, <4>1, <4>2, LoopSays
    <3> QED BY <1>13, <3>1, <3>2 DEF JobFails
  <2>7. Typed'
    BY <2>1, <2>4, <2>5, <2>6 DEF IInv, Typed, OnlyLoops, process
  <2> QED BY <2>2, <2>3, <2>6, <2>7 DEF IInv
<1> QED BY <1>5, <1>6, <1>7, <1>8, <1>9, <1>10, <1>11, <1>12, <1>13
        DEF LoopStep, LoopFault

-----------------------------------------------------------------------------
(* Connections.                                                            *)

\* What the thread of a connection takes and gives: an operation while it
\* serves, a slot while it is there.
LEMMA ConnGoes ==
  ASSUME IInv, NEW c \in Conns, NEW from \in {"none"} \cup Holding, NEW to \in {"none"} \cup Holding,
         Passes(c, from, to), OnlyConns,
         IF from \in Serving <=> to \in Serving THEN active' = active
         ELSE IF to \in Serving THEN Begin ELSE End,
         IF from \in Holding <=> to \in Holding THEN slots' = slots
         ELSE IF to \in Holding THEN slots > 0 /\ slots' = slots - 1 ELSE slots' = slots + 1
  PROVE  IInv'
<1>1. /\ conn[c] = from /\ conn'[c] = to /\ \A u \in Conns \ {c} : conn'[u] = conn[u]
      /\ conn' \in [Conns -> {"none", "header", "over"} \cup Serving]
  BY DEF Passes, IInv, Typed, Holding
<1>2. IsFiniteSet(Conns)
  BY Sizes
<1> DEFINE served  == Cardinality(Where(Conns, conn, Serving))
           serves  == Cardinality(Where(Conns, conn', Serving))
           held    == Cardinality(Where(Conns, conn, Holding))
           holds   == Cardinality(Where(Conns, conn', Holding))
<1>3. /\ served \in Nat /\ serves \in Nat
      /\ (conn[c] \in Serving <=> conn'[c] \in Serving) => serves = served
      /\ conn[c] \notin Serving /\ conn'[c] \in Serving => serves = served + 1
      /\ conn[c] \in Serving /\ conn'[c] \notin Serving => serves = served - 1 /\ served > 0
  BY <1>1, <1>2, Moved
<1>4. /\ held \in Nat /\ holds \in Nat
      /\ (conn[c] \in Holding <=> conn'[c] \in Holding) => holds = held
      /\ conn[c] \notin Holding /\ conn'[c] \in Holding => holds = held + 1
      /\ conn[c] \in Holding /\ conn'[c] \notin Holding => holds = held - 1 /\ held > 0
  BY <1>1, <1>2, Moved
<1>5. /\ Served(conn) = served /\ Served(conn)' = serves
      /\ Held(conn) = held /\ Held(conn)' = holds
      /\ Counted(loop)' = Counted(loop)
  BY DEF Served, Held, Counted, OnlyConns
<1> HIDE DEF served, serves, held, holds
<1>6. SlotsCounted'
  <2>1. slots \in Nat /\ slots + held = Slots
    BY <1>5 DEF IInv, SlotsCounted
  <2> QED BY <1>1, <1>4, <1>5, <2>1 DEF SlotsCounted
<1>7. Counted(loop) \in Nat
  <2>1. IsFiniteSet(Where(Loops, loop, Admitted))
    BY Sizes, FS_Subset DEF Where
  <2> QED BY <2>1, FS_CardinalityType DEF Counted
<1>8. OpsCounted' /\ active' \in Nat /\ (shutdown => active' <= active)
  <2>1. active = Counted(loop) + served
    BY <1>5 DEF IInv, OpsCounted
  <2> QED BY <1>1, <1>3, <1>5, <1>7, <2>1 DEF OpsCounted, Begin, Open, End
<1>9. Typed'
  BY <1>1, <1>8 DEF IInv, Typed, OnlyConns, process, health
<1>10. LoopsBegin' /\ ExitIsTrue' /\ \A t \in Loops : LoopShown(t)'
  BY DEF IInv, OnlyConns, process, LoopsBegin, ExitIsTrue, LoopShown
<1>11. MainKnows' /\ StoppedTells'
  <2>1. active = 0 /\ shutdown => active' = 0
    BY <1>8 DEF IInv, Typed
  <2> QED BY <2>1 DEF IInv, OnlyConns, process, MainKnows, StoppedTells
<1> QED BY <1>6, <1>8, <1>9, <1>10, <1>11 DEF IInv

LEMMA ConnInv == ASSUME IInv, NEW c \in Conns, Accept(c) \/ ConnStep(c) PROVE IInv'
<1>1. /\ {"preflight", "body"} \subseteq Serving \cap Holding
      /\ {"header", "over"} \subseteq Holding \ Serving
      /\ "none" \notin Serving \cup Holding
  BY DEF Serving, Holding
<1>2. CASE Accept(c)
  BY <1>1, <1>2, ConnGoes DEF Accept, SlotTaken
<1>3. CASE Admit(c)
  BY <1>1, <1>3, ConnGoes DEF Admit
<1>4. CASE NotAdmitted(c)
  BY <1>1, <1>4, ConnGoes DEF NotAdmitted
<1>5. CASE PreflightPasses(c)
  BY <1>1, <1>5, ConnGoes DEF PreflightPasses
<1>6. CASE PreflightFails(c)
  BY <1>1, <1>6, ConnGoes DEF PreflightFails, PreflightRaised
<1>7. CASE Release(c)
  BY <1>1, <1>7, ConnGoes DEF Release
<1>8. CASE ConnEnds(c)
  BY <1>1, <1>8, ConnGoes DEF ConnEnds
<1> QED BY <1>2, <1>3, <1>4, <1>5, <1>6, <1>7, <1>8 DEF ConnStep

-----------------------------------------------------------------------------
(* Readiness.                                                              *)

LEMMA HealthInv ==
  ASSUME IInv, NEW r \in Refreshers, Probe(r) \/ Refresh(r) \/ \E d \in Deps : ProbeFails(r, d)
  PROVE  IInv'
<1>1. UNCHANGED <<service, process, loop, shown, conn, slots>>
  BY DEF Probe, Refresh, ProbeFails, OnlyHealth
<1>2. SlotsCounted' /\ OpsCounted'
  BY <1>1, Recounted DEF service
<1>3. /\ LoopsBegin' /\ MainKnows' /\ StoppedTells' /\ ExitIsTrue'
      /\ \A t \in Loops : LoopShown(t)'
  BY <1>1 DEF IInv, service, process, LoopsBegin, MainKnows, StoppedTells, ExitIsTrue, LoopShown
<1>4. faults' \in 0 .. MaxFaults
  BY Sizes DEF IInv, Typed, Probe, Refresh, ProbeFails, OnlyHealth
<1>5. avail \in [Deps -> BOOLEAN] /\ probed \in [Refreshers -> {Nothing} \cup [Deps -> BOOLEAN]]
  BY DEF IInv, Typed
<1>6. CASE Probe(r)
  <2>1. [d \in Deps |-> TRUE] \in [Deps -> BOOLEAN] /\ avail' = avail
    BY <1>6 DEF Probe
  <2>2. probed' \in [Refreshers -> {Nothing} \cup [Deps -> BOOLEAN]]
    BY <1>5, <1>6, <2>1 DEF Probe
  <2> QED BY <1>1, <1>2, <1>3, <1>4, <1>5, <2>1, <2>2 DEF IInv, Typed, service, process
<1>7. CASE Refresh(r)
  <2>1. avail' \in [Deps -> BOOLEAN]
    BY <1>5, <1>7 DEF Refresh
  <2>2. probed' \in [Refreshers -> {Nothing} \cup [Deps -> BOOLEAN]]
    BY <1>5, <1>7 DEF Refresh
  <2> QED BY <1>1, <1>2, <1>3, <1>4, <2>1, <2>2 DEF IInv, Typed, service, process
<1>8. ASSUME NEW d \in Deps, ProbeFails(r, d) PROVE IInv'
  <2>1. probed[r] \in [Deps -> BOOLEAN] /\ avail' = avail
    BY <1>5, <1>8 DEF ProbeFails
  <2> DEFINE seen == [probed[r] EXCEPT ![d] = FALSE]
  <2>2. seen \in [Deps -> BOOLEAN]
    BY <2>1
  <2>3. probed' = [probed EXCEPT ![r] = seen]
    BY <1>8 DEF ProbeFails
  <2>4. probed' \in [Refreshers -> {Nothing} \cup [Deps -> BOOLEAN]]
    <3> HIDE DEF seen
    <3> QED BY <1>5, <2>2, <2>3
  <2> QED BY <1>1, <1>2, <1>3, <1>4, <1>5, <2>1, <2>4 DEF IInv, Typed, service, process
<1> QED BY <1>6, <1>7, <1>8

-----------------------------------------------------------------------------
(* The theorems.                                                           *)

LEMMA NextInv == ASSUME IInv, [Next]_vars PROVE IInv'
<1>1. CASE MainStep \/ Signal \/ ServeEnds \/ Expire
  BY <1>1, MainInv
<1>2. ASSUME NEW t \in Loops, LoopStep(t) \/ LoopFault(t) PROVE IInv'
  BY <1>2, LoopInv
<1>3. ASSUME NEW c \in Conns, Accept(c) \/ ConnStep(c) PROVE IInv'
  BY <1>3, ConnInv
<1>4. ASSUME NEW r \in Refreshers, Probe(r) \/ Refresh(r) \/ \E d \in Deps : ProbeFails(r, d)
      PROVE  IInv'
  BY <1>4, HealthInv
<1>5. CASE UNCHANGED vars
  <2>1. SlotsCounted' /\ OpsCounted'
    BY <1>5, Recounted DEF vars, service
  <2>2. Typed' /\ LoopsBegin' /\ MainKnows' /\ StoppedTells' /\ ExitIsTrue'
    BY <1>5 DEF IInv, vars, service, process, health,
                Typed, LoopsBegin, MainKnows, StoppedTells, ExitIsTrue
  <2>3. \A t \in Loops : LoopShown(t)'
    BY <1>5 DEF IInv, vars, LoopShown
  <2> QED BY <2>1, <2>2, <2>3 DEF IInv
<1> QED BY <1>1, <1>2, <1>3, <1>4, <1>5 DEF Next

LEMMA Invariance == Spec => []IInv
BY InitInv, NextInv, PTL DEF Spec

\* The types, with as many free slots as connections leave.
THEOREM TypeCorrect == Spec => []TypeOK
<1>1. IInv => TypeOK
  <2> SUFFICES ASSUME IInv PROVE TypeOK
    OBVIOUS
  <2>1. Held(conn) \in Nat
    <3>1. IsFiniteSet(Where(Conns, conn, Holding))
      BY Sizes, FS_Subset DEF Where
    <3> QED BY <3>1, FS_CardinalityType DEF Held
  <2>2. slots \in 0 .. Slots
    BY <2>1, Sizes DEF IInv, SlotsCounted
  <2> QED BY <2>2 DEF IInv, Typed, TypeOK
<1> QED BY <1>1, Invariance, PTL

\* _active_operations counts exactly the loops and requests that are in their
\* work, whatever fails where, so the drain waits for all of it and no longer.
THEOREM CountIsTrue == Spec => []OperationsCounted
<1>1. IInv => OperationsCounted
  BY DEF IInv, OpsCounted, OperationsCounted, Counted, Served, Where
<1> QED BY <1>1, Invariance, PTL

\* STOPPED is said of a service in which nothing works any more.
THEOREM QuietWhenStopped == Spec => []StoppedIsQuiet
<1>1. IInv => StoppedIsQuiet
  BY IdleMeans DEF IInv, StoppedTells, StoppedIsQuiet
<1> QED BY <1>1, Invariance, PTL

\* main returns well only from a stopped service, badly only after the deadline.
THEOREM ExitsAsSaid == Spec => []ExitIsTrue
<1>1. IInv => ExitIsTrue
  BY DEF IInv
<1> QED BY <1>1, Invariance, PTL

\* /healthz never answers well when a background loop is not there.
THEOREM WellMeansLooping == Spec => []ReadyIsTrue
<1>1. IInv => ReadyIsTrue
  BY DEF IInv, Typed, LoopShown, ReadyIsTrue, VoiceReady, Alive, Admitted
<1> QED BY <1>1, Invariance, PTL

\* After a shutdown is requested the count of operations only falls, and the
\* request is not taken back.
THEOREM AdmissionEnds == Spec => NothingMoreAdmitted
<1> DEFINE Falls == shutdown => active' <= active /\ shutdown'
<1>1. ASSUME IInv, [Next]_vars PROVE Falls
  <2>1. active \in Nat /\ shutdown \in BOOLEAN
    BY <1>1 DEF IInv, Typed
  <2>2. End => active' <= active
    BY <2>1 DEF End
  <2>3. active' = active => active' <= active
    BY <2>1
  <2>4. CASE MainStep \/ Signal \/ ServeEnds \/ Expire
    BY <2>3, <2>4 DEF MainStep, Signal, ServeEnds, Expire, StartCheck, Spawn, StopWorkers, Join,
                      Drained, MarkDrained, DrainExpires, RequestShutdown, service
  <2>5. ASSUME NEW t \in Loops, LoopStep(t) \/ LoopFault(t) PROVE Falls
    BY <2>2, <2>3, <2>5 DEF LoopStep, LoopFault, LoopShows, LoopAdmitted, LoopRefused, Iterate,
         IterationDone, Wakes, LeavesLoop, Unwinds, LoopEnds, ThreadEnds, GetsLate, IterationRaises,
         JobFails, OnlyLoops, Begin, Open, Released
  <2>6. ASSUME NEW c \in Conns, Accept(c) \/ ConnStep(c) PROVE Falls
    BY <2>2, <2>3, <2>6 DEF ConnStep, Accept, Admit, NotAdmitted, PreflightPasses, PreflightFails,
         Release, ConnEnds, OnlyConns, Begin, Open, PreflightRaised
  <2>7. ASSUME NEW r \in Refreshers, Probe(r) \/ Refresh(r) \/ \E d \in Deps : ProbeFails(r, d)
        PROVE  Falls
    BY <2>3, <2>7 DEF Probe, Refresh, ProbeFails, OnlyHealth, service
  <2>8. CASE UNCHANGED vars
    BY <2>3, <2>8 DEF vars, service
  <2> QED BY <1>1, <2>4, <2>5, <2>6, <2>7, <2>8 DEF Next
<1>2. IInv /\ [Next]_vars => [Falls]_vars
  BY <1>1
<1> QED BY <1>2, Invariance, PTL DEF Spec, NothingMoreAdmitted

\* All of them together, as the runs check them.
THEOREM ServiceIsSafe == Spec => []ExitIsSafe
BY TypeCorrect, CountIsTrue, QuietWhenStopped, ExitsAsSaid, WellMeansLooping, PTL DEF ExitIsSafe

=============================================================================
