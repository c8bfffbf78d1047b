--------------------------- MODULE LifeCycleProofs ---------------------------
(***************************************************************************)
(* Proofs about LifeCycle for every bound: the safety properties that the  *)
(* run lifecycle checks follow from the inductive invariant LifeInv.       *)
(***************************************************************************)
EXTENDS LifeCycle, TLAPS

StreamAt == {"idle", "reinit", "cycle", "pause", "stop", "create", "run", "notify",
             "play", "failed", "pop", "check"}
StopAt == {"none", "enter", "wait", "join", "task", "left"}

(* The types, those TypeOK leaves open included; cycle and the cookies are *)
(* only bounded below.                                                     *)
ElTypes ==
  /\ kind \in Kinds
  /\ el \in [status : {"OK", "WRONG_STATE", "ERROR"}, done : BOOLEAN, error : BOOLEAN,
             busy : BOOLEAN, node : 0 .. MaxNodes, cycle : Nat]
DspTypes ==
  /\ handle \in BOOLEAN /\ bridge \in {"none", "created", "running", "stopped"}
  /\ mem \subseteq {"comm", "events"} /\ sem \in Nat
  /\ thread \in [of : 0 .. MaxNodes, is : {"none", "runs", "ended", "joined"}]
BufferTypes ==
  /\ on \in BOOLEAN
  /\ tb \in [in : {"none", "queue", "stream", "dsp"},
             out : {"none", "queue", "loop", "dsp", "down"}]
  /\ el.node = 0 => tb = [in |-> "none", out |-> "none"]
  /\ down \subseteq [of : 1 .. MaxNodes, cookie : Nat]
LoopRecords == [at : {"out", "pop", "check", "wrap"}, of : 0 .. MaxNodes, woken : BOOLEAN]
LoopTypes ==
  /\ task \in {"none", "started", "paused", "stopped"}
  /\ loop \in LoopRecords
StreamRecords == [at : StreamAt, woken : BOOLEAN]
StopRecords == [by : {"nobody", "app", "stream"}, at : StopAt, msg : {"none", "sent", "heard"}]
CallTypes ==
  /\ pads \in [sink : BOOLEAN, flushing : BOOLEAN]
  /\ stream \in StreamRecords
  /\ app \in {"null", "ready", "paused", "unlocked", "deactivate", "stop"}
  /\ flush \in {"idle", "start", "unlocked", "flushing"}
  /\ stop \in StopRecords
HistTypes == hist \subseteq Events

(* What bounds cycle: it is counted on once for every start, and once for  *)
(* every node that gstdsp_reinit stops.                                    *)
CycleBound ==
  /\ {nodes, starts, flushes, faults} \subseteq Nat
  /\ nodes <= MaxNodes /\ starts <= MaxStarts
  /\ stream.at \in {"reinit", "cycle", "pause", "stop", "create"} => nodes < MaxNodes
  /\ el.cycle + (IF app \in {"paused", "unlocked", "deactivate"} THEN 1 ELSE 0)
              + (IF el.node # 0 /\ stream.at \notin {"pause", "stop"} THEN 1 ELSE 0)
       <= nodes + starts

Types == /\ ElTypes /\ DspTypes /\ BufferTypes /\ LoopTypes /\ CallTypes /\ HistTypes
         /\ CycleBound

(* Where the streaming thread, a stop and a change of state can be at the  *)
(* same time, and whether there is a node then.                            *)
Places ==
  /\ stream.at \in {"reinit", "cycle", "pause", "run", "notify", "play"} => el.node # 0
  /\ stream.at = "create" => el.node = 0
  /\ stream.at = "check" => tb.in = "stream"
  /\ stop.by = "stream" <=> stream.at = "stop"
  /\ stop.by = "app" <=> app = "stop"
  /\ stop.by = "nobody" <=> stop.at = "none"
  /\ app \in {"null", "ready", "stop"} => stream.at = "idle"
  /\ app \in {"null", "ready"} => el.node = 0
  /\ pads.sink <=> app \in {"paused", "unlocked"}
  /\ ~pads.sink => pads.flushing
  /\ stop.at = "left" => el.node = 0
  /\ stop.at \in {"wait", "join", "task"} => el.node # 0

(* The buffer output_loop works on is of the node there is.                *)
LoopPlaces ==
  /\ loop.at \in {"out", "pop"} => loop.of = 0
  /\ loop.at = "wrap" => loop.of # 0
  /\ loop.of # 0 => loop.of = el.node /\ tb.out = "loop"
  /\ stream.at = "stop" => loop.at = "out" /\ task # "started"

(* A buffer downstream with the cookie of this cycle is of the node there  *)
(* is, and there is none from the moment cycle is counted on; but for the  *)
(* ones that were wrapped too late.                                        *)
Fresh(w) == w.cookie = el.cycle
Cookies ==
  /\ \A w \in down : w.cookie <= el.cycle
  /\ \/ "raced" \in hist
     \/ /\ \A w \in down : Fresh(w) => w.of = el.node
        /\ stream.at \in {"pause", "stop"} \/ app = "stop" => \A w \in down : ~Fresh(w)
  /\ RecycledAtHome

(* A buffer that is to come back is the one whose td_buffer is downstream, *)
(* and a node that is being started has no buffers yet.                    *)
Lent ==
  /\ el.node <= nodes /\ \A w \in down : w.of <= nodes
  /\ \A w \in down : Fresh(w) /\ w.of = el.node => tb.out = "down"
  /\ stream.at \in {"run", "notify", "play"} => tb = [in |-> "none", out |-> "none"]

(* What there is of a node, there is while el.node says so.                *)
Owned ==
  /\ bridge = "none" <=> el.node = 0
  /\ thread.is = "runs" => el.node # 0 /\ stop.at # "task"
  /\ mem # {} => el.node # 0
  /\ app = "null" => ~handle

(* From the unlock on, the queues wake whoever comes.                      *)
Awake ==
  \/ "overtaken" \in hist
  \/ /\ app \in {"unlocked", "deactivate", "stop"} => ~on
     /\ app \in {"deactivate", "stop", "null", "ready"} => loop.at # "pop"
     /\ app \in {"null", "ready"} => ~on \/ (task = "none" /\ loop.at = "out")

(* What the semaphore counts has been heard, if nothing came late.         *)
Heard ==
  /\ \/ "late" \in hist
     \/ /\ sem > 0 => sem = 1 /\ stop.at = "wait" /\ bridge = "stopped"
        /\ stop.msg = "heard" /\ stop.at \in {"join", "task"} => bridge = "stopped"
        /\ stop.msg = "heard" => stop.at \in {"join", "task", "left"}
  /\ StopHeard

(* A thread that has been joined is not that of the node, unless the start *)
(* of the node has failed.                                                 *)
Joined ==
  /\ \/ "half" \in hist
     \/ thread.is = "joined" /\ el.node # 0 =>
          stream.at \in {"run", "notify"} \/ stop.at = "task"
  /\ JoinedOnce

LifeInv == Types /\ Places /\ LoopPlaces /\ Cookies /\ Lent /\ Owned /\ Awake /\ Heard /\ Joined

-----------------------------------------------------------------------------
(* The fields of the element keep their types, node within its bound.      *)
LEMMA ElTypesStep == LifeInv /\ [Next]_vars => ElTypes'
<1> SUFFICES ASSUME LifeInv, [Next]_vars PROVE ElTypes'
  OBVIOUS
<1> USE LifeCycleAssumption DEF LifeCycleAssumption, LifeInv, Types, ElTypes,
  CycleBound, dspVars, counters
<1>1. CASE ReinitUnlock
  BY <1>1 DEF ReinitUnlock
<1>2. CASE ReinitCycle
  BY <1>2 DEF ReinitCycle, streamKeeps, Cycle
<1>3. CASE ReinitEnd
  BY <1>3 DEF ReinitEnd, streamKeeps, Overtakes
<1>4. CASE CreateNode
  BY <1>4 DEF CreateNode, streamKeeps
<1>5. CASE StartFailed
  BY <1>5 DEF StartFailed
<1>6. CASE StopEnter
  BY <1>6 DEF StopEnter, stopKeeps
<1>7. CASE StopWait
  BY <1>7 DEF StopWait, stopKeeps
<1>8. CASE StopFree
  BY <1>8 DEF StopFree, stopKeeps, PassOver, Freed
<1>9. CASE AlgoError
  BY <1>9 DEF AlgoError, threadKeeps, Fault, GotError, Wake
<1>10. CASE FatalError
  BY <1>10 DEF FatalError, threadKeeps, Fault, Wake
<1>11. CASE LoopCheck
  BY <1>11 DEF LoopCheck, loopKeeps, Pause, PassEnd
<1>12. CASE LoopPush
  BY <1>12 DEF LoopPush, loopKeeps, Pause, PassEnd
<1>13. CASE LoopReplace
  BY <1>13 DEF LoopReplace, loopKeeps, Pause, PassEnd
<1>14. CASE NullToReady
  BY <1>14 DEF NullToReady, appKeeps, Fault
<1>15. CASE ReadyToPaused
  BY <1>15 DEF ReadyToPaused, appKeeps
<1>16. CASE PausedToReady
  BY <1>16 DEF PausedToReady, appKeeps, Wake
<1>17. CASE StopNode
  BY <1>17 DEF StopNode, appKeeps, Cycle
<1>18. CASE FlushUnlock
  BY <1>18 DEF FlushUnlock, flushKeeps, Wake
<1>19. CASE FlushStop
  BY <1>19 DEF FlushStop, flushKeeps, Overtakes
<1>20. CASE \/ SetCaps \/ ReinitPause \/ Chain \/ ChainPop \/ ChainSend
            \/ StartRun \/ StartNotify \/ StartPlay \/ StopJoin
            \/ GotBuffer \/ StopAnswered \/ ThreadDone \/ LoopPop
            \/ Down \/ DeactivateSrc \/ Stopped \/ ReadyToNull
            \/ FlushStart \/ FlushPause
  BY <1>20 DEF SetCaps, ReinitPause, Chain, ChainPop, ChainSend, StartRun,
    StartNotify, StartPlay, StopJoin, GotBuffer, StopAnswered, ThreadDone,
    LoopPop, Down, DeactivateSrc, Stopped, ReadyToNull, FlushStart, FlushPause,
    streamKeeps, Fault, Created, stopKeeps, threadKeeps, Up, loopKeeps,
    Finalize, Recycling, appKeeps, flushKeeps
<1>21. CASE UNCHANGED vars
  BY <1>21 DEF vars
<1>. QED
  BY <1>1, <1>2, <1>3, <1>4, <1>5, <1>6, <1>7, <1>8, <1>9, <1>10, <1>11, <1>12,
    <1>13, <1>14, <1>15, <1>16, <1>17, <1>18, <1>19, <1>20, <1>21
     DEF Next, Stream, Stop, Thread, Loop, App, Flush

(* What the element has of the DSP keeps its type.                         *)
LEMMA DspTypesStep == LifeInv /\ [Next]_vars => DspTypes'
<1> SUFFICES ASSUME LifeInv, [Next]_vars PROVE DspTypes'
  OBVIOUS
<1> USE LifeCycleAssumption DEF LifeCycleAssumption, LifeInv, Types, DspTypes,
  ElTypes, dspVars, counters
<1>1. CASE CreateNode
  BY <1>1 DEF CreateNode, streamKeeps
<1>2. CASE StartRun
  BY <1>2 DEF StartRun, streamKeeps, Fault
<1>3. CASE StartNotify
  BY <1>3 DEF StartNotify, Fault, Created
<1>4. CASE StopWait
  BY <1>4 DEF StopWait, stopKeeps
<1>5. CASE StopJoin
  BY <1>5 DEF StopJoin, stopKeeps
<1>6. CASE StopFree
  BY <1>6 DEF StopFree, stopKeeps, PassOver, Freed
<1>7. CASE StopAnswered
  BY <1>7 DEF StopAnswered, threadKeeps, Up
<1>8. CASE FatalError
  BY <1>8 DEF FatalError, threadKeeps, Fault, Wake
<1>9. CASE ThreadDone
  BY <1>9 DEF ThreadDone, threadKeeps
<1>10. CASE NullToReady
  BY <1>10 DEF NullToReady, appKeeps, Fault
<1>11. CASE ReadyToNull
  BY <1>11 DEF ReadyToNull, appKeeps
<1>12. CASE \/ SetCaps \/ ReinitUnlock \/ ReinitCycle \/ ReinitPause
            \/ ReinitEnd \/ Chain \/ ChainPop \/ ChainSend \/ StartPlay
            \/ StartFailed \/ StopEnter \/ GotBuffer \/ AlgoError
            \/ LoopPop \/ LoopCheck \/ LoopPush \/ LoopReplace \/ Down
            \/ ReadyToPaused \/ PausedToReady \/ DeactivateSrc
            \/ StopNode \/ Stopped \/ FlushStart \/ FlushUnlock
            \/ FlushPause \/ FlushStop
  BY <1>12 DEF SetCaps, ReinitUnlock, ReinitCycle, ReinitPause, ReinitEnd,
    Chain, ChainPop, ChainSend, StartPlay, StartFailed, StopEnter, GotBuffer,
    AlgoError, LoopPop, LoopCheck, LoopPush, LoopReplace, Down, ReadyToPaused,
    PausedToReady, DeactivateSrc, StopNode, Stopped, FlushStart, FlushUnlock,
    FlushPause, FlushStop, streamKeeps, Cycle, Overtakes, Fault, stopKeeps,
    threadKeeps, GotError, Wake, loopKeeps, Pause, PassEnd, Finalize,
    Recycling, appKeeps, flushKeeps
<1>13. CASE UNCHANGED vars
  BY <1>13 DEF vars
<1>. QED
  BY <1>1, <1>2, <1>3, <1>4, <1>5, <1>6, <1>7, <1>8, <1>9, <1>10, <1>11, <1>12,
    <1>13
     DEF Next, Stream, Stop, Thread, Loop, App, Flush

(* Buffers keep their types, and there are none without a node.            *)
LEMMA BufferTypesStep == LifeInv /\ [Next]_vars => BufferTypes'
<1> SUFFICES ASSUME LifeInv, [Next]_vars PROVE BufferTypes'
  OBVIOUS
<1> USE LifeCycleAssumption DEF LifeCycleAssumption, LifeInv, Types,
  BufferTypes, ElTypes, Places, LoopPlaces, LoopTypes, LoopRecords, CallTypes,
  StreamRecords, StopRecords, StreamAt, StopAt, dspVars, counters
<1>1. CASE ReinitUnlock
  BY <1>1 DEF ReinitUnlock
<1>2. CASE ReinitEnd
  BY <1>2 DEF ReinitEnd, streamKeeps, Overtakes
<1>3. CASE Chain
  BY <1>3 DEF Chain, streamKeeps
<1>4. CASE ChainPop
  BY <1>4 DEF ChainPop, streamKeeps
<1>5. CASE ChainSend
  BY <1>5 DEF ChainSend, streamKeeps
<1>6. CASE StartPlay
  BY <1>6 DEF StartPlay, streamKeeps, Fault
<1>7. CASE StartFailed
  <2>1. el'.node = el.node
    BY <1>7 DEF StartFailed
  <2>2. tb' = tb /\ down' = down /\ on' \in BOOLEAN
    BY <1>7 DEF StartFailed
  <2>. QED
    BY <2>1, <2>2
<1>8. CASE StopFree
  BY <1>8 DEF StopFree, stopKeeps, PassOver, Freed
<1>9. CASE GotBuffer
  BY <1>9 DEF GotBuffer, threadKeeps
<1>10. CASE AlgoError
  BY <1>10 DEF AlgoError, threadKeeps, Fault, GotError, Wake
<1>11. CASE FatalError
  BY <1>11 DEF FatalError, threadKeeps, Fault, Wake
<1>12. CASE LoopPop
  BY <1>12 DEF LoopPop, loopKeeps
<1>13. CASE LoopCheck
  <2>1. el'.node = el.node
    BY <1>13 DEF LoopCheck, loopKeeps, Pause, PassEnd
  <2>2. tb' = tb \/ tb' = [tb EXCEPT !.out = "queue"]
    BY <1>13 DEF LoopCheck, loopKeeps, Pause, PassEnd
  <2>3. loop.of # 0 \/ tb' = tb
    BY <1>13 DEF LoopCheck, loopKeeps, Pause, PassEnd
  <2>4. down' = down /\ on' \in BOOLEAN
    BY <1>13 DEF LoopCheck, loopKeeps, Pause, PassEnd
  <2>. QED
    BY <2>1, <2>2, <2>3, <2>4
<1>14. CASE LoopPush
  <2>1. el'.node = el.node /\ el.node # 0
    BY <1>14 DEF LoopPush, loopKeeps, Pause, PassEnd
  <2>2. tb' = [tb EXCEPT !.out = "dsp"] \/ tb' = [tb EXCEPT !.out = "down"]
    BY <1>14 DEF LoopPush, loopKeeps, Pause, PassEnd
  <2>3. down' \subseteq [of : 1 .. MaxNodes, cookie : Nat]
    BY <1>14 DEF LoopPush, loopKeeps, Pause, PassEnd
  <2>4. on' \in BOOLEAN
    BY <1>14 DEF LoopPush, loopKeeps, Pause, PassEnd
  <2>. QED
    BY <2>1, <2>2, <2>3, <2>4
<1>15. CASE LoopReplace
  BY <1>15 DEF LoopReplace, loopKeeps, Pause, PassEnd
<1>16. CASE Down
  BY <1>16 DEF Down, Finalize, loopKeeps, Recycling
<1>17. CASE NullToReady
  BY <1>17 DEF NullToReady, appKeeps, Fault
<1>18. CASE ReadyToPaused
  BY <1>18 DEF ReadyToPaused, appKeeps
<1>19. CASE PausedToReady
  BY <1>19 DEF PausedToReady, appKeeps, Wake
<1>20. CASE FlushUnlock
  BY <1>20 DEF FlushUnlock, flushKeeps, Wake
<1>21. CASE FlushStop
  <2>1. el'.node = el.node /\ on' \in BOOLEAN
    BY <1>21 DEF FlushStop, flushKeeps, Overtakes
  <2>2. tb' = tb /\ down' = down
    BY <1>21 DEF FlushStop, flushKeeps, Overtakes
  <2>. QED
    BY <2>1, <2>2
<1>22. CASE \/ SetCaps \/ ReinitCycle \/ ReinitPause \/ CreateNode
            \/ StartRun \/ StartNotify \/ StopEnter \/ StopWait
            \/ StopJoin \/ StopAnswered \/ ThreadDone \/ DeactivateSrc
            \/ StopNode \/ Stopped \/ ReadyToNull \/ FlushStart
            \/ FlushPause
  BY <1>22 DEF SetCaps, ReinitCycle, ReinitPause, CreateNode, StartRun,
    StartNotify, StopEnter, StopWait, StopJoin, StopAnswered, ThreadDone,
    DeactivateSrc, StopNode, Stopped, ReadyToNull, FlushStart, FlushPause,
    streamKeeps, Cycle, Fault, Created, stopKeeps, threadKeeps, Up, appKeeps,
    flushKeeps
<1>23. CASE UNCHANGED vars
  BY <1>23 DEF vars
<1>. QED
  BY <1>1, <1>2, <1>3, <1>4, <1>5, <1>6, <1>7, <1>8, <1>9, <1>10, <1>11, <1>12,
    <1>13, <1>14, <1>15, <1>16, <1>17, <1>18, <1>19, <1>20, <1>21, <1>22, <1>23
     DEF Next, Stream, Stop, Thread, Loop, App, Flush

(* output_loop and its task keep their types.                              *)
LEMMA LoopTypesStep == LifeInv /\ [Next]_vars => LoopTypes'
<1> SUFFICES ASSUME LifeInv, [Next]_vars PROVE LoopTypes'
  OBVIOUS
<1> USE LifeCycleAssumption DEF LifeCycleAssumption, LifeInv, Types, LoopTypes,
  ElTypes, LoopRecords, dspVars, counters
<1>1. CASE ReinitUnlock
  <2>1. (loop.at = "pop") \in BOOLEAN /\ (stream.at = "pop") \in BOOLEAN
    OBVIOUS
  <2>. QED
    BY <2>1, <1>1 DEF ReinitUnlock
<1>2. CASE ReinitPause
  BY <1>2 DEF ReinitPause
<1>3. CASE StartNotify
  BY <1>3 DEF StartNotify, Fault, Created
<1>4. CASE StartFailed
  <2>1. (loop.at = "pop") \in BOOLEAN /\ (stream.at = "pop") \in BOOLEAN
    OBVIOUS
  <2>. QED
    BY <2>1, <1>4 DEF StartFailed
<1>5. CASE StopJoin
  BY <1>5 DEF StopJoin, stopKeeps
<1>6. CASE StopFree
  BY <1>6 DEF StopFree, stopKeeps, PassOver, Freed
<1>7. CASE AlgoError
  <2>1. (loop.at = "pop") \in BOOLEAN /\ (stream.at = "pop") \in BOOLEAN
    OBVIOUS
  <2>. QED
    BY <2>1, <1>7 DEF AlgoError, threadKeeps, Fault, GotError, Wake
<1>8. CASE FatalError
  <2>1. (loop.at = "pop") \in BOOLEAN /\ (stream.at = "pop") \in BOOLEAN
    OBVIOUS
  <2>. QED
    BY <2>1, <1>8 DEF FatalError, threadKeeps, Fault, Wake
<1>9. CASE LoopPop
  <2> HIDE DEF LoopRecords
  <2>1. [at |-> "check", of |-> el.node, woken |-> FALSE] \in LoopRecords
    BY DEF LoopRecords, PassEnd
  <2>2. [at |-> "check", of |-> 0, woken |-> FALSE] \in LoopRecords
    BY DEF LoopRecords, PassEnd
  <2>3. [loop EXCEPT !.at = "pop"] \in LoopRecords
    BY DEF LoopRecords, PassEnd
  <2>4. loop' \in LoopRecords
    BY <1>9, <2>1, <2>2, <2>3 DEF LoopPop, loopKeeps
  <2>. QED
    BY <1>9, <2>4 DEF LoopPop, loopKeeps
<1>10. CASE LoopCheck
  <2> HIDE DEF LoopRecords
  <2>1. PassEnd \in LoopRecords
    BY DEF LoopRecords, PassEnd
  <2>2. [loop EXCEPT !.at = "wrap"] \in LoopRecords
    BY DEF LoopRecords, PassEnd
  <2>3. loop' \in LoopRecords
    BY <1>10, <2>1, <2>2 DEF LoopCheck, loopKeeps, Pause
  <2>. QED
    BY <1>10, <2>3 DEF LoopCheck, loopKeeps, Pause, PassEnd
<1>11. CASE LoopPush
  <2> HIDE DEF LoopRecords
  <2>1. PassEnd \in LoopRecords
    BY DEF LoopRecords, PassEnd
  <2>2. loop' \in LoopRecords
    BY <1>11, <2>1 DEF LoopPush, loopKeeps, Pause
  <2>. QED
    BY <1>11, <2>2 DEF LoopPush, loopKeeps, Pause, PassEnd
<1>12. CASE LoopReplace
  <2> HIDE DEF LoopRecords
  <2>1. PassEnd \in LoopRecords
    BY DEF LoopRecords, PassEnd
  <2>2. loop' \in LoopRecords
    BY <1>12, <2>1 DEF LoopReplace, loopKeeps, Pause
  <2>. QED
    BY <1>12, <2>2 DEF LoopReplace, loopKeeps, Pause, PassEnd
<1>13. CASE PausedToReady
  <2>1. (loop.at = "pop") \in BOOLEAN /\ (stream.at = "pop") \in BOOLEAN
    OBVIOUS
  <2>. QED
    BY <2>1, <1>13 DEF PausedToReady, appKeeps, Wake
<1>14. CASE FlushUnlock
  <2>1. (loop.at = "pop") \in BOOLEAN /\ (stream.at = "pop") \in BOOLEAN
    OBVIOUS
  <2>. QED
    BY <2>1, <1>14 DEF FlushUnlock, flushKeeps, Wake
<1>15. CASE FlushPause
  BY <1>15 DEF FlushPause, flushKeeps
<1>16. CASE FlushStop
  BY <1>16 DEF FlushStop, flushKeeps, Overtakes
<1>17. CASE \/ SetCaps \/ ReinitCycle \/ ReinitEnd \/ Chain \/ ChainPop
            \/ ChainSend \/ CreateNode \/ StartRun \/ StartPlay
            \/ StopEnter \/ StopWait \/ GotBuffer \/ StopAnswered
            \/ ThreadDone \/ Down \/ NullToReady \/ ReadyToPaused
            \/ DeactivateSrc \/ StopNode \/ Stopped \/ ReadyToNull
            \/ FlushStart
  BY <1>17 DEF SetCaps, ReinitCycle, ReinitEnd, Chain, ChainPop, ChainSend,
    CreateNode, StartRun, StartPlay, StopEnter, StopWait, GotBuffer,
    StopAnswered, ThreadDone, Down, NullToReady, ReadyToPaused, DeactivateSrc,
    StopNode, Stopped, ReadyToNull, FlushStart, streamKeeps, Cycle, Overtakes,
    Fault, stopKeeps, threadKeeps, Up, Finalize, loopKeeps, Recycling,
    appKeeps, flushKeeps
<1>18. CASE UNCHANGED vars
  BY <1>18 DEF vars
<1>. QED
  BY <1>1, <1>2, <1>3, <1>4, <1>5, <1>6, <1>7, <1>8, <1>9, <1>10, <1>11, <1>12,
    <1>13, <1>14, <1>15, <1>16, <1>17, <1>18
     DEF Next, Stream, Stop, Thread, Loop, App, Flush

(* The calls of stream, app, flush and _dsp_stop keep their types.         *)
LEMMA CallTypesStep == LifeInv /\ [Next]_vars => CallTypes'
<1> SUFFICES ASSUME LifeInv, [Next]_vars PROVE CallTypes'
  OBVIOUS
<1> USE LifeCycleAssumption DEF LifeCycleAssumption, LifeInv, Types, CallTypes,
  StreamAt, StopAt, StreamRecords, StopRecords, dspVars, counters
<1>1. CASE SetCaps
  BY <1>1 DEF SetCaps, streamKeeps
<1>2. CASE ReinitUnlock
  BY <1>2 DEF ReinitUnlock
<1>3. CASE ReinitCycle
  BY <1>3 DEF ReinitCycle, streamKeeps, Cycle
<1>4. CASE ReinitPause
  BY <1>4 DEF ReinitPause
<1>5. CASE ReinitEnd
  BY <1>5 DEF ReinitEnd, streamKeeps, Overtakes
<1>6. CASE Chain
  BY <1>6 DEF Chain, streamKeeps
<1>7. CASE ChainPop
  <2> HIDE DEF StreamRecords
  <2>1. [at |-> "check", woken |-> FALSE] \in StreamRecords
    BY DEF StreamRecords, PassEnd
  <2>2. [at |-> "idle", woken |-> FALSE] \in StreamRecords
    BY DEF StreamRecords, PassEnd
  <2>3. stream' \in StreamRecords
    BY <1>7, <2>1, <2>2 DEF ChainPop, streamKeeps
  <2>. QED
    BY <1>7, <2>3 DEF ChainPop, streamKeeps
<1>8. CASE ChainSend
  BY <1>8 DEF ChainSend, streamKeeps
<1>9. CASE CreateNode
  BY <1>9 DEF CreateNode, streamKeeps
<1>10. CASE StartRun
  BY <1>10 DEF StartRun, streamKeeps, Fault
<1>11. CASE StartNotify
  BY <1>11 DEF StartNotify, Fault, Created
<1>12. CASE StartPlay
  BY <1>12 DEF StartPlay, streamKeeps, Fault
<1>13. CASE StartFailed
  BY <1>13 DEF StartFailed
<1>14. CASE StopEnter
  <2>1. pads' \in [sink : BOOLEAN, flushing : BOOLEAN]
    BY <1>14 DEF StopEnter, stopKeeps
  <2>2. stream' \in StreamRecords
    BY <1>14 DEF StopEnter, stopKeeps
  <2>3. app' \in {"null", "ready", "paused", "unlocked", "deactivate", "stop"}
        /\ flush' \in {"idle", "start", "unlocked", "flushing"}
    BY <1>14 DEF StopEnter, stopKeeps
  <2>4. stop' \in StopRecords
    BY <1>14 DEF StopEnter, stopKeeps
  <2>. QED
    BY <2>1, <2>2, <2>3, <2>4
<1>15. CASE StopWait
  BY <1>15 DEF StopWait, stopKeeps
<1>16. CASE StopJoin
  BY <1>16 DEF StopJoin, stopKeeps
<1>17. CASE StopFree
  BY <1>17 DEF StopFree, stopKeeps, PassOver, Freed
<1>18. CASE AlgoError
  <2>1. pads' \in [sink : BOOLEAN, flushing : BOOLEAN]
    BY <1>18 DEF AlgoError, threadKeeps, Fault, GotError, Wake
  <2>2. stream' \in StreamRecords
    BY <1>18 DEF AlgoError, threadKeeps, Fault, GotError, Wake
  <2>3. app' \in {"null", "ready", "paused", "unlocked", "deactivate", "stop"}
        /\ flush' \in {"idle", "start", "unlocked", "flushing"}
    BY <1>18 DEF AlgoError, threadKeeps, Fault, GotError, Wake
  <2>4. stop' \in StopRecords
    BY <1>18 DEF AlgoError, threadKeeps, Fault, GotError, Wake
  <2>. QED
    BY <2>1, <2>2, <2>3, <2>4
<1>19. CASE FatalError
  <2>1. pads' \in [sink : BOOLEAN, flushing : BOOLEAN]
    BY <1>19 DEF FatalError, threadKeeps, Fault, Wake
  <2>2. stream' \in StreamRecords
    BY <1>19 DEF FatalError, threadKeeps, Fault, Wake
  <2>3. app' \in {"null", "ready", "paused", "unlocked", "deactivate", "stop"}
        /\ flush' \in {"idle", "start", "unlocked", "flushing"}
    BY <1>19 DEF FatalError, threadKeeps, Fault, Wake
  <2>4. stop' \in StopRecords
    BY <1>19 DEF FatalError, threadKeeps, Fault, Wake
  <2>. QED
    BY <2>1, <2>2, <2>3, <2>4
<1>20. CASE LoopCheck
  <2>1. pads' \in [sink : BOOLEAN, flushing : BOOLEAN]
    BY <1>20 DEF LoopCheck, loopKeeps, Pause, PassEnd
  <2>2. stream' \in StreamRecords
    BY <1>20 DEF LoopCheck, loopKeeps, Pause, PassEnd
  <2>3. app' \in {"null", "ready", "paused", "unlocked", "deactivate", "stop"}
        /\ flush' \in {"idle", "start", "unlocked", "flushing"}
    BY <1>20 DEF LoopCheck, loopKeeps, Pause, PassEnd
  <2>4. stop' \in StopRecords
    BY <1>20 DEF LoopCheck, loopKeeps, Pause, PassEnd
  <2>. QED
    BY <2>1, <2>2, <2>3, <2>4
<1>21. CASE LoopPush
  <2>1. pads' \in [sink : BOOLEAN, flushing : BOOLEAN]
    BY <1>21 DEF LoopPush, loopKeeps, Pause, PassEnd
  <2>2. stream' \in StreamRecords
    BY <1>21 DEF LoopPush, loopKeeps, Pause, PassEnd
  <2>3. app' \in {"null", "ready", "paused", "unlocked", "deactivate", "stop"}
        /\ flush' \in {"idle", "start", "unlocked", "flushing"}
    BY <1>21 DEF LoopPush, loopKeeps, Pause, PassEnd
  <2>4. stop' \in StopRecords
    BY <1>21 DEF LoopPush, loopKeeps, Pause, PassEnd
  <2>. QED
    BY <2>1, <2>2, <2>3, <2>4
<1>22. CASE LoopReplace
  <2>1. pads' \in [sink : BOOLEAN, flushing : BOOLEAN]
    BY <1>22 DEF LoopReplace, loopKeeps, Pause, PassEnd
  <2>2. stream' \in StreamRecords
    BY <1>22 DEF LoopReplace, loopKeeps, Pause, PassEnd
  <2>3. app' \in {"null", "ready", "paused", "unlocked", "deactivate", "stop"}
        /\ flush' \in {"idle", "start", "unlocked", "flushing"}
    BY <1>22 DEF LoopReplace, loopKeeps, Pause, PassEnd
  <2>4. stop' \in StopRecords
    BY <1>22 DEF LoopReplace, loopKeeps, Pause, PassEnd
  <2>. QED
    BY <2>1, <2>2, <2>3, <2>4
<1>23. CASE NullToReady
  BY <1>23 DEF NullToReady, appKeeps, Fault
<1>24. CASE ReadyToPaused
  BY <1>24 DEF ReadyToPaused, appKeeps
<1>25. CASE PausedToReady
  <2>1. pads' \in [sink : BOOLEAN, flushing : BOOLEAN]
    BY <1>25 DEF PausedToReady, appKeeps, Wake
  <2>2. stream' \in StreamRecords
    BY <1>25 DEF PausedToReady, appKeeps, Wake
  <2>3. app' \in {"null", "ready", "paused", "unlocked", "deactivate", "stop"}
        /\ flush' \in {"idle", "start", "unlocked", "flushing"}
    BY <1>25 DEF PausedToReady, appKeeps, Wake
  <2>4. stop' \in StopRecords
    BY <1>25 DEF PausedToReady, appKeeps, Wake
  <2>. QED
    BY <2>1, <2>2, <2>3, <2>4
<1>26. CASE DeactivateSrc
  BY <1>26 DEF DeactivateSrc, appKeeps
<1>27. CASE StopNode
  BY <1>27 DEF StopNode, appKeeps, Cycle
<1>28. CASE Stopped
  BY <1>28 DEF Stopped, appKeeps
<1>29. CASE ReadyToNull
  BY <1>29 DEF ReadyToNull, appKeeps
<1>30. CASE FlushStart
  <2>1. pads' \in [sink : BOOLEAN, flushing : BOOLEAN]
    BY <1>30 DEF FlushStart, flushKeeps
  <2>2. stream' \in StreamRecords
    BY <1>30 DEF FlushStart, flushKeeps
  <2>3. app' \in {"null", "ready", "paused", "unlocked", "deactivate", "stop"}
        /\ flush' \in {"idle", "start", "unlocked", "flushing"}
    BY <1>30 DEF FlushStart, flushKeeps
  <2>4. stop' \in StopRecords
    BY <1>30 DEF FlushStart, flushKeeps
  <2>. QED
    BY <2>1, <2>2, <2>3, <2>4
<1>31. CASE FlushUnlock
  <2>1. pads' \in [sink : BOOLEAN, flushing : BOOLEAN]
    BY <1>31 DEF FlushUnlock, flushKeeps, Wake
  <2>2. stream' \in StreamRecords
    BY <1>31 DEF FlushUnlock, flushKeeps, Wake
  <2>3. app' \in {"null", "ready", "paused", "unlocked", "deactivate", "stop"}
        /\ flush' \in {"idle", "start", "unlocked", "flushing"}
    BY <1>31 DEF FlushUnlock, flushKeeps, Wake
  <2>4. stop' \in StopRecords
    BY <1>31 DEF FlushUnlock, flushKeeps, Wake
  <2>. QED
    BY <2>1, <2>2, <2>3, <2>4
<1>32. CASE FlushPause
  BY <1>32 DEF FlushPause, flushKeeps
<1>33. CASE FlushStop
  <2>1. pads' \in [sink : BOOLEAN, flushing : BOOLEAN]
    BY <1>33 DEF FlushStop, flushKeeps, Overtakes
  <2>2. stream' \in StreamRecords
    BY <1>33 DEF FlushStop, flushKeeps, Overtakes
  <2>3. app' \in {"null", "ready", "paused", "unlocked", "deactivate", "stop"}
        /\ flush' \in {"idle", "start", "unlocked", "flushing"}
    BY <1>33 DEF FlushStop, flushKeeps, Overtakes
  <2>4. stop' \in StopRecords
    BY <1>33 DEF FlushStop, flushKeeps, Overtakes
  <2>. QED
    BY <2>1, <2>2, <2>3, <2>4
<1>34. CASE \/ GotBuffer \/ StopAnswered \/ ThreadDone \/ LoopPop \/ Down
  BY <1>34 DEF GotBuffer, StopAnswered, ThreadDone, LoopPop, Down, threadKeeps,
    Up, loopKeeps, Finalize, Recycling
<1>35. CASE UNCHANGED vars
  BY <1>35 DEF vars
<1>. QED
  BY <1>1, <1>2, <1>3, <1>4, <1>5, <1>6, <1>7, <1>8, <1>9, <1>10, <1>11, <1>12,
    <1>13, <1>14, <1>15, <1>16, <1>17, <1>18, <1>19, <1>20, <1>21, <1>22,
    <1>23, <1>24, <1>25, <1>26, <1>27, <1>28, <1>29, <1>30, <1>31, <1>32,
    <1>33, <1>34, <1>35
     DEF Next, Stream, Stop, Thread, Loop, App, Flush

(* Only the events of Events happen.                                       *)
LEMMA HistTypesStep == LifeInv /\ [Next]_vars => HistTypes'
<1> SUFFICES ASSUME LifeInv, [Next]_vars PROVE HistTypes'
  OBVIOUS
<1> USE LifeCycleAssumption DEF LifeCycleAssumption, LifeInv, Types, HistTypes,
  Events, dspVars, counters
<1>1. CASE ReinitEnd
  BY <1>1 DEF ReinitEnd, streamKeeps, Overtakes
<1>2. CASE StartRun
  BY <1>2 DEF StartRun, streamKeeps, Fault
<1>3. CASE StartNotify
  BY <1>3 DEF StartNotify, Fault, Created
<1>4. CASE StartFailed
  BY <1>4 DEF StartFailed
<1>5. CASE StopJoin
  BY <1>5 DEF StopJoin, stopKeeps
<1>6. CASE StopFree
  BY <1>6 DEF StopFree, stopKeeps, PassOver, Freed
<1>7. CASE StopAnswered
  BY <1>7 DEF StopAnswered, threadKeeps, Up
<1>8. CASE LoopPush
  BY <1>8 DEF LoopPush, loopKeeps, Pause, PassEnd
<1>9. CASE Down
  BY <1>9 DEF Down, Finalize, loopKeeps, Recycling
<1>10. CASE FlushStop
  BY <1>10 DEF FlushStop, flushKeeps, Overtakes
<1>11. CASE \/ SetCaps \/ ReinitUnlock \/ ReinitCycle \/ ReinitPause
            \/ Chain \/ ChainPop \/ ChainSend \/ CreateNode
            \/ StartPlay \/ StopEnter \/ StopWait \/ GotBuffer
            \/ AlgoError \/ FatalError \/ ThreadDone \/ LoopPop
            \/ LoopCheck \/ LoopReplace \/ NullToReady \/ ReadyToPaused
            \/ PausedToReady \/ DeactivateSrc \/ StopNode \/ Stopped
            \/ ReadyToNull \/ FlushStart \/ FlushUnlock \/ FlushPause
  BY <1>11 DEF SetCaps, ReinitUnlock, ReinitCycle, ReinitPause, Chain,
    ChainPop, ChainSend, CreateNode, StartPlay, StopEnter, StopWait, GotBuffer,
    AlgoError, FatalError, ThreadDone, LoopPop, LoopCheck, LoopReplace,
    NullToReady, ReadyToPaused, PausedToReady, DeactivateSrc, StopNode,
    Stopped, ReadyToNull, FlushStart, FlushUnlock, FlushPause, streamKeeps,
    Cycle, Fault, stopKeeps, threadKeeps, GotError, Wake, loopKeeps, Pause,
    PassEnd, appKeeps, flushKeeps
<1>12. CASE UNCHANGED vars
  BY <1>12 DEF vars
<1>. QED
  BY <1>1, <1>2, <1>3, <1>4, <1>5, <1>6, <1>7, <1>8, <1>9, <1>10, <1>11, <1>12
     DEF Next, Stream, Stop, Thread, Loop, App, Flush

(* ReinitCycle and StopNode use up what a node or a start has added.       *)
LEMMA CycleBoundStep == LifeInv /\ [Next]_vars => CycleBound'
<1> SUFFICES ASSUME LifeInv, [Next]_vars PROVE CycleBound'
  OBVIOUS
<1> USE LifeCycleAssumption DEF LifeCycleAssumption, LifeInv, Types,
  CycleBound, ElTypes, CallTypes, StreamRecords, StopRecords, StreamAt, StopAt,
  Places, dspVars, counters
<1>1. CASE SetCaps
  BY <1>1 DEF SetCaps, streamKeeps
<1>2. CASE ReinitUnlock
  BY <1>2 DEF ReinitUnlock
<1>3. CASE ReinitCycle
  BY <1>3 DEF ReinitCycle, streamKeeps, Cycle
<1>4. CASE ReinitPause
  BY <1>4 DEF ReinitPause
<1>5. CASE ReinitEnd
  BY <1>5 DEF ReinitEnd, streamKeeps, Overtakes
<1>6. CASE Chain
  BY <1>6 DEF Chain, streamKeeps
<1>7. CASE ChainPop
  BY <1>7 DEF ChainPop, streamKeeps
<1>8. CASE ChainSend
  BY <1>8 DEF ChainSend, streamKeeps
<1>9. CASE CreateNode
  BY <1>9 DEF CreateNode, streamKeeps
<1>10. CASE StartRun
  BY <1>10 DEF StartRun, streamKeeps, Fault
<1>11. CASE StartNotify
  BY <1>11 DEF StartNotify, Fault, Created
<1>12. CASE StartPlay
  BY <1>12 DEF StartPlay, streamKeeps, Fault
<1>13. CASE StartFailed
  BY <1>13 DEF StartFailed
<1>14. CASE StopEnter
  BY <1>14 DEF StopEnter, stopKeeps
<1>15. CASE StopWait
  BY <1>15 DEF StopWait, stopKeeps
<1>16. CASE StopFree
  BY <1>16 DEF StopFree, stopKeeps, PassOver, Freed
<1>17. CASE AlgoError
  BY <1>17 DEF AlgoError, threadKeeps, Fault, GotError, Wake
<1>18. CASE FatalError
  BY <1>18 DEF FatalError, threadKeeps, Fault, Wake
<1>19. CASE LoopCheck
  BY <1>19 DEF LoopCheck, loopKeeps, Pause, PassEnd
<1>20. CASE LoopPush
  BY <1>20 DEF LoopPush, loopKeeps, Pause, PassEnd
<1>21. CASE LoopReplace
  BY <1>21 DEF LoopReplace, loopKeeps, Pause, PassEnd
<1>22. CASE NullToReady
  <2>1. el'.node = el.node /\ el'.cycle = el.cycle
    BY <1>22 DEF NullToReady, appKeeps, Fault
  <2>2. stream' = stream /\ nodes' = nodes /\ starts' = starts /\ flushes' = flushes
        /\ faults' \in Nat
    BY <1>22 DEF NullToReady, appKeeps, Fault
  <2>3. app = "null" /\ app' = "ready"
    BY <1>22 DEF NullToReady, appKeeps, Fault
  <2>. QED
    BY <2>1, <2>2, <2>3
<1>23. CASE ReadyToPaused
  BY <1>23 DEF ReadyToPaused, appKeeps
<1>24. CASE PausedToReady
  BY <1>24 DEF PausedToReady, appKeeps, Wake
<1>25. CASE DeactivateSrc
  BY <1>25 DEF DeactivateSrc, appKeeps
<1>26. CASE StopNode
  BY <1>26 DEF StopNode, appKeeps, Cycle
<1>27. CASE Stopped
  BY <1>27 DEF Stopped, appKeeps
<1>28. CASE ReadyToNull
  BY <1>28 DEF ReadyToNull, appKeeps
<1>29. CASE FlushStart
  BY <1>29 DEF FlushStart, flushKeeps
<1>30. CASE FlushUnlock
  BY <1>30 DEF FlushUnlock, flushKeeps, Wake
<1>31. CASE FlushStop
  BY <1>31 DEF FlushStop, flushKeeps, Overtakes
<1>32. CASE \/ StopJoin \/ GotBuffer \/ StopAnswered \/ ThreadDone
            \/ LoopPop \/ Down \/ FlushPause
  BY <1>32 DEF StopJoin, GotBuffer, StopAnswered, ThreadDone, LoopPop, Down,
    FlushPause, stopKeeps, threadKeeps, Up, loopKeeps, Finalize, Recycling,
    flushKeeps
<1>33. CASE UNCHANGED vars
  BY <1>33 DEF vars
<1>. QED
  BY <1>1, <1>2, <1>3, <1>4, <1>5, <1>6, <1>7, <1>8, <1>9, <1>10, <1>11, <1>12,
    <1>13, <1>14, <1>15, <1>16, <1>17, <1>18, <1>19, <1>20, <1>21, <1>22,
    <1>23, <1>24, <1>25, <1>26, <1>27, <1>28, <1>29, <1>30, <1>31, <1>32, <1>33
     DEF Next, Stream, Stop, Thread, Loop, App, Flush

(* A stop and the calls around it keep to their places.                    *)
LEMMA PlacesStep == LifeInv /\ [Next]_vars => Places'
<1> SUFFICES ASSUME LifeInv, [Next]_vars PROVE Places'
  OBVIOUS
<1> USE LifeCycleAssumption DEF LifeCycleAssumption, LifeInv, Types,
  BufferTypes, ElTypes, CallTypes, StreamRecords, StopRecords, StreamAt,
  StopAt, DspTypes, LoopTypes, LoopRecords, CycleBound, Places, LoopPlaces,
  dspVars, counters
<1>1. CASE SetCaps
  BY <1>1 DEF SetCaps, streamKeeps
<1>2. CASE ReinitUnlock
  BY <1>2 DEF ReinitUnlock
<1>3. CASE ReinitCycle
  BY <1>3 DEF ReinitCycle, streamKeeps, Cycle
<1>4. CASE ReinitPause
  BY <1>4 DEF ReinitPause
<1>5. CASE ReinitEnd
  BY <1>5 DEF ReinitEnd, streamKeeps, Overtakes
<1>6. CASE Chain
  BY <1>6 DEF Chain, streamKeeps
<1>7. CASE ChainPop
  BY <1>7 DEF ChainPop, streamKeeps
<1>8. CASE ChainSend
  BY <1>8 DEF ChainSend, streamKeeps
<1>9. CASE CreateNode
  BY <1>9 DEF CreateNode, streamKeeps
<1>10. CASE StartRun
  BY <1>10 DEF StartRun, streamKeeps, Fault
<1>11. CASE StartNotify
  BY <1>11 DEF StartNotify, Fault, Created
<1>12. CASE StartPlay
  BY <1>12 DEF StartPlay, streamKeeps, Fault
<1>13. CASE StartFailed
  BY <1>13 DEF StartFailed
<1>14. CASE StopEnter
  <2>1. CASE el.node = 0
    BY <1>14, <2>1 DEF StopEnter, stopKeeps
  <2>2. CASE el.node # 0
    <3> DEFINE sent == ~el.error /\ bridge = "running"
    <3> DEFINE waits == sent /\ ~el.busy
    <3>1. stop' = [stop EXCEPT !.at = IF waits THEN "wait" ELSE "join",
                               !.msg = IF sent THEN "sent" ELSE "none"]
      BY <1>14, <2>2 DEF StopEnter
    <3> HIDE DEF sent, waits
    <3>2. stop'.by = stop.by /\ stop'.at \in {"wait", "join"}
      BY <3>1
    <3>3. el'.node = el.node /\ stop.at = "enter"
      BY <1>14, <2>2 DEF StopEnter
    <3>. QED
      BY <1>14, <2>2, <3>2, <3>3 DEF StopEnter, stopKeeps
  <2>. QED
    BY <2>1, <2>2
<1>15. CASE StopWait
  BY <1>15 DEF StopWait, stopKeeps
<1>16. CASE StopJoin
  BY <1>16 DEF StopJoin, stopKeeps
<1>17. CASE StopFree
  BY <1>17 DEF StopFree, stopKeeps, PassOver, Freed
<1>18. CASE GotBuffer
  BY <1>18 DEF GotBuffer, threadKeeps
<1>19. CASE AlgoError
  BY <1>19 DEF AlgoError, threadKeeps, Fault, GotError, Wake
<1>20. CASE FatalError
  BY <1>20 DEF FatalError, threadKeeps, Fault, Wake
<1>21. CASE LoopPop
  BY <1>21 DEF LoopPop, loopKeeps
<1>22. CASE LoopCheck
  BY <1>22 DEF LoopCheck, loopKeeps, Pause, PassEnd
<1>23. CASE LoopPush
  BY <1>23 DEF LoopPush, loopKeeps, Pause, PassEnd
<1>24. CASE LoopReplace
  BY <1>24 DEF LoopReplace, loopKeeps, Pause, PassEnd
<1>25. CASE Down
  BY <1>25 DEF Down, Finalize, loopKeeps, Recycling
<1>26. CASE NullToReady
  BY <1>26 DEF NullToReady, appKeeps, Fault
<1>27. CASE ReadyToPaused
  BY <1>27 DEF ReadyToPaused, appKeeps
<1>28. CASE PausedToReady
  BY <1>28 DEF PausedToReady, appKeeps, Wake
<1>29. CASE DeactivateSrc
  BY <1>29 DEF DeactivateSrc, appKeeps
<1>30. CASE StopNode
  BY <1>30 DEF StopNode, appKeeps, Cycle
<1>31. CASE Stopped
  BY <1>31 DEF Stopped, appKeeps
<1>32. CASE ReadyToNull
  BY <1>32 DEF ReadyToNull, appKeeps
<1>33. CASE FlushStart
  BY <1>33 DEF FlushStart, flushKeeps
<1>34. CASE FlushUnlock
  BY <1>34 DEF FlushUnlock, flushKeeps, Wake
<1>35. CASE FlushStop
  BY <1>35 DEF FlushStop, flushKeeps, Overtakes
<1>36. CASE \/ StopAnswered \/ ThreadDone \/ FlushPause
  BY <1>36 DEF StopAnswered, ThreadDone, FlushPause, threadKeeps, Up,
    flushKeeps
<1>37. CASE UNCHANGED vars
  BY <1>37 DEF vars
<1>. QED
  BY <1>1, <1>2, <1>3, <1>4, <1>5, <1>6, <1>7, <1>8, <1>9, <1>10, <1>11, <1>12,
    <1>13, <1>14, <1>15, <1>16, <1>17, <1>18, <1>19, <1>20, <1>21, <1>22,
    <1>23, <1>24, <1>25, <1>26, <1>27, <1>28, <1>29, <1>30, <1>31, <1>32,
    <1>33, <1>34, <1>35, <1>36, <1>37
     DEF Next, Stream, Stop, Thread, Loop, App, Flush

(* The buffer of output_loop stays with its node.                          *)
LEMMA LoopPlacesStep == LifeInv /\ [Next]_vars => LoopPlaces'
<1> SUFFICES ASSUME LifeInv, [Next]_vars PROVE LoopPlaces'
  OBVIOUS
<1> USE LifeCycleAssumption DEF LifeCycleAssumption, LifeInv, Types,
  BufferTypes, ElTypes, CallTypes, StreamRecords, StopRecords, StreamAt,
  StopAt, LoopTypes, LoopRecords, Places, LoopPlaces, Lent, Fresh, dspVars,
  counters
<1>1. CASE SetCaps
  BY <1>1 DEF SetCaps, streamKeeps
<1>2. CASE ReinitUnlock
  BY <1>2 DEF ReinitUnlock
<1>3. CASE ReinitCycle
  BY <1>3 DEF ReinitCycle, streamKeeps, Cycle
<1>4. CASE ReinitPause
  BY <1>4 DEF ReinitPause
<1>5. CASE ReinitEnd
  BY <1>5 DEF ReinitEnd, streamKeeps, Overtakes
<1>6. CASE Chain
  BY <1>6 DEF Chain, streamKeeps
<1>7. CASE ChainPop
  BY <1>7 DEF ChainPop, streamKeeps
<1>8. CASE ChainSend
  BY <1>8 DEF ChainSend, streamKeeps
<1>9. CASE CreateNode
  BY <1>9 DEF CreateNode, streamKeeps
<1>10. CASE StartRun
  BY <1>10 DEF StartRun, streamKeeps, Fault
<1>11. CASE StartNotify
  BY <1>11 DEF StartNotify, Fault, Created
<1>12. CASE StartPlay
  BY <1>12 DEF StartPlay, streamKeeps, Fault
<1>13. CASE StartFailed
  <2>1. el'.node = el.node
    BY <1>13 DEF StartFailed
  <2>2. loop'.at = loop.at /\ loop'.of = loop.of
    BY <1>13 DEF StartFailed
  <2>3. tb' = tb /\ task' = task /\ stream'.at = "idle"
    BY <1>13 DEF StartFailed
  <2>. QED
    BY <2>1, <2>2, <2>3
<1>14. CASE StopEnter
  BY <1>14 DEF StopEnter, stopKeeps
<1>15. CASE StopWait
  BY <1>15 DEF StopWait, stopKeeps
<1>16. CASE StopJoin
  BY <1>16 DEF StopJoin, stopKeeps
<1>17. CASE StopFree
  BY <1>17 DEF StopFree, stopKeeps, PassOver, Freed
<1>18. CASE GotBuffer
  BY <1>18 DEF GotBuffer, threadKeeps
<1>19. CASE AlgoError
  BY <1>19 DEF AlgoError, threadKeeps, Fault, GotError, Wake
<1>20. CASE FatalError
  BY <1>20 DEF FatalError, threadKeeps, Fault, Wake
<1>21. CASE LoopPop
  BY <1>21 DEF LoopPop, loopKeeps
<1>22. CASE LoopCheck
  BY <1>22 DEF LoopCheck, loopKeeps, Pause, PassEnd
<1>23. CASE LoopPush
  BY <1>23 DEF LoopPush, loopKeeps, Pause, PassEnd
<1>24. CASE LoopReplace
  BY <1>24 DEF LoopReplace, loopKeeps, Pause, PassEnd
<1>25. CASE Down
  BY <1>25 DEF Down, Finalize, loopKeeps, Recycling
<1>26. CASE NullToReady
  BY <1>26 DEF NullToReady, appKeeps, Fault
<1>27. CASE ReadyToPaused
  BY <1>27 DEF ReadyToPaused, appKeeps
<1>28. CASE PausedToReady
  BY <1>28 DEF PausedToReady, appKeeps, Wake
<1>29. CASE StopNode
  BY <1>29 DEF StopNode, appKeeps, Cycle
<1>30. CASE FlushUnlock
  BY <1>30 DEF FlushUnlock, flushKeeps, Wake
<1>31. CASE FlushPause
  BY <1>31 DEF FlushPause, flushKeeps
<1>32. CASE FlushStop
  BY <1>32 DEF FlushStop, flushKeeps, Overtakes
<1>33. CASE \/ StopAnswered \/ ThreadDone \/ DeactivateSrc \/ Stopped
            \/ ReadyToNull \/ FlushStart
  BY <1>33 DEF StopAnswered, ThreadDone, DeactivateSrc, Stopped, ReadyToNull,
    FlushStart, threadKeeps, Up, appKeeps, flushKeeps
<1>34. CASE UNCHANGED vars
  BY <1>34 DEF vars
<1>. QED
  BY <1>1, <1>2, <1>3, <1>4, <1>5, <1>6, <1>7, <1>8, <1>9, <1>10, <1>11, <1>12,
    <1>13, <1>14, <1>15, <1>16, <1>17, <1>18, <1>19, <1>20, <1>21, <1>22,
    <1>23, <1>24, <1>25, <1>26, <1>27, <1>28, <1>29, <1>30, <1>31, <1>32,
    <1>33, <1>34
     DEF Next, Stream, Stop, Thread, Loop, App, Flush

(* Fresh buffers are those of the node: ReinitCycle and StopNode end them. *)
LEMMA CookiesStep == LifeInv /\ [Next]_vars => Cookies'
<1> SUFFICES ASSUME LifeInv, [Next]_vars PROVE Cookies'
  OBVIOUS
<1> USE LifeCycleAssumption DEF LifeCycleAssumption, LifeInv, Types, ElTypes,
  BufferTypes, CallTypes, StreamRecords, StopRecords, StreamAt, StopAt,
  LoopTypes, LoopRecords, HistTypes, Places, LoopPlaces, Cookies,
  RecycledAtHome, Fresh, dspVars, counters
<1>1. CASE SetCaps
  BY <1>1 DEF SetCaps, streamKeeps
<1>2. CASE ReinitUnlock
  BY <1>2 DEF ReinitUnlock
<1>3. CASE ReinitCycle
  BY <1>3 DEF ReinitCycle, streamKeeps, Cycle
<1>4. CASE ReinitPause
  BY <1>4 DEF ReinitPause
<1>5. CASE ReinitEnd
  BY <1>5 DEF ReinitEnd, streamKeeps, Overtakes
<1>6. CASE Chain
  BY <1>6 DEF Chain, streamKeeps
<1>7. CASE ChainPop
  BY <1>7 DEF ChainPop, streamKeeps
<1>8. CASE ChainSend
  BY <1>8 DEF ChainSend, streamKeeps
<1>9. CASE CreateNode
  BY <1>9 DEF CreateNode, streamKeeps
<1>10. CASE StartRun
  BY <1>10 DEF StartRun, streamKeeps, Fault
<1>11. CASE StartNotify
  BY <1>11 DEF StartNotify, Fault, Created
<1>12. CASE StartPlay
  BY <1>12 DEF StartPlay, streamKeeps, Fault
<1>13. CASE StartFailed
  <2>1. el'.node = el.node /\ el'.cycle = el.cycle
    BY <1>13 DEF StartFailed
  <2>2. down' = down /\ hist \subseteq hist' /\ app' = app /\ stream'.at = "idle"
    BY <1>13 DEF StartFailed
  <2>3. "stale" \in hist' <=> "stale" \in hist
    BY <1>13 DEF StartFailed
  <2>. QED
    BY <2>1, <2>2, <2>3
<1>14. CASE StopEnter
  BY <1>14 DEF StopEnter, stopKeeps
<1>15. CASE StopWait
  BY <1>15 DEF StopWait, stopKeeps
<1>16. CASE StopJoin
  BY <1>16 DEF StopJoin, stopKeeps
<1>17. CASE StopFree
  BY <1>17 DEF StopFree, stopKeeps, PassOver, Freed
<1>18. CASE StopAnswered
  BY <1>18 DEF StopAnswered, threadKeeps, Up
<1>19. CASE AlgoError
  BY <1>19 DEF AlgoError, threadKeeps, Fault, GotError, Wake
<1>20. CASE FatalError
  BY <1>20 DEF FatalError, threadKeeps, Fault, Wake
<1>21. CASE LoopCheck
  BY <1>21 DEF LoopCheck, loopKeeps, Pause, PassEnd
<1>22. CASE LoopPush
  BY <1>22 DEF LoopPush, loopKeeps, Pause, PassEnd
<1>23. CASE LoopReplace
  BY <1>23 DEF LoopReplace, loopKeeps, Pause, PassEnd
<1>24. CASE Down
  BY <1>24 DEF Down, Finalize, loopKeeps, Recycling
<1>25. CASE NullToReady
  <2>1. el'.node = el.node /\ el'.cycle = el.cycle
    BY <1>25 DEF NullToReady, appKeeps, Fault
  <2>2. down' = down /\ hist' = hist /\ stream' = stream
    BY <1>25 DEF NullToReady, appKeeps, Fault
  <2>3. app' # "stop"
    BY <1>25 DEF NullToReady, appKeeps, Fault
  <2>. QED
    BY <2>1, <2>2, <2>3
<1>26. CASE ReadyToPaused
  BY <1>26 DEF ReadyToPaused, appKeeps
<1>27. CASE PausedToReady
  BY <1>27 DEF PausedToReady, appKeeps, Wake
<1>28. CASE DeactivateSrc
  BY <1>28 DEF DeactivateSrc, appKeeps
<1>29. CASE StopNode
  BY <1>29 DEF StopNode, appKeeps, Cycle
<1>30. CASE Stopped
  BY <1>30 DEF Stopped, appKeeps
<1>31. CASE ReadyToNull
  BY <1>31 DEF ReadyToNull, appKeeps
<1>32. CASE FlushUnlock
  BY <1>32 DEF FlushUnlock, flushKeeps, Wake
<1>33. CASE FlushStop
  BY <1>33 DEF FlushStop, flushKeeps, Overtakes
<1>34. CASE \/ GotBuffer \/ ThreadDone \/ LoopPop \/ FlushStart
            \/ FlushPause
  BY <1>34 DEF GotBuffer, ThreadDone, LoopPop, FlushStart, FlushPause,
    threadKeeps, loopKeeps, flushKeeps
<1>35. CASE UNCHANGED vars
  BY <1>35 DEF vars
<1>. QED
  BY <1>1, <1>2, <1>3, <1>4, <1>5, <1>6, <1>7, <1>8, <1>9, <1>10, <1>11, <1>12,
    <1>13, <1>14, <1>15, <1>16, <1>17, <1>18, <1>19, <1>20, <1>21, <1>22,
    <1>23, <1>24, <1>25, <1>26, <1>27, <1>28, <1>29, <1>30, <1>31, <1>32,
    <1>33, <1>34, <1>35
     DEF Next, Stream, Stop, Thread, Loop, App, Flush

(* A td_buffer that is to come back stays downstream until it does.        *)
LEMMA LentStep == LifeInv /\ [Next]_vars => Lent'
<1> SUFFICES ASSUME LifeInv, [Next]_vars PROVE Lent'
  OBVIOUS
<1> USE LifeCycleAssumption DEF LifeCycleAssumption, LifeInv, Types,
  CycleBound, ElTypes, BufferTypes, CallTypes, StreamRecords, StopRecords,
  StreamAt, StopAt, LoopTypes, LoopRecords, Places, LoopPlaces, Cookies, Fresh,
  Lent, dspVars, counters
<1>1. CASE SetCaps
  BY <1>1 DEF SetCaps, streamKeeps
<1>2. CASE ReinitUnlock
  BY <1>2 DEF ReinitUnlock
<1>3. CASE ReinitCycle
  BY <1>3 DEF ReinitCycle, streamKeeps, Cycle
<1>4. CASE ReinitPause
  BY <1>4 DEF ReinitPause
<1>5. CASE ReinitEnd
  BY <1>5 DEF ReinitEnd, streamKeeps, Overtakes
<1>6. CASE Chain
  BY <1>6 DEF Chain, streamKeeps
<1>7. CASE ChainPop
  BY <1>7 DEF ChainPop, streamKeeps
<1>8. CASE ChainSend
  BY <1>8 DEF ChainSend, streamKeeps
<1>9. CASE CreateNode
  BY <1>9 DEF CreateNode, streamKeeps
<1>10. CASE StartRun
  BY <1>10 DEF StartRun, streamKeeps, Fault
<1>11. CASE StartNotify
  BY <1>11 DEF StartNotify, Fault, Created
<1>12. CASE StartPlay
  BY <1>12 DEF StartPlay, streamKeeps, Fault
<1>13. CASE StartFailed
  <2>1. el'.node = el.node /\ el'.cycle = el.cycle
    BY <1>13 DEF StartFailed
  <2>2. down' = down /\ hist \subseteq hist' /\ app' = app /\ stream'.at = "idle"
    BY <1>13 DEF StartFailed
  <2>3. tb' = tb /\ nodes' = nodes
    BY <1>13 DEF StartFailed
  <2>. QED
    BY <2>1, <2>2, <2>3
<1>14. CASE StopEnter
  BY <1>14 DEF StopEnter, stopKeeps
<1>15. CASE StopWait
  BY <1>15 DEF StopWait, stopKeeps
<1>16. CASE StopFree
  BY <1>16 DEF StopFree, stopKeeps, PassOver, Freed
<1>17. CASE GotBuffer
  BY <1>17 DEF GotBuffer, threadKeeps
<1>18. CASE AlgoError
  BY <1>18 DEF AlgoError, threadKeeps, Fault, GotError, Wake
<1>19. CASE FatalError
  BY <1>19 DEF FatalError, threadKeeps, Fault, Wake
<1>20. CASE LoopPop
  BY <1>20 DEF LoopPop, loopKeeps
<1>21. CASE LoopCheck
  BY <1>21 DEF LoopCheck, loopKeeps, Pause, PassEnd
<1>22. CASE LoopPush
  BY <1>22 DEF LoopPush, loopKeeps, Pause, PassEnd
<1>23. CASE LoopReplace
  BY <1>23 DEF LoopReplace, loopKeeps, Pause, PassEnd
<1>24. CASE Down
  BY <1>24 DEF Down, Finalize, loopKeeps, Recycling
<1>25. CASE NullToReady
  <2>1. el'.node = el.node /\ el'.cycle = el.cycle
    BY <1>25 DEF NullToReady, appKeeps, Fault
  <2>2. down' = down /\ hist' = hist /\ stream' = stream
    BY <1>25 DEF NullToReady, appKeeps, Fault
  <2>3. tb' = tb /\ nodes' = nodes
    BY <1>25 DEF NullToReady, appKeeps, Fault
  <2>. QED
    BY <2>1, <2>2, <2>3
<1>26. CASE ReadyToPaused
  BY <1>26 DEF ReadyToPaused, appKeeps
<1>27. CASE PausedToReady
  BY <1>27 DEF PausedToReady, appKeeps, Wake
<1>28. CASE StopNode
  BY <1>28 DEF StopNode, appKeeps, Cycle
<1>29. CASE FlushUnlock
  BY <1>29 DEF FlushUnlock, flushKeeps, Wake
<1>30. CASE FlushStop
  BY <1>30 DEF FlushStop, flushKeeps, Overtakes
<1>31. CASE \/ StopJoin \/ StopAnswered \/ ThreadDone \/ DeactivateSrc
            \/ Stopped \/ ReadyToNull \/ FlushStart \/ FlushPause
  BY <1>31 DEF StopJoin, StopAnswered, ThreadDone, DeactivateSrc, Stopped,
    ReadyToNull, FlushStart, FlushPause, stopKeeps, threadKeeps, Up, appKeeps,
    flushKeeps
<1>32. CASE UNCHANGED vars
  BY <1>32 DEF vars
<1>. QED
  BY <1>1, <1>2, <1>3, <1>4, <1>5, <1>6, <1>7, <1>8, <1>9, <1>10, <1>11, <1>12,
    <1>13, <1>14, <1>15, <1>16, <1>17, <1>18, <1>19, <1>20, <1>21, <1>22,
    <1>23, <1>24, <1>25, <1>26, <1>27, <1>28, <1>29, <1>30, <1>31, <1>32
     DEF Next, Stream, Stop, Thread, Loop, App, Flush

(* A stop takes away all that a start has made.                            *)
LEMMA OwnedStep == LifeInv /\ [Next]_vars => Owned'
<1> SUFFICES ASSUME LifeInv, [Next]_vars PROVE Owned'
  OBVIOUS
<1> USE LifeCycleAssumption DEF LifeCycleAssumption, LifeInv, Types,
  CycleBound, ElTypes, CallTypes, StreamRecords, StopRecords, StreamAt, StopAt,
  DspTypes, Places, Owned, dspVars, counters
<1>1. CASE ReinitUnlock
  BY <1>1 DEF ReinitUnlock
<1>2. CASE ReinitCycle
  BY <1>2 DEF ReinitCycle, streamKeeps, Cycle
<1>3. CASE ReinitPause
  BY <1>3 DEF ReinitPause
<1>4. CASE ReinitEnd
  BY <1>4 DEF ReinitEnd, streamKeeps, Overtakes
<1>5. CASE CreateNode
  BY <1>5 DEF CreateNode, streamKeeps
<1>6. CASE StartRun
  BY <1>6 DEF StartRun, streamKeeps, Fault
<1>7. CASE StartNotify
  BY <1>7 DEF StartNotify, Fault, Created
<1>8. CASE StartFailed
  BY <1>8 DEF StartFailed
<1>9. CASE StopEnter
  BY <1>9 DEF StopEnter, stopKeeps
<1>10. CASE StopWait
  BY <1>10 DEF StopWait, stopKeeps
<1>11. CASE StopJoin
  BY <1>11 DEF StopJoin, stopKeeps
<1>12. CASE StopFree
  BY <1>12 DEF StopFree, stopKeeps, PassOver, Freed
<1>13. CASE StopAnswered
  BY <1>13 DEF StopAnswered, threadKeeps, Up
<1>14. CASE AlgoError
  BY <1>14 DEF AlgoError, threadKeeps, Fault, GotError, Wake
<1>15. CASE FatalError
  BY <1>15 DEF FatalError, threadKeeps, Fault, Wake
<1>16. CASE ThreadDone
  BY <1>16 DEF ThreadDone, threadKeeps
<1>17. CASE LoopCheck
  BY <1>17 DEF LoopCheck, loopKeeps, Pause, PassEnd
<1>18. CASE LoopPush
  BY <1>18 DEF LoopPush, loopKeeps, Pause, PassEnd
<1>19. CASE LoopReplace
  BY <1>19 DEF LoopReplace, loopKeeps, Pause, PassEnd
<1>20. CASE NullToReady
  BY <1>20 DEF NullToReady, appKeeps, Fault
<1>21. CASE ReadyToPaused
  BY <1>21 DEF ReadyToPaused, appKeeps
<1>22. CASE PausedToReady
  BY <1>22 DEF PausedToReady, appKeeps, Wake
<1>23. CASE DeactivateSrc
  BY <1>23 DEF DeactivateSrc, appKeeps
<1>24. CASE StopNode
  BY <1>24 DEF StopNode, appKeeps, Cycle
<1>25. CASE Stopped
  BY <1>25 DEF Stopped, appKeeps
<1>26. CASE ReadyToNull
  BY <1>26 DEF ReadyToNull, appKeeps
<1>27. CASE FlushUnlock
  BY <1>27 DEF FlushUnlock, flushKeeps, Wake
<1>28. CASE FlushStop
  BY <1>28 DEF FlushStop, flushKeeps, Overtakes
<1>29. CASE \/ SetCaps \/ Chain \/ ChainPop \/ ChainSend \/ StartPlay
            \/ GotBuffer \/ LoopPop \/ Down \/ FlushStart \/ FlushPause
  BY <1>29 DEF SetCaps, Chain, ChainPop, ChainSend, StartPlay, GotBuffer,
    LoopPop, Down, FlushStart, FlushPause, streamKeeps, Fault, threadKeeps,
    loopKeeps, Finalize, Recycling, flushKeeps
<1>30. CASE UNCHANGED vars
  BY <1>30 DEF vars
<1>. QED
  BY <1>1, <1>2, <1>3, <1>4, <1>5, <1>6, <1>7, <1>8, <1>9, <1>10, <1>11, <1>12,
    <1>13, <1>14, <1>15, <1>16, <1>17, <1>18, <1>19, <1>20, <1>21, <1>22,
    <1>23, <1>24, <1>25, <1>26, <1>27, <1>28, <1>29, <1>30
     DEF Next, Stream, Stop, Thread, Loop, App, Flush

(* After the unlock only what overtakes it enables the queues.             *)
LEMMA AwakeStep == LifeInv /\ [Next]_vars => Awake'
<1> SUFFICES ASSUME LifeInv, [Next]_vars PROVE Awake'
  OBVIOUS
<1> USE LifeCycleAssumption DEF LifeCycleAssumption, LifeInv, Types, ElTypes,
  CallTypes, StreamRecords, StopRecords, StreamAt, StopAt, LoopTypes,
  LoopRecords, BufferTypes, HistTypes, Places, LoopPlaces, Awake, dspVars,
  counters
<1>1. CASE ReinitUnlock
  BY <1>1 DEF ReinitUnlock
<1>2. CASE ReinitPause
  BY <1>2 DEF ReinitPause
<1>3. CASE ReinitEnd
  BY <1>3 DEF ReinitEnd, streamKeeps, Overtakes
<1>4. CASE StartRun
  BY <1>4 DEF StartRun, streamKeeps, Fault
<1>5. CASE StartNotify
  BY <1>5 DEF StartNotify, Fault, Created
<1>6. CASE StartFailed
  BY <1>6 DEF StartFailed
<1>7. CASE StopJoin
  BY <1>7 DEF StopJoin, stopKeeps
<1>8. CASE StopFree
  BY <1>8 DEF StopFree, stopKeeps, PassOver, Freed
<1>9. CASE StopAnswered
  BY <1>9 DEF StopAnswered, threadKeeps, Up
<1>10. CASE AlgoError
  BY <1>10 DEF AlgoError, threadKeeps, Fault, GotError, Wake
<1>11. CASE FatalError
  BY <1>11 DEF FatalError, threadKeeps, Fault, Wake
<1>12. CASE LoopPop
  BY <1>12 DEF LoopPop, loopKeeps
<1>13. CASE LoopCheck
  BY <1>13 DEF LoopCheck, loopKeeps, Pause, PassEnd
<1>14. CASE LoopPush
  BY <1>14 DEF LoopPush, loopKeeps, Pause, PassEnd
<1>15. CASE LoopReplace
  BY <1>15 DEF LoopReplace, loopKeeps, Pause, PassEnd
<1>16. CASE Down
  BY <1>16 DEF Down, Finalize, loopKeeps, Recycling
<1>17. CASE NullToReady
  BY <1>17 DEF NullToReady, appKeeps, Fault
<1>18. CASE ReadyToPaused
  BY <1>18 DEF ReadyToPaused, appKeeps
<1>19. CASE PausedToReady
  BY <1>19 DEF PausedToReady, appKeeps, Wake
<1>20. CASE DeactivateSrc
  BY <1>20 DEF DeactivateSrc, appKeeps
<1>21. CASE StopNode
  BY <1>21 DEF StopNode, appKeeps, Cycle
<1>22. CASE Stopped
  BY <1>22 DEF Stopped, appKeeps
<1>23. CASE ReadyToNull
  BY <1>23 DEF ReadyToNull, appKeeps
<1>24. CASE FlushUnlock
  BY <1>24 DEF FlushUnlock, flushKeeps, Wake
<1>25. CASE FlushPause
  BY <1>25 DEF FlushPause, flushKeeps
<1>26. CASE FlushStop
  BY <1>26 DEF FlushStop, flushKeeps, Overtakes
<1>27. CASE \/ SetCaps \/ ReinitCycle \/ Chain \/ ChainPop \/ ChainSend
            \/ CreateNode \/ StartPlay \/ StopEnter \/ StopWait
            \/ GotBuffer \/ ThreadDone \/ FlushStart
  BY <1>27 DEF SetCaps, ReinitCycle, Chain, ChainPop, ChainSend, CreateNode,
    StartPlay, StopEnter, StopWait, GotBuffer, ThreadDone, FlushStart,
    streamKeeps, Cycle, Fault, stopKeeps, threadKeeps, flushKeeps
<1>28. CASE UNCHANGED vars
  BY <1>28 DEF vars
<1>. QED
  BY <1>1, <1>2, <1>3, <1>4, <1>5, <1>6, <1>7, <1>8, <1>9, <1>10, <1>11, <1>12,
    <1>13, <1>14, <1>15, <1>16, <1>17, <1>18, <1>19, <1>20, <1>21, <1>22,
    <1>23, <1>24, <1>25, <1>26, <1>27, <1>28
     DEF Next, Stream, Stop, Thread, Loop, App, Flush

(* The semaphore counts an answer that has come in time, and no other.     *)
LEMMA HeardStep == LifeInv /\ [Next]_vars => Heard'
<1> SUFFICES ASSUME LifeInv, [Next]_vars PROVE Heard'
  OBVIOUS
<1> USE LifeCycleAssumption DEF LifeCycleAssumption, LifeInv, Types, ElTypes,
  CallTypes, StreamRecords, StopRecords, StreamAt, StopAt, DspTypes, HistTypes,
  Places, Owned, Heard, StopHeard, dspVars, counters
<1>1. CASE ReinitPause
  BY <1>1 DEF ReinitPause
<1>2. CASE ReinitEnd
  BY <1>2 DEF ReinitEnd, streamKeeps, Overtakes
<1>3. CASE CreateNode
  BY <1>3 DEF CreateNode, streamKeeps
<1>4. CASE StartRun
  BY <1>4 DEF StartRun, streamKeeps, Fault
<1>5. CASE StartNotify
  BY <1>5 DEF StartNotify, Fault, Created
<1>6. CASE StartFailed
  BY <1>6 DEF StartFailed
<1>7. CASE StopEnter
  BY <1>7 DEF StopEnter, stopKeeps
<1>8. CASE StopWait
  BY <1>8 DEF StopWait, stopKeeps
<1>9. CASE StopJoin
  BY <1>9 DEF StopJoin, stopKeeps
<1>10. CASE StopFree
  BY <1>10 DEF StopFree, stopKeeps, PassOver, Freed
<1>11. CASE StopAnswered
  BY <1>11 DEF StopAnswered, threadKeeps, Up
<1>12. CASE LoopPush
  BY <1>12 DEF LoopPush, loopKeeps, Pause, PassEnd
<1>13. CASE Down
  BY <1>13 DEF Down, Finalize, loopKeeps, Recycling
<1>14. CASE StopNode
  BY <1>14 DEF StopNode, appKeeps, Cycle
<1>15. CASE Stopped
  BY <1>15 DEF Stopped, appKeeps
<1>16. CASE FlushStop
  BY <1>16 DEF FlushStop, flushKeeps, Overtakes
<1>17. CASE \/ SetCaps \/ ReinitUnlock \/ ReinitCycle \/ Chain
            \/ ChainPop \/ ChainSend \/ StartPlay \/ GotBuffer
            \/ AlgoError \/ FatalError \/ ThreadDone \/ LoopPop
            \/ LoopCheck \/ LoopReplace \/ NullToReady \/ ReadyToPaused
            \/ PausedToReady \/ DeactivateSrc \/ ReadyToNull
            \/ FlushStart \/ FlushUnlock \/ FlushPause
  BY <1>17 DEF SetCaps, ReinitUnlock, ReinitCycle, Chain, ChainPop, ChainSend,
    StartPlay, GotBuffer, AlgoError, FatalError, ThreadDone, LoopPop,
    LoopCheck, LoopReplace, NullToReady, ReadyToPaused, PausedToReady,
    DeactivateSrc, ReadyToNull, FlushStart, FlushUnlock, FlushPause,
    streamKeeps, Cycle, Fault, threadKeeps, GotError, Wake, loopKeeps, Pause,
    PassEnd, appKeeps, flushKeeps
<1>18. CASE UNCHANGED vars
  BY <1>18 DEF vars
<1>. QED
  BY <1>1, <1>2, <1>3, <1>4, <1>5, <1>6, <1>7, <1>8, <1>9, <1>10, <1>11, <1>12,
    <1>13, <1>14, <1>15, <1>16, <1>17, <1>18
     DEF Next, Stream, Stop, Thread, Loop, App, Flush

(* A join is of the thread that the start of the node has created.         *)
LEMMA JoinedStep == LifeInv /\ [Next]_vars => Joined'
<1> SUFFICES ASSUME LifeInv, [Next]_vars PROVE Joined'
  OBVIOUS
<1> USE LifeCycleAssumption DEF LifeCycleAssumption, LifeInv, Types, ElTypes,
  CallTypes, StreamRecords, StopRecords, StreamAt, StopAt, DspTypes, HistTypes,
  Places, Owned, Joined, JoinedOnce, dspVars, counters
<1>1. CASE SetCaps
  BY <1>1 DEF SetCaps, streamKeeps
<1>2. CASE ReinitUnlock
  BY <1>2 DEF ReinitUnlock
<1>3. CASE ReinitCycle
  BY <1>3 DEF ReinitCycle, streamKeeps, Cycle
<1>4. CASE ReinitPause
  BY <1>4 DEF ReinitPause
<1>5. CASE ReinitEnd
  BY <1>5 DEF ReinitEnd, streamKeeps, Overtakes
<1>6. CASE Chain
  BY <1>6 DEF Chain, streamKeeps
<1>7. CASE ChainPop
  BY <1>7 DEF ChainPop, streamKeeps
<1>8. CASE ChainSend
  BY <1>8 DEF ChainSend, streamKeeps
<1>9. CASE CreateNode
  BY <1>9 DEF CreateNode, streamKeeps
<1>10. CASE StartRun
  BY <1>10 DEF StartRun, streamKeeps, Fault
<1>11. CASE StartNotify
  BY <1>11 DEF StartNotify, Fault, Created
<1>12. CASE StartPlay
  BY <1>12 DEF StartPlay, streamKeeps, Fault
<1>13. CASE StartFailed
  BY <1>13 DEF StartFailed
<1>14. CASE StopEnter
  BY <1>14 DEF StopEnter, stopKeeps
<1>15. CASE StopWait
  BY <1>15 DEF StopWait, stopKeeps
<1>16. CASE StopJoin
  BY <1>16 DEF StopJoin, stopKeeps
<1>17. CASE StopFree
  BY <1>17 DEF StopFree, stopKeeps, PassOver, Freed
<1>18. CASE StopAnswered
  BY <1>18 DEF StopAnswered, threadKeeps, Up
<1>19. CASE AlgoError
  BY <1>19 DEF AlgoError, threadKeeps, Fault, GotError, Wake
<1>20. CASE FatalError
  BY <1>20 DEF FatalError, threadKeeps, Fault, Wake
<1>21. CASE ThreadDone
  BY <1>21 DEF ThreadDone, threadKeeps
<1>22. CASE LoopCheck
  BY <1>22 DEF LoopCheck, loopKeeps, Pause, PassEnd
<1>23. CASE LoopPush
  BY <1>23 DEF LoopPush, loopKeeps, Pause, PassEnd
<1>24. CASE LoopReplace
  BY <1>24 DEF LoopReplace, loopKeeps, Pause, PassEnd
<1>25. CASE Down
  BY <1>25 DEF Down, Finalize, loopKeeps, Recycling
<1>26. CASE NullToReady
  BY <1>26 DEF NullToReady, appKeeps, Fault
<1>27. CASE ReadyToPaused
  BY <1>27 DEF ReadyToPaused, appKeeps
<1>28. CASE PausedToReady
  BY <1>28 DEF PausedToReady, appKeeps, Wake
<1>29. CASE StopNode
  BY <1>29 DEF StopNode, appKeeps, Cycle
<1>30. CASE Stopped
  BY <1>30 DEF Stopped, appKeeps
<1>31. CASE FlushUnlock
  BY <1>31 DEF FlushUnlock, flushKeeps, Wake
<1>32. CASE FlushStop
  BY <1>32 DEF FlushStop, flushKeeps, Overtakes
<1>33. CASE \/ GotBuffer \/ LoopPop \/ DeactivateSrc \/ ReadyToNull
            \/ FlushStart \/ FlushPause
  BY <1>33 DEF GotBuffer, LoopPop, DeactivateSrc, ReadyToNull, FlushStart,
    FlushPause, threadKeeps, loopKeeps, appKeeps, flushKeeps
<1>34. CASE UNCHANGED vars
  BY <1>34 DEF vars
<1>. QED
  BY <1>1, <1>2, <1>3, <1>4, <1>5, <1>6, <1>7, <1>8, <1>9, <1>10, <1>11, <1>12,
    <1>13, <1>14, <1>15, <1>16, <1>17, <1>18, <1>19, <1>20, <1>21, <1>22,
    <1>23, <1>24, <1>25, <1>26, <1>27, <1>28, <1>29, <1>30, <1>31, <1>32,
    <1>33, <1>34
     DEF Next, Stream, Stop, Thread, Loop, App, Flush

-----------------------------------------------------------------------------
(* The invariant holds at first.                                           *)
LEMMA LifeInit == Init => LifeInv
<1> SUFFICES ASSUME Init PROVE LifeInv
  OBVIOUS
<1> USE LifeCycleAssumption DEF LifeCycleAssumption, Init
<1>1. 0 \in 0 .. MaxNodes /\ 0 \in Nat
  OBVIOUS
<1>2. ElTypes
  BY <1>1 DEF ElTypes
<1>3. DspTypes
  BY <1>1 DEF DspTypes
<1>4. BufferTypes /\ LoopTypes /\ CallTypes /\ HistTypes
  BY DEF BufferTypes, LoopTypes, LoopRecords, CallTypes, StreamRecords, StreamAt,
         StopRecords, StopAt, HistTypes
<1>5. CycleBound /\ Places /\ LoopPlaces
  BY DEF CycleBound, Places, LoopPlaces
<1>6. Cookies /\ Lent /\ Owned /\ Awake /\ Heard /\ Joined
  BY DEF Cookies, RecycledAtHome, Fresh, Lent, Owned, Awake, Heard, StopHeard, Joined,
         JoinedOnce
<1>. QED
  BY <1>2, <1>3, <1>4, <1>5, <1>6 DEF LifeInv, Types

(* It is inductive: every step of every thread keeps each part of it.      *)
THEOREM LifeInvariant == Spec => []LifeInv
<1>1. Init => LifeInv
  BY LifeInit
<1>2. LifeInv /\ [Next]_vars => LifeInv'
  <2> SUFFICES ASSUME LifeInv, [Next]_vars PROVE LifeInv'
    OBVIOUS
  <2>1. Types'
    BY ElTypesStep, DspTypesStep, BufferTypesStep, LoopTypesStep,
       CallTypesStep, HistTypesStep, CycleBoundStep DEF Types
  <2>. QED
    BY <2>1, PlacesStep, LoopPlacesStep, CookiesStep, LentStep, OwnedStep, AwakeStep,
       HeardStep, JoinedStep DEF LifeInv
<1>. QED
  BY <1>1, <1>2, PTL DEF Spec

-----------------------------------------------------------------------------
(* Every variable has its type, for any bounds: cycle is counted on at     *)
(* most once for each start and each node.                                 *)
THEOREM LifeTypeCorrect == Spec => []TypeOK
<1>1. LifeInv => TypeOK
  <2> SUFFICES ASSUME LifeInv PROVE TypeOK
    OBVIOUS
  <2> USE LifeCycleAssumption DEF LifeCycleAssumption, LifeInv, Types
  <2>1. el.cycle \in Nat /\ el.cycle <= MaxNodes + MaxStarts
    BY DEF ElTypes, CycleBound
  <2>2. el \in [status : {"OK", "WRONG_STATE", "ERROR"}, done : BOOLEAN, error : BOOLEAN,
                busy : BOOLEAN, node : 0 .. MaxNodes, cycle : 0 .. MaxNodes + MaxStarts]
    BY <2>1 DEF ElTypes
  <2>3. down \subseteq [of : 1 .. MaxNodes, cookie : 0 .. MaxNodes + MaxStarts]
    BY <2>1 DEF BufferTypes, Cookies
  <2>4. /\ stream.woken \in BOOLEAN
        /\ stop.by \in {"nobody", "app", "stream"} /\ stop.msg \in {"none", "sent", "heard"}
    BY DEF CallTypes, StreamRecords, StopRecords
  <2>. QED
    BY <2>2, <2>3, <2>4
    DEF TypeOK, ElTypes, DspTypes, BufferTypes, LoopTypes, LoopRecords, CallTypes, HistTypes
<1>. QED
  BY <1>1, LifeInvariant, PTL

(* A buffer downstream gives back goes to the node it came from, however   *)
(* nodes, flushes, faults and state changes follow each other, unless      *)
(* gstdsp_reinit had counted cycle on before output_loop wrapped it.       *)
THEOREM LifeRecycledAtHome == Spec => []RecycledAtHome
<1>1. LifeInv => RecycledAtHome
  BY DEF LifeInv, Cookies
<1>. QED
  BY <1>1, LifeInvariant, PTL

(* After a stop nothing is left of a node, and there is never a second.    *)
THEOREM LifeReleased == Spec => []Released
<1>1. LifeInv => Released
  BY DEF LifeInv, Types, Places, Owned, Awake, DspTypes, Released
<1>. QED
  BY <1>1, LifeInvariant, PTL

(* A node is terminated after it has answered STOP or the two seconds are  *)
(* over, as long as no answer comes late.                                  *)
THEOREM LifeStopHeard == Spec => []StopHeard
<1>1. LifeInv => StopHeard
  BY DEF LifeInv, Heard
<1>. QED
  BY <1>1, LifeInvariant, PTL

(* dsp_thread is joined once for every start that has not failed halfway.  *)
THEOREM LifeJoinedOnce == Spec => []JoinedOnce
<1>1. LifeInv => JoinedOnce
  BY DEF LifeInv, Joined
<1>. QED
  BY <1>1, LifeInvariant, PTL
=============================================================================
