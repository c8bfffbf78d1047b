----------------------------- MODULE IppProofs -----------------------------
(***************************************************************************)
(* Theorems about the image processor, for any output buffers and bounds:  *)
(* types, where the buffers are, one message at a time in DFGM's order,    *)
(* and the assertions of got_message.  All follow from IppInv, which is    *)
(* inductive.                                                              *)
(*                                                                         *)
(* Each action is first taken apart (the lemmas named Parts and Is): what  *)
(* it needs, and every field after it.  The lemmas named Kept then take a  *)
(* variable, or a part of IppInv, through the actions: those that move it  *)
(* one by one, and all others at once.                                     *)
(***************************************************************************)
EXTENDS Ipp, SequenceTheorems, TLAPS

(* The inductive invariant, part by part *)

(* The records, and the messages left to send in the order of the code,    *)
(* each time with the state the pipe is to be in then.                     *)
Queueing == <<queue_buffer>> \o flush_queue_buffer
FlushLeft == {flush_queue_buffer, <<flush_pipe, flush_pipe>>, <<flush_pipe>>, <<>>}
ToSend(mode) ==
  CASE mode = "init" ->
         {<<"none", init_pipe>>, <<"xbf", <<set_algorithm, create_pipe, start_processing>>>>,
          <<"algs", <<create_pipe, start_processing>>>>, <<"pipe", <<start_processing>>>>,
          <<"running", <<>>>>}
    [] mode = "frame" -> {"running"} \X ({send_frame, Queueing} \cup FlushLeft)
    [] mode = "stop" ->
         {<<"running", send_stop>>, <<"pipe", <<destroy_pipe, clear_algorithm, destroy_xbf>>>>,
          <<"algs", <<clear_algorithm, destroy_xbf>>>>, <<"xbf", <<destroy_xbf>>>>,
          <<"none", <<>>>>}

MainAt == {"ready", "send", "idle", "refused", "stopped", "pop", "check", "buffer", "otb"}
Modes == {"init", "frame", "stop"}
MainRecords == [at : MainAt, mode : Modes, todo : Seq(Messages), otb : Bufs \cup {NoBuf},
                tb : BOOLEAN, woken : BOOLEAN]
LoopRecords == [at : {"out", "pop", "check", "null", "work"}, tb : Bufs \cup {NoBuf},
                woken : BOOLEAN]
BaseRecords == [status : {"OK", "WRONG_STATE", "ERROR"}, done : BOOLEAN, error : BOOLEAN,
                count : Nat, stale : Nat]
SemRecords == [msg : Nat, sync : Nat]
QRecords == [in : Nat, ipp : Seq(Bufs), out : Seq(Bufs), on : BOOLEAN]
Shapes ==
  /\ fmt \in Formats
  /\ base \in BaseRecords /\ sem \in SemRecords /\ q \in QRecords
  /\ ud \in [Bufs -> BOOLEAN] /\ pinned \in [Bufs -> BOOLEAN] /\ inUd \in BOOLEAN
  /\ out_buf_ptr \in Bufs \cup {NoBuf} /\ lent \subseteq Bufs
  /\ args \subseteq 0 .. 2 /\ dspq \in Seq(Messages) /\ pipe \in PipeStates
  /\ thread \in {"none", "run", "ended"} /\ task \in {"none", "started", "paused"}
  /\ main \in MainRecords /\ loop \in LoopRecords
  /\ app \in {"idle", "flush", "pause", "flushed", "deactivate", "stop", "join", "ready"}
  /\ srcFlush \in BOOLEAN
  /\ {abort, failed, spoiled, surplus} \subseteq BOOLEAN
  /\ frames \in Nat

(* Where a thread has which buffers, and what it has left to send          *)
MainHolds ==
  /\ main.at \in {"ready", "idle", "refused", "stopped", "pop"} => ~main.tb
  /\ main.at \in {"buffer", "otb"} => main.tb
  /\ main.at \in {"pop", "check", "buffer", "otb"} => main.mode = "frame"
  /\ main.otb # NoBuf <=> main.at = "send" /\ main.todo \in {send_frame, Queueing}
  /\ main.at = "send" => (main.tb <=> main.otb # NoBuf)
  /\ main.at = "send" => \E p \in PipeStates : <<p, main.todo>> \in ToSend(main.mode)
  /\ main.woken => main.at \in {"pop", "otb"}
LoopHolds ==
  /\ loop.tb # NoBuf <=> loop.at \in {"check", "work"}
  /\ loop.woken => loop.at = "pop"

(* What a stop goes through, and what there is not while the element is    *)
(* not in use                                                              *)
Stopping ==
  /\ app \in {"flush", "pause", "flushed", "deactivate"} => main.at \notin {"ready", "stopped"}
  /\ app \in {"stop", "join"} => main.at \in {"send", "stopped"} /\ main.mode = "stop"
  /\ app = "join" => main.at = "stopped"
  /\ app = "ready" => main.at = "ready"
  /\ main.at = "stopped" => app \in {"stop", "join"}
  /\ app = "idle" => main.at # "stopped" /\ (main.at = "send" => main.mode # "stop")
  /\ main.at = "send" /\ main.mode = "stop" => app = "stop"
  /\ app \in {"deactivate", "stop", "join", "ready"} => ~q.on
  /\ app \in {"stop", "join", "ready"} \/ main.at = "ready" =>
       loop.at \in {"out", "null"} /\ lent = {}
  /\ main.at = "ready" => /\ task # "started" /\ dspq = <<>> /\ thread = "none"
                          /\ q.in = 0 /\ q.ipp = <<>> /\ q.out = <<>>

(* What the two semaphores count: a message or the right to send one, and  *)
(* a buffer that the DSP has or the news of the one it had.                *)
Semaphores ==
  /\ base.error => failed
  /\ surplus => failed
  /\ sem.msg + Len(dspq) <= IF surplus THEN 2 ELSE 1
  /\ sem.sync + (IF AtDsp THEN 1 ELSE 0) <= 1

(* A buffer that waits for the DSP is the only one, and it is the one of   *)
(* the frame that main sends, or of one that main has given up.            *)
Turns ==
  /\ \A i, j \in DOMAIN dspq : dspq[i] = queue_buffer /\ dspq[j] = queue_buffer => i = j
  /\ main.at = "send" /\ main.todo = Queueing =>
       sem.sync = 0 /\ ~AtDsp /\ out_buf_ptr = main.otb
  /\ AtDsp => out_buf_ptr \in Bufs
  /\ AtDsp => \/ main.at = "send" /\ main.mode = "frame" /\ main.todo \in FlushLeft
              \/ failed
Arguments == ~surplus => (dspq # <<>> => args = Head(dspq).args)

InputKept == Inputs <= 1
OutputsKept == NoneTwice
AllThere ==
  ~failed /\ main.at # "ready" /\ app \in {"idle", "flush", "pause", "flushed", "deactivate"}
    => Inputs = 1 /\ \A b \in Bufs : Spots(b) # {}

(* What the pipe will be when the DSP has answered is what main has sent   *)
Reached == IF dspq = <<>> THEN pipe ELSE Deliver(Head(dspq))
Protocol ==
  ~failed =>
    /\ pipe # "broken" /\ (dspq = <<>> => args = {})
    /\ main.at = "ready" => Reached = "none"
    /\ main.at = "send" => <<Reached, main.todo>> \in ToSend(main.mode)
    /\ main.at \in {"idle", "pop", "check", "buffer", "otb"} => Reached = "running"
    /\ main.at # "refused"
    /\ main.at = "stopped" => pipe = "none" /\ dspq = <<>>

(* Every frame that has an output buffer has been counted.                 *)
InPass == IF loop.tb # NoBuf THEN 1 ELSE 0
InDsp == IF AtDsp THEN 1 ELSE 0
InMain == IF main.at \in {"buffer", "otb"} \/ main.otb # NoBuf THEN 1 ELSE 0
InHand == Len(q.out) + InPass + InDsp + InMain
Counted ==
  /\ InHand <= base.count
  /\ base.stale <= base.count /\ base.count <= frames /\ frames <= MaxFrames
  /\ main.at \in {"pop", "check"} => frames < MaxFrames

(* While no frame was dropped late or came short: the input buffer has its *)
(* reference from pad_chain to the answer, and an output buffer has one    *)
(* only on its way from got_message to output_loop.                        *)
InputMarked == AtDsp \/ main.at \in {"buffer", "otb"} \/ main.otb # NoBuf => inUd
OutputsBare ==
  main.at # "ready" =>
    \A b \in Bufs : ud[b] => ~pinned[b] /\ (b \in Range(q.out) \/ loop.tb = b)
Referenced == ~spoiled => InputMarked /\ OutputsBare

IppInv == /\ Shapes /\ MainHolds /\ LoopHolds /\ Stopping /\ Semaphores /\ Turns /\ Arguments
          /\ InputKept /\ OutputsKept /\ AllThere /\ Protocol /\ Counted /\ Referenced /\ AssertsBut

-----------------------------------------------------------------------------
(* Sequences, messages and what is left to send *)

(* What is in a queue after an append, and that nothing comes into it      *)
(* twice                                                                   *)
LEMMA AppendRange ==
  ASSUME NEW T, NEW s \in Seq(T), NEW x \in T
  PROVE  /\ Append(s, x) \in Seq(T) /\ Len(Append(s, x)) = Len(s) + 1
         /\ Range(Append(s, x)) = Range(s) \cup {x}
         /\ IsInjective(s) /\ x \notin Range(s) => IsInjective(Append(s, x))
<1> DEFINE a == Append(s, x)
<1>1. /\ Len(s) \in Nat /\ DOMAIN s = 1 .. Len(s)
      /\ a \in Seq(T) /\ Len(a) = Len(s) + 1 /\ DOMAIN a = 1 .. Len(s) + 1
      /\ \A i \in DOMAIN s : a[i] = s[i]
      /\ a[Len(s) + 1] = x
  OBVIOUS
<1> HIDE DEF a
<1>2. \A i \in DOMAIN a : i \in DOMAIN s \/ i = Len(s) + 1
  BY <1>1
<1>3. DOMAIN s \subseteq DOMAIN a /\ Len(s) + 1 \in DOMAIN a
  BY <1>1
<1>4. Range(a) = Range(s) \cup {x}
  BY <1>1, <1>2, <1>3 DEF Range
<1>5. IsInjective(s) /\ x \notin Range(s) => IsInjective(a)
  BY <1>1, <1>2 DEF Range, IsInjective
<1> QED
  BY <1>1, <1>4, <1>5 DEF a

(* What is left of a queue without its head                                *)
LEMMA TailRange ==
  ASSUME NEW T, NEW s \in Seq(T), s # <<>>
  PROVE  /\ Head(s) \in T /\ Tail(s) \in Seq(T)
         /\ Len(s) > 0 /\ Len(Tail(s)) = Len(s) - 1
         /\ Range(s) = Range(Tail(s)) \cup {Head(s)}
         /\ IsInjective(s) => IsInjective(Tail(s)) /\ Head(s) \notin Range(Tail(s))
<1> DEFINE t == Tail(s)
<1>1. /\ Len(s) \in Nat /\ Len(s) > 0 /\ DOMAIN s = 1 .. Len(s) /\ Head(s) = s[1] /\ Head(s) \in T
      /\ t \in Seq(T) /\ Len(t) = Len(s) - 1 /\ DOMAIN t = 1 .. Len(s) - 1
      /\ \A i \in DOMAIN t : t[i] = s[i + 1]
  OBVIOUS
<1> HIDE DEF t
<1>2. \A i \in DOMAIN s : i = 1 \/ i - 1 \in DOMAIN t
  BY <1>1
<1>3. \A i \in DOMAIN t : i + 1 \in DOMAIN s /\ i + 1 # 1
  BY <1>1
<1>4. 1 \in DOMAIN s
  BY <1>1
<1>5. Range(s) \subseteq Range(t) \cup {Head(s)}
  <2> SUFFICES ASSUME NEW i \in DOMAIN s, i # 1
               PROVE  s[i] \in Range(t)
    BY <1>1 DEF Range
  <2> QED
    BY <1>1, <1>2 DEF Range
<1>6. Range(t) \cup {Head(s)} \subseteq Range(s)
  BY <1>1, <1>3, <1>4 DEF Range
<1>7. ASSUME IsInjective(s)
      PROVE  IsInjective(t) /\ Head(s) \notin Range(t)
  <2>1. ASSUME NEW i \in DOMAIN t, NEW j \in DOMAIN t, t[i] = t[j]
        PROVE  i = j
    <3>1. i + 1 = j + 1
      BY <1>1, <1>3, <1>7, <2>1 DEF IsInjective
    <3> QED
      BY <1>1, <3>1
  <2>2. ASSUME NEW i \in DOMAIN t
        PROVE  t[i] # Head(s)
    BY <1>1, <1>3, <1>4, <1>7 DEF IsInjective
  <2> QED
    BY <2>1, <2>2 DEF IsInjective, Range
<1> QED
  BY <1>1, <1>5, <1>6, <1>7 DEF t

(* The messages left to send: the first, and those left after it           *)
Left(t, m, r) == t # <<>> /\ Head(t) = m /\ Tail(t) = r

(* Tuples taken apart                                                      *)
LEMMA TuplesLeft ==
  ASSUME NEW a, NEW b, NEW c, NEW d, NEW e
  PROVE  /\ Left(<<a>>, a, <<>>) /\ Left(<<a, b>>, a, <<b>>)
         /\ Left(<<a, b, c>>, a, <<b, c>>) /\ Left(<<a, b, c, d>>, a, <<b, c, d>>)
         /\ Left(<<a, b, c, d, e>>, a, <<b, c, d, e>>)
<1>1. Left(<<a>>, a, <<>>) /\ Left(<<a, b>>, a, <<b>>)
  BY DEF Left
<1>2. Left(<<a, b, c>>, a, <<b, c>>) /\ Left(<<a, b, c, d>>, a, <<b, c, d>>)
  BY DEF Left
<1>3. Left(<<a, b, c, d, e>>, a, <<b, c, d, e>>)
  BY DEF Left
<1> QED
  BY <1>1, <1>2, <1>3

(* The messages of a frame as one tuple: concatenation, element by element *)
LEMMA ConcatTwo ==
  ASSUME NEW a, NEW b, NEW c, NEW d, NEW e
  PROVE  <<a, b>> \o <<c, d, e>> = <<a, b, c, d, e>>
<1> DEFINE T == {a, b, c, d, e}
<1> DEFINE x == <<a, b>> \o <<c, d, e>>
           y == <<a, b, c, d, e>>
<1>1. /\ x \in Seq(T) /\ Len(x) = 5
      /\ x[1] = a /\ x[2] = b /\ x[3] = c /\ x[4] = d /\ x[5] = e
  OBVIOUS
<1>2. /\ y \in Seq(T) /\ Len(y) = 5
      /\ y[1] = a /\ y[2] = b /\ y[3] = c /\ y[4] = d /\ y[5] = e
  OBVIOUS
<1>3. \A i \in 1 .. 5 : i = 1 \/ i = 2 \/ i = 3 \/ i = 4 \/ i = 5
  OBVIOUS
<1> HIDE DEF x, y
<1>4. x = y
  BY <1>1, <1>2, <1>3, SeqEqual
<1> QED
  BY <1>4 DEF x, y

(* The same for what is left of a frame after control_pipe                 *)
LEMMA ConcatOne ==
  ASSUME NEW a, NEW c, NEW d, NEW e
  PROVE  <<a>> \o <<c, d, e>> = <<a, c, d, e>>
<1> DEFINE T == {a, c, d, e}
<1> DEFINE x == <<a>> \o <<c, d, e>>
           y == <<a, c, d, e>>
<1>1. /\ x \in Seq(T) /\ Len(x) = 4
      /\ x[1] = a /\ x[2] = c /\ x[3] = d /\ x[4] = e
  OBVIOUS
<1>2. /\ y \in Seq(T) /\ Len(y) = 4
      /\ y[1] = a /\ y[2] = c /\ y[3] = d /\ y[4] = e
  OBVIOUS
<1>3. \A i \in 1 .. 4 : i = 1 \/ i = 2 \/ i = 3 \/ i = 4
  OBVIOUS
<1> HIDE DEF x, y
<1>4. x = y
  BY <1>1, <1>2, <1>3, SeqEqual
<1> QED
  BY <1>4 DEF x, y

(* control_pipe, queue_buffer and three flush_pipe make a frame.           *)
LEMMA FrameTuples ==
  /\ send_frame = <<control_pipe, queue_buffer, flush_pipe, flush_pipe, flush_pipe>>
  /\ Queueing = <<queue_buffer, flush_pipe, flush_pipe, flush_pipe>>
<1>1. <<control_pipe, queue_buffer>> \o <<flush_pipe, flush_pipe, flush_pipe>>
        = <<control_pipe, queue_buffer, flush_pipe, flush_pipe, flush_pipe>>
  BY ConcatTwo
<1>2. <<queue_buffer>> \o <<flush_pipe, flush_pipe, flush_pipe>>
        = <<queue_buffer, flush_pipe, flush_pipe, flush_pipe>>
  BY ConcatOne
<1> QED
  BY <1>1, <1>2, Zenon DEF send_frame, Queueing, flush_queue_buffer

(* How the messages of the three jobs follow each other, with what DFGM    *)
(* makes of them.                                                          *)
Asks(m, p, r) == m \in Messages /\ Transition[m.id][1] = p /\ Transition[m.id][2] = r

(* The messages are those of the three jobs of send_msg.                   *)
LEMMA MessageSet ==
  Messages = {create_xbf, set_algorithm, create_pipe, start_processing, control_pipe,
              queue_buffer, flush_pipe, stop_processing, destroy_pipe, clear_algorithm,
              destroy_xbf}
<1>1. ASSUME NEW a, NEW b, NEW c, NEW d
      PROVE  Range(<<a, b, c, d>>) = {a, b, c, d}
  <2> DEFINE y == <<a, b, c, d>>
  <2>1. DOMAIN y = 1 .. 4 /\ y[1] = a /\ y[2] = b /\ y[3] = c /\ y[4] = d
    OBVIOUS
  <2>2. \A i \in 1 .. 4 : i = 1 \/ i = 2 \/ i = 3 \/ i = 4
    OBVIOUS
  <2>3. 1 \in 1 .. 4 /\ 2 \in 1 .. 4 /\ 3 \in 1 .. 4 /\ 4 \in 1 .. 4
    OBVIOUS
  <2> HIDE DEF y
  <2>4. Range(y) = {a, b, c, d}
    BY <2>1, <2>2, <2>3 DEF Range
  <2> QED
    BY <2>4 DEF y
<1>2. ASSUME NEW a, NEW b, NEW c, NEW d, NEW e
      PROVE  Range(<<a, b, c, d, e>>) = {a, b, c, d, e}
  <2> DEFINE y == <<a, b, c, d, e>>
  <2>1. DOMAIN y = 1 .. 5 /\ y[1] = a /\ y[2] = b /\ y[3] = c /\ y[4] = d /\ y[5] = e
    OBVIOUS
  <2>2. \A i \in 1 .. 5 : i = 1 \/ i = 2 \/ i = 3 \/ i = 4 \/ i = 5
    OBVIOUS
  <2>3. 1 \in 1 .. 5 /\ 2 \in 1 .. 5 /\ 3 \in 1 .. 5 /\ 4 \in 1 .. 5 /\ 5 \in 1 .. 5
    OBVIOUS
  <2> HIDE DEF y
  <2>4. Range(y) = {a, b, c, d, e}
    BY <2>1, <2>2, <2>3 DEF Range
  <2> QED
    BY <2>4 DEF y
<1>3. Range(init_pipe) = {create_xbf, set_algorithm, create_pipe, start_processing}
  BY <1>1 DEF init_pipe
<1>4. Range(send_stop) = {stop_processing, destroy_pipe, clear_algorithm, destroy_xbf}
  BY <1>1 DEF send_stop
<1>5. Range(send_frame) = {control_pipe, queue_buffer, flush_pipe}
  BY <1>2, FrameTuples
<1> QED
  BY <1>3, <1>4, <1>5 DEF Messages

(* What state each message asks for, and what it makes of the pipe         *)
LEMMA Asked ==
  /\ Asks(create_xbf, "none", "xbf") /\ Asks(set_algorithm, "xbf", "algs")
  /\ Asks(create_pipe, "algs", "pipe") /\ Asks(start_processing, "pipe", "running")
  /\ Asks(control_pipe, "running", "running") /\ Asks(queue_buffer, "running", "running")
  /\ Asks(flush_pipe, "running", "running")
  /\ Asks(stop_processing, "running", "pipe") /\ Asks(destroy_pipe, "pipe", "algs")
  /\ Asks(clear_algorithm, "algs", "xbf") /\ Asks(destroy_xbf, "xbf", "none")
BY MessageSet DEF Asks, Transition, Message, create_xbf, set_algorithm, create_pipe,
   start_processing, control_pipe, queue_buffer, flush_pipe, stop_processing,
   destroy_pipe, clear_algorithm, destroy_xbf

(* control_pipe and queue_buffer are told apart by their id; of msg_ptr a  *)
(* message sets no more than three pointers.                               *)
LEMMA MessageIds ==
  /\ queue_buffer # control_pipe /\ queue_buffer # flush_pipe /\ control_pipe # flush_pipe
  /\ \A m \in {create_xbf, set_algorithm, create_pipe, start_processing, stop_processing,
               destroy_pipe, clear_algorithm, destroy_xbf} :
        m # queue_buffer /\ m # control_pipe
  /\ \A m \in Messages : m.args \subseteq 0 .. 2
BY MessageSet DEF Message, create_xbf, set_algorithm, create_pipe,
   start_processing, control_pipe, queue_buffer, flush_pipe, stop_processing,
   destroy_pipe, clear_algorithm, destroy_xbf

(* What init_pipe and send_stop have left after each message               *)
LEMMA JobLeft ==
  /\ Left(<<create_xbf, set_algorithm, create_pipe, start_processing>>, create_xbf,
          <<set_algorithm, create_pipe, start_processing>>)
  /\ Left(<<set_algorithm, create_pipe, start_processing>>, set_algorithm,
          <<create_pipe, start_processing>>)
  /\ Left(<<create_pipe, start_processing>>, create_pipe, <<start_processing>>)
  /\ Left(<<start_processing>>, start_processing, <<>>)
  /\ Left(<<stop_processing, destroy_pipe, clear_algorithm, destroy_xbf>>, stop_processing,
          <<destroy_pipe, clear_algorithm, destroy_xbf>>)
  /\ Left(<<destroy_pipe, clear_algorithm, destroy_xbf>>, destroy_pipe,
          <<clear_algorithm, destroy_xbf>>)
  /\ Left(<<clear_algorithm, destroy_xbf>>, clear_algorithm, <<destroy_xbf>>)
  /\ Left(<<destroy_xbf>>, destroy_xbf, <<>>)
  /\ Left(<<control_pipe, queue_buffer, flush_pipe, flush_pipe, flush_pipe>>, control_pipe,
          <<queue_buffer, flush_pipe, flush_pipe, flush_pipe>>)
  /\ Left(<<queue_buffer, flush_pipe, flush_pipe, flush_pipe>>, queue_buffer,
          <<flush_pipe, flush_pipe, flush_pipe>>)
  /\ Left(<<flush_pipe, flush_pipe, flush_pipe>>, flush_pipe, <<flush_pipe, flush_pipe>>)
  /\ Left(<<flush_pipe, flush_pipe>>, flush_pipe, <<flush_pipe>>)
  /\ Left(<<flush_pipe>>, flush_pipe, <<>>)
BY TuplesLeft

(* The next message left to send asks for the state the pipe is to be in   *)
(* then, and what is left after it goes on from there.                     *)
LEMMA NextMessage ==
  ASSUME NEW mode \in Modes, NEW p, NEW t, <<p, t>> \in ToSend(mode), t # <<>>
  PROVE  /\ Asks(Head(t), p, Transition[Head(t).id][2])
         /\ <<Transition[Head(t).id][2], Tail(t)>> \in ToSend(mode)
<1> DEFINE After == Transition[Head(t).id][2]
<1>1. CASE mode = "init"
  <2>1. \/ p = "none" /\ t = <<create_xbf, set_algorithm, create_pipe, start_processing>>
        \/ p = "xbf" /\ t = <<set_algorithm, create_pipe, start_processing>>
        \/ p = "algs" /\ t = <<create_pipe, start_processing>>
        \/ p = "pipe" /\ t = <<start_processing>>
    BY <1>1 DEF ToSend, init_pipe
  <2>2. \/ p = "none" /\ Head(t) = create_xbf
           /\ Tail(t) = <<set_algorithm, create_pipe, start_processing>>
        \/ p = "xbf" /\ Head(t) = set_algorithm /\ Tail(t) = <<create_pipe, start_processing>>
        \/ p = "algs" /\ Head(t) = create_pipe /\ Tail(t) = <<start_processing>>
        \/ p = "pipe" /\ Head(t) = start_processing /\ Tail(t) = <<>>
    BY <2>1, JobLeft DEF Left
  <2> QED
    BY <1>1, <2>2, Asked DEF ToSend, Asks
<1>2. CASE mode = "stop"
  <2>1. \/ p = "running" /\ t = <<stop_processing, destroy_pipe, clear_algorithm, destroy_xbf>>
        \/ p = "pipe" /\ t = <<destroy_pipe, clear_algorithm, destroy_xbf>>
        \/ p = "algs" /\ t = <<clear_algorithm, destroy_xbf>>
        \/ p = "xbf" /\ t = <<destroy_xbf>>
    BY <1>2 DEF ToSend, send_stop
  <2>2. \/ p = "running" /\ Head(t) = stop_processing
           /\ Tail(t) = <<destroy_pipe, clear_algorithm, destroy_xbf>>
        \/ p = "pipe" /\ Head(t) = destroy_pipe /\ Tail(t) = <<clear_algorithm, destroy_xbf>>
        \/ p = "algs" /\ Head(t) = clear_algorithm /\ Tail(t) = <<destroy_xbf>>
        \/ p = "xbf" /\ Head(t) = destroy_xbf /\ Tail(t) = <<>>
    BY <2>1, JobLeft DEF Left
  <2> QED
    BY <1>2, <2>2, Asked DEF ToSend, Asks
<1>3. CASE mode = "frame"
  <2>1. /\ p = "running"
        /\ \/ t = <<control_pipe, queue_buffer, flush_pipe, flush_pipe, flush_pipe>>
           \/ t = <<queue_buffer, flush_pipe, flush_pipe, flush_pipe>>
           \/ t = <<flush_pipe, flush_pipe, flush_pipe>>
           \/ t = <<flush_pipe, flush_pipe>>
           \/ t = <<flush_pipe>>
    BY <1>3, FrameTuples DEF ToSend, FlushLeft, flush_queue_buffer
  <2>2. \/ Head(t) = control_pipe /\ Tail(t) = <<queue_buffer, flush_pipe, flush_pipe, flush_pipe>>
        \/ Head(t) = queue_buffer /\ Tail(t) = <<flush_pipe, flush_pipe, flush_pipe>>
        \/ Head(t) = flush_pipe /\ Tail(t) = <<flush_pipe, flush_pipe>>
        \/ Head(t) = flush_pipe /\ Tail(t) = <<flush_pipe>>
        \/ Head(t) = flush_pipe /\ Tail(t) = <<>>
    BY <2>1, JobLeft DEF Left
  <2>3. Asks(Head(t), "running", "running") /\ After = "running"
    BY <2>2, Asked DEF Asks
  <2>4. Tail(t) \in {Queueing} \cup FlushLeft
    BY <2>2, FrameTuples DEF FlushLeft, flush_queue_buffer
  <2> QED
    BY <1>3, <2>1, <2>3, <2>4 DEF ToSend, Asks
<1> QED
  BY <1>1, <1>2, <1>3 DEF Modes

(* A frame: control_pipe, then queue_buffer, then only flush_pipe          *)
LEMMA FrameOrder ==
  /\ send_frame # <<>> /\ Head(send_frame) = control_pipe /\ Tail(send_frame) = Queueing
  /\ Queueing # <<>> /\ Head(Queueing) = queue_buffer /\ Tail(Queueing) \in FlushLeft
  /\ send_frame # Queueing /\ send_frame \notin FlushLeft /\ Queueing \notin FlushLeft
  /\ \A t \in FlushLeft : t # <<>> => Head(t) = flush_pipe /\ Tail(t) \in FlushLeft
<1>1. /\ send_frame # <<>> /\ Head(send_frame) = control_pipe /\ Tail(send_frame) = Queueing
      /\ Queueing # <<>> /\ Head(Queueing) = queue_buffer
      /\ Tail(Queueing) = <<flush_pipe, flush_pipe, flush_pipe>>
  BY FrameTuples, JobLeft DEF Left
<1>2. ASSUME NEW t \in FlushLeft, t # <<>>
      PROVE  Head(t) = flush_pipe /\ Tail(t) \in FlushLeft
  <2>1. \/ t = <<flush_pipe, flush_pipe, flush_pipe>>
        \/ t = <<flush_pipe, flush_pipe>>
        \/ t = <<flush_pipe>>
    BY <1>2 DEF FlushLeft, flush_queue_buffer
  <2>2. /\ Head(t) = flush_pipe
        /\ \/ Tail(t) = <<flush_pipe, flush_pipe>>
           \/ Tail(t) = <<flush_pipe>>
           \/ Tail(t) = <<>>
    BY <2>1, JobLeft DEF Left
  <2> QED
    BY <2>2 DEF FlushLeft
<1>3. Tail(Queueing) \in FlushLeft
  BY <1>1 DEF FlushLeft, flush_queue_buffer
<1> QED
  BY <1>1, <1>2, <1>3, MessageIds

(* The jobs that are no frame have nothing to do with buffers.             *)
LEMMA OtherJobs ==
  ASSUME NEW mode \in Modes, mode # "frame", NEW p, NEW t, <<p, t>> \in ToSend(mode)
  PROVE  /\ t \notin {send_frame, Queueing}
         /\ t # <<>> => Head(t) \notin {control_pipe, queue_buffer}
<1>1. CASE mode = "init"
  <2>1. \/ t = <<create_xbf, set_algorithm, create_pipe, start_processing>>
        \/ t = <<set_algorithm, create_pipe, start_processing>>
        \/ t = <<create_pipe, start_processing>>
        \/ t = <<start_processing>>
        \/ t = <<>>
    BY <1>1 DEF ToSend, init_pipe
  <2>2. t # <<>> => Head(t) \in {create_xbf, set_algorithm, create_pipe, start_processing}
    BY <2>1, JobLeft DEF Left
  <2> QED
    BY <2>2, MessageIds, FrameOrder
<1>2. CASE mode = "stop"
  <2>1. \/ t = <<stop_processing, destroy_pipe, clear_algorithm, destroy_xbf>>
        \/ t = <<destroy_pipe, clear_algorithm, destroy_xbf>>
        \/ t = <<clear_algorithm, destroy_xbf>>
        \/ t = <<destroy_xbf>>
        \/ t = <<>>
    BY <1>2 DEF ToSend, send_stop
  <2>2. t # <<>> => Head(t) \in {stop_processing, destroy_pipe, clear_algorithm, destroy_xbf}
    BY <2>1, JobLeft DEF Left
  <2> QED
    BY <2>2, MessageIds, FrameOrder
<1> QED
  BY <1>1, <1>2 DEF Modes

(* A frame is sent while the pipe runs.                                    *)
LEMMA FrameJob ==
  ASSUME NEW p, NEW t, <<p, t>> \in ToSend("frame")
  PROVE  p = "running" /\ t \in {send_frame, Queueing} \cup FlushLeft
BY DEF ToSend

(* A job begins and ends with the pipe in the state it should be in.       *)
LEMMA JobStates ==
  /\ \A mode \in Modes : \A p, t : <<p, t>> \in ToSend(mode) => p \in PipeStates \ {"broken"}
  /\ <<"none", init_pipe>> \in ToSend("init") /\ <<"running", send_frame>> \in ToSend("frame")
  /\ <<"running", send_stop>> \in ToSend("stop")
  /\ \A p : <<p, <<>> >> \in ToSend("init") => p = "running"
  /\ \A p : <<p, <<>> >> \in ToSend("frame") => p = "running"
  /\ \A p : <<p, <<>> >> \in ToSend("stop") => p = "none"
BY FrameOrder DEF ToSend, Modes, PipeStates, init_pipe, send_stop

(* The jobs are sequences of messages.                                     *)
LEMMA JobMessages ==
  init_pipe \in Seq(Messages) /\ send_frame \in Seq(Messages) /\ send_stop \in Seq(Messages)
<1>1. ASSUME NEW T, NEW a \in T, NEW b \in T, NEW c \in T, NEW d \in T, NEW e \in T
      PROVE  <<a, b, c, d>> \in Seq(T) /\ <<a, b, c, d, e>> \in Seq(T)
  OBVIOUS
<1> QED
  BY <1>1, MessageSet, FrameTuples DEF init_pipe, send_stop

-----------------------------------------------------------------------------
(* The actions, field by field                                             *)

(* What the assumption on the constants says of the buffers                *)
LEMMA BufTypes ==
  /\ OutBufs \in Seq(Bufs) /\ IsInjective(OutBufs) /\ Range(OutBufs) = Bufs
  /\ NoBuf \notin Bufs /\ MaxFrames \in Nat
<1>1. OutBufs \in Seq(Nat) /\ DOMAIN OutBufs = 1 .. Len(OutBufs)
  BY IppAssumption
<1>2. OutBufs \in Seq(Bufs)
  BY <1>1 DEF Bufs, Range
<1>3. \A i \in DOMAIN OutBufs : OutBufs[i] \in Nat
  BY <1>1
<1>4. NoBuf \notin Bufs
  BY <1>3 DEF Bufs, Range, NoBuf
<1> QED
  BY <1>2, <1>4, IppAssumption DEF Bufs

(* A step, field by field                                                  *)
MainIs(a, m, t, o, b) ==
  /\ main' \in MainRecords
  /\ main'.at = a /\ main'.mode = m /\ main'.todo = t /\ main'.otb = o /\ main'.tb = b
  /\ main'.woken => main'.at \in {"pop", "otb"}
LoopIs(a, b) ==
  /\ loop' \in LoopRecords
  /\ loop'.at = a /\ loop'.tb = b
  /\ loop'.woken => loop'.at = "pop"
BaseIs(s, d, e, c, n) ==
  /\ base' \in BaseRecords
  /\ base'.status = s /\ base'.done = d /\ base'.error = e /\ base'.count = c /\ base'.stale = n
SemIs(m, s) == sem' \in SemRecords /\ sem'.msg = m /\ sem'.sync = s
QIs(i, p, o, n) ==
  q' \in QRecords /\ q'.in = i /\ q'.ipp = p /\ q'.out = o /\ q'.on = n
MainKept == MainIs(main.at, main.mode, main.todo, main.otb, main.tb)
LoopKept == LoopIs(loop.at, loop.tb)
Held == Shapes /\ MainHolds /\ LoopHolds

(* The types of the fields of the records                                  *)
LEMMA Fields ==
  ASSUME Shapes
  PROVE  /\ main.at \in MainAt /\ main.mode \in Modes /\ main.todo \in Seq(Messages)
         /\ main.otb \in Bufs \cup {NoBuf} /\ main.tb \in BOOLEAN /\ main.woken \in BOOLEAN
         /\ loop.at \in {"out", "pop", "check", "null", "work"} /\ loop.tb \in Bufs \cup {NoBuf}
         /\ loop.woken \in BOOLEAN
         /\ base.status \in {"OK", "WRONG_STATE", "ERROR"} /\ base.done \in BOOLEAN
         /\ base.error \in BOOLEAN /\ base.count \in Nat /\ base.stale \in Nat
         /\ sem.msg \in Nat /\ sem.sync \in Nat
         /\ q.in \in Nat /\ q.ipp \in Seq(Bufs) /\ q.out \in Seq(Bufs) /\ q.on \in BOOLEAN
         /\ <<>> \in Seq(Messages) /\ <<>> \in Seq(Bufs)
BY DEF Shapes, MainRecords, LoopRecords, BaseRecords, SemRecords, QRecords

(* Nothing changes in what is not assigned.                                *)
LEMMA Kept ==
  ASSUME Held
  PROVE  /\ main' = main => MainKept
         /\ loop' = loop => LoopKept
         /\ WakeMain => MainKept
         /\ WakeLoop => LoopKept
<1>1. main' = main => MainKept
  BY DEF Held, Shapes, MainHolds, MainKept, MainIs
<1>2. loop' = loop => LoopKept
  BY DEF Held, Shapes, LoopHolds, LoopKept, LoopIs
<1>3. ASSUME WakeMain
      PROVE  MainKept
  <2> DEFINE w == main.at \in {"pop", "otb"}
  <2>1. w \in BOOLEAN /\ main' = [main EXCEPT !.woken = w]
    BY <1>3 DEF WakeMain
  <2>2. w => main.at \in {"pop", "otb"}
    OBVIOUS
  <2> HIDE DEF w
  <2> QED
    BY <2>1, <2>2 DEF Held, Shapes, MainRecords, MainKept, MainIs
<1>4. ASSUME WakeLoop
      PROVE  LoopKept
  <2> DEFINE w == loop.at = "pop"
  <2>1. w \in BOOLEAN /\ loop' = [loop EXCEPT !.woken = w]
    BY <1>4 DEF WakeLoop
  <2>2. w => loop.at = "pop"
    OBVIOUS
  <2> HIDE DEF w
  <2> QED
    BY <2>1, <2>2 DEF Held, Shapes, LoopRecords, LoopKept, LoopIs
<1> QED
  BY <1>1, <1>2, <1>3, <1>4

(* SetCaps, field by field; so for every action below                      *)
LEMMA SetCapsParts ==
  ASSUME Held, SetCaps
  PROVE  /\ main.at = "ready" /\ app = "idle" /\ fmt' \in Formats
         /\ QIs(1, OutBufs, <<>>, q.on)
         /\ ud' = [b \in Bufs |-> FALSE] /\ pinned' = [b \in Bufs |-> TRUE]
         /\ inUd' = FALSE /\ lent' = {} /\ thread' = "run" /\ task' = "started"
         /\ MainIs("send", "init", init_pipe, main.otb, main.tb)
         /\ UNCHANGED <<base, sem, out_buf_ptr, args, dspq, pipe, srcFlush, loop, app, abort,
                        failed, spoiled, surplus, frames>>
<1>1. QIs(1, OutBufs, <<>>, q.on)
  <2>1. q' = [q EXCEPT !.in = 1, !.ipp = OutBufs, !.out = <<>>] /\ q \in QRecords
    BY DEF SetCaps, Held, Shapes
  <2> QED
    BY <2>1, BufTypes, EmptySeq DEF QIs, QRecords
<1>2. MainIs("send", "init", init_pipe, main.otb, main.tb)
  BY JobMessages DEF SetCaps, Held, Shapes, MainHolds, MainIs, MainRecords, MainAt, Modes
<1> QED
  BY <1>1, <1>2 DEF SetCaps, histVars, counters

(* sink_setcaps refuses the size.                                          *)
LEMMA CapsRefusedParts ==
  ASSUME Held, CapsRefused
  PROVE  /\ main.at \in {"ready", "idle", "refused"} /\ app = "idle"
         /\ BaseIs("ERROR", base.done, FALSE, base.count, base.stale)
         /\ QIs(q.in, q.ipp, q.out, FALSE)
         /\ MainKept /\ LoopKept
         /\ UNCHANGED <<fmt, sem, ud, pinned, inUd, out_buf_ptr, lent, args, dspq, pipe,
                        thread, task, srcFlush, app, abort, failed, spoiled, surplus, frames>>
<1>1. q \in QRecords /\ base \in BaseRecords
  BY DEF Held, Shapes
<1>2. /\ base' = [base EXCEPT !.status = "ERROR", !.error = FALSE]
      /\ q' = [q EXCEPT !.on = FALSE] /\ main' = main /\ WakeLoop
  BY DEF CapsRefused, Disabled
<1>3. BaseIs("ERROR", base.done, FALSE, base.count, base.stale)
  BY <1>1, <1>2 DEF BaseIs, BaseRecords
<1>4. QIs(q.in, q.ipp, q.out, FALSE)
  BY <1>1, <1>2 DEF QIs, QRecords
<1> QED
  BY <1>2, <1>3, <1>4, Kept DEF CapsRefused, bufVars, dspVars, padVars, histVars, counters

(* send_msg                                                                *)
LEMMA SendMsgParts ==
  ASSUME Held, SendMsg
  PROVE  LET m == Head(main.todo) IN
         /\ main.at = "send" /\ main.todo # <<>> /\ sem.msg > 0
         /\ MainIs("send", main.mode, Tail(main.todo),
                   IF m = queue_buffer THEN NoBuf ELSE main.otb,
                   IF m = queue_buffer THEN FALSE ELSE main.tb)
         /\ SemIs(sem.msg - 1, IF m = control_pipe THEN 0 ELSE sem.sync)
         /\ dspq' = Append(dspq, m) /\ args' = m.args
         /\ out_buf_ptr' = IF m = control_pipe THEN main.otb ELSE out_buf_ptr
         /\ UNCHANGED <<fmt, base, q, ud, pinned, inUd, lent, pipe, thread, task, srcFlush, loop,
                        app, abort, failed, spoiled, surplus, frames>>
<1>1. Tail(main.todo) \in Seq(Messages)
  BY Fields, TailRange DEF SendMsg, Held
<1>2. MainIs("send", main.mode, Tail(main.todo),
             IF Head(main.todo) = queue_buffer THEN NoBuf ELSE main.otb,
             IF Head(main.todo) = queue_buffer THEN FALSE ELSE main.tb)
  BY <1>1 DEF SendMsg, Held, Shapes, MainHolds, MainIs, MainRecords, MainAt
<1>3. SemIs(sem.msg - 1, IF Head(main.todo) = control_pipe THEN 0 ELSE sem.sync)
  BY DEF SendMsg, Held, Shapes, SemIs, SemRecords, Taken
<1> QED
  BY <1>2, <1>3 DEF SendMsg, mainKeeps, padVars, histVars, counters

GivenUp == MainIs(IF main.mode = "frame" THEN "idle"
                  ELSE IF main.mode = "init" THEN "refused" ELSE "stopped",
                  main.mode, <<>>, NoBuf, FALSE)

(* send_msg returns false.                                                 *)
LEMMA GiveUpParts ==
  ASSUME Held, GiveUp, main.at = "send"
  PROVE  failed' = TRUE /\ GivenUp
<1> DEFINE a == IF main.mode = "frame" THEN "idle"
                ELSE IF main.mode = "init" THEN "refused" ELSE "stopped"
<1>1. a \in MainAt /\ <<>> \in Seq(Messages)
  BY DEF MainAt
<1>2. main' = [main EXCEPT !.at = a, !.todo = <<>>, !.otb = NoBuf, !.tb = FALSE]
  BY DEF GiveUp
<1> HIDE DEF a
<1>3. MainIs(a, main.mode, <<>>, NoBuf, FALSE)
  BY <1>1, <1>2 DEF MainIs, MainRecords, Held, Shapes, MainHolds
<1> QED
  BY <1>3 DEF a, GiveUp, GivenUp

(* send_msg returns false after IPP_TIMEOUT.                               *)
LEMMA TimeoutParts ==
  ASSUME Held, SendTimesOut \/ SentTimesOut
  PROVE  /\ main.at = "send" /\ failed' = TRUE /\ GivenUp
         /\ UNCHANGED <<fmt, base, sem, q, ud, pinned, inUd, out_buf_ptr, lent, args, dspq, pipe,
                        thread, task, srcFlush, loop, app, abort, spoiled, surplus, frames>>
<1>1. main.at = "send" /\ GiveUp
  BY DEF SendTimesOut, SentTimesOut
<1> QED
  BY <1>1, GiveUpParts DEF SendTimesOut, SentTimesOut, mainKeeps, padVars, bufVars, counters

(* send_msg cannot send.                                                   *)
LEMMA SendFailsParts ==
  ASSUME Held, SendFails
  PROVE  /\ main.at = "send" /\ main.todo # <<>> /\ sem.msg > 0 /\ ~failed /\ failed' = TRUE
         /\ GivenUp /\ args' = Head(main.todo).args
         /\ SemIs(sem.msg - 1, sem.sync)
         /\ UNCHANGED <<fmt, base, q, ud, pinned, inUd, out_buf_ptr, lent, dspq, pipe,
                        thread, task, srcFlush, loop, app, abort, spoiled, surplus, frames>>
<1>1. main.at = "send" /\ GiveUp
  BY DEF SendFails
<1>2. SemIs(sem.msg - 1, sem.sync)
  BY DEF SendFails, Held, Shapes, SemIs, SemRecords
<1> QED
  BY <1>1, <1>2, GiveUpParts DEF SendFails, mainKeeps, padVars, bufVars, counters

(* Everything is sent.                                                     *)
LEMMA SentParts ==
  ASSUME Held, Sent
  PROVE  /\ main.at = "send" /\ main.todo = <<>>
         /\ \/ /\ main.mode = "init"
               /\ MainIs("idle", "init", <<>>, main.otb, main.tb)
               /\ SemIs(sem.msg, sem.sync)
            \/ /\ main.mode = "frame" /\ sem.sync > 0
               /\ MainIs("idle", "frame", <<>>, main.otb, main.tb)
               /\ SemIs(sem.msg, sem.sync - 1)
            \/ /\ main.mode = "stop" /\ sem.msg > 0
               /\ MainIs("stopped", "stop", <<>>, main.otb, main.tb)
               /\ SemIs(sem.msg - 1, sem.sync)
         /\ UNCHANGED <<fmt, base, q, ud, pinned, inUd, out_buf_ptr, lent, args, dspq, pipe,
                        thread, task, srcFlush, loop, app, abort, failed, spoiled, surplus, frames>>
<1>1. CASE main.mode = "init"
  <2>1. MainIs("idle", "init", <<>>, main.otb, main.tb)
    BY <1>1 DEF Sent, Held, Shapes, MainHolds, MainIs, MainRecords, MainAt
  <2>2. SemIs(sem.msg, sem.sync)
    BY <1>1 DEF Sent, Held, Shapes, SemIs
  <2> QED
    BY <1>1, <2>1, <2>2 DEF Sent, mainKeeps, padVars, bufVars, histVars, counters
<1>2. CASE main.mode = "frame"
  <2>1. MainIs("idle", "frame", <<>>, main.otb, main.tb)
    BY <1>2 DEF Sent, Held, Shapes, MainHolds, MainIs, MainRecords, MainAt
  <2>2. SemIs(sem.msg, sem.sync - 1) /\ sem.sync > 0
    BY <1>2 DEF Sent, Held, Shapes, SemIs, SemRecords
  <2> QED
    BY <1>2, <2>1, <2>2 DEF Sent, mainKeeps, padVars, bufVars, histVars, counters
<1>3. CASE main.mode = "stop"
  <2>1. MainIs("stopped", "stop", <<>>, main.otb, main.tb)
    BY <1>3 DEF Sent, Held, Shapes, MainHolds, MainIs, MainRecords, MainAt
  <2>2. SemIs(sem.msg - 1, sem.sync) /\ sem.msg > 0
    BY <1>3 DEF Sent, AwaitsLast, Held, Shapes, SemIs, SemRecords
  <2> QED
    BY <1>3, <2>1, <2>2 DEF Sent, mainKeeps, padVars, bufVars, histVars, counters
<1> QED
  BY <1>1, <1>2, <1>3 DEF Sent

(* pad_chain takes the input buffer.                                       *)
LEMMA ChainPopParts ==
  ASSUME Held, ChainPop
  PROVE  /\ \/ main.at = "idle" /\ app = "idle" /\ frames < MaxFrames
            \/ main.at = "pop"
         /\ \/ /\ q.in > 0 /\ QIs(q.in - 1, q.ipp, q.out, q.on)
               /\ MainIs("check", "frame", main.todo, main.otb, TRUE)
            \/ /\ q' = q
               /\ MainIs("check", "frame", main.todo, main.otb, main.tb)
            \/ /\ q' = q /\ main.at = "idle"
               /\ MainIs("pop", "frame", main.todo, main.otb, main.tb)
         /\ UNCHANGED <<fmt, base, sem, ud, pinned, inUd, out_buf_ptr, lent, args, dspq, pipe,
                        thread, task, srcFlush, loop, app, abort, failed, spoiled, surplus, frames>>
<1> DEFINE Other == /\ \/ main.at = "idle" /\ app = "idle" /\ frames < MaxFrames
                       \/ main.at = "pop"
                    /\ UNCHANGED <<fmt, base, sem, ud, pinned, inUd, out_buf_ptr, lent, args,
                                   dspq, pipe, thread, task, srcFlush, loop, app, abort, failed,
                                   spoiled, surplus, frames>>
<1>0. Other
  BY DEF ChainPop, mainKeeps, padVars, bufVars, histVars, counters
<1> HIDE DEF Other
<1>1. ASSUME q.in > 0, q' = [q EXCEPT !.in = @ - 1],
             main' = [main EXCEPT !.at = "check", !.mode = "frame", !.tb = TRUE, !.woken = FALSE]
      PROVE  /\ QIs(q.in - 1, q.ipp, q.out, q.on)
             /\ MainIs("check", "frame", main.todo, main.otb, TRUE)
  <2>1. q \in QRecords /\ main \in MainRecords
    BY DEF Held, Shapes
  <2>2. QIs(q.in - 1, q.ipp, q.out, q.on)
    BY <1>1, <2>1 DEF QIs, QRecords
  <2> QED
    BY <1>1, <2>1, <2>2 DEF MainIs, MainRecords, MainAt, Modes
<1>2. ASSUME main' = [main EXCEPT !.at = "check", !.mode = "frame", !.woken = FALSE]
      PROVE  MainIs("check", "frame", main.todo, main.otb, main.tb)
  BY <1>2 DEF Held, Shapes, MainIs, MainRecords, MainAt, Modes
<1>3. ASSUME main' = [main EXCEPT !.at = "pop", !.mode = "frame"]
      PROVE  MainIs("pop", "frame", main.todo, main.otb, main.tb)
  BY <1>3 DEF Held, Shapes, MainIs, MainRecords, MainAt, Modes
<1> QED
  BY <1>0, <1>1, <1>2, <1>3 DEF ChainPop, Other

(* pad_chain fills it, or gives it back.                                   *)
LEMMA ChainCheckParts ==
  ASSUME Held, ChainCheck
  PROVE  /\ main.at = "check"
         /\ \/ /\ base.status # "OK"
               /\ QIs(IF main.tb THEN q.in + 1 ELSE q.in, q.ipp, q.out, q.on)
               /\ MainIs("idle", main.mode, main.todo, main.otb, FALSE)
               /\ UNCHANGED <<base, inUd, spoiled, frames>>
            \/ /\ base.status = "OK" /\ main.tb
               /\ BaseIs(base.status, base.done, base.error, base.count + 1, base.stale)
               /\ frames' = frames + 1
               /\ inUd' \in BOOLEAN /\ spoiled' \in BOOLEAN
               /\ ~spoiled' => inUd' /\ ~spoiled
               /\ spoiled => spoiled'
               /\ MainIs("buffer", main.mode, main.todo, main.otb, main.tb)
               /\ UNCHANGED q
         /\ UNCHANGED <<fmt, sem, ud, pinned, out_buf_ptr, lent, args, dspq, pipe,
                        thread, task, srcFlush, loop, app, abort, failed, surplus>>
<1> DEFINE Other == UNCHANGED <<fmt, sem, ud, pinned, out_buf_ptr, lent, args, dspq, pipe,
                                thread, task, srcFlush, loop, app, abort, failed, surplus>>
<1>0. main.at = "check" /\ Other
  BY DEF ChainCheck, mainKeeps, padVars
<1>1. q \in QRecords /\ main \in MainRecords /\ base \in BaseRecords /\ spoiled \in BOOLEAN
      /\ (main.woken => main.at \in {"pop", "otb"})
  BY DEF Held, Shapes, MainHolds
<1> HIDE DEF Other
<1>2. ASSUME base.status # "OK",
             q' = [q EXCEPT !.in = IF main.tb THEN @ + 1 ELSE @],
             main' = [main EXCEPT !.at = "idle", !.tb = FALSE]
      PROVE  /\ QIs(IF main.tb THEN q.in + 1 ELSE q.in, q.ipp, q.out, q.on)
             /\ MainIs("idle", main.mode, main.todo, main.otb, FALSE)
  <2>1. QIs(IF main.tb THEN q.in + 1 ELSE q.in, q.ipp, q.out, q.on)
    BY <1>1, <1>2 DEF QIs, QRecords
  <2> QED
    BY <1>0, <1>1, <1>2, <2>1 DEF MainIs, MainRecords, MainAt
<1>3. ASSUME base' = [base EXCEPT !.count = @ + 1],
             main' = [main EXCEPT !.at = "buffer"]
      PROVE  /\ BaseIs(base.status, base.done, base.error, base.count + 1, base.stale)
             /\ MainIs("buffer", main.mode, main.todo, main.otb, main.tb)
  <2>1. BaseIs(base.status, base.done, base.error, base.count + 1, base.stale)
    BY <1>1, <1>3 DEF BaseIs, BaseRecords
  <2> QED
    BY <1>0, <1>1, <1>3, <2>1 DEF MainIs, MainRecords, MainAt
<1>4. ASSUME NEW full \in {TRUE, ~MayShort}, inUd' = HasRef(full), spoiled' = (spoiled \/ ~full)
      PROVE  /\ inUd' \in BOOLEAN /\ spoiled' \in BOOLEAN
             /\ ~spoiled' => inUd' /\ ~spoiled
             /\ spoiled => spoiled'
  <2>1. (full = TRUE \/ full = FALSE) /\ inUd' = full
    BY <1>4, IppAssumption DEF HasRef
  <2>2. CASE full = TRUE
    BY <1>1, <1>4, <2>1, <2>2
  <2>3. CASE full = FALSE
    BY <1>1, <1>4, <2>1, <2>3
  <2> QED
    BY <2>1, <2>2, <2>3
<1> QED
  BY <1>0, <1>2, <1>3, <1>4 DEF ChainCheck, Other

(* send_buffer takes an output buffer, or gives the input buffer back.     *)
LEMMA SendBufferParts ==
  ASSUME Held, SendBuffer
  PROVE  /\ (main.at = "buffer" /\ ~base.error) \/ main.at = "otb"
         /\ \/ /\ q.ipp # <<>>
               /\ QIs(q.in, Tail(q.ipp), q.out, q.on)
               /\ MainIs("send", main.mode, send_frame, Head(q.ipp), main.tb)
               /\ inUd' = inUd
            \/ /\ QIs(q.in + 1, q.ipp, q.out, q.on)
               /\ MainIs("idle", main.mode, main.todo, main.otb, FALSE)
               /\ inUd' = FALSE
            \/ /\ main.at = "buffer"
               /\ MainIs("otb", main.mode, main.todo, main.otb, main.tb)
               /\ UNCHANGED <<q, inUd>>
         /\ UNCHANGED <<fmt, base, sem, ud, pinned, out_buf_ptr, lent, args, dspq, pipe,
                        thread, task, srcFlush, loop, app, abort, failed, spoiled, surplus, frames>>
<1> DEFINE Other == UNCHANGED <<fmt, base, sem, ud, pinned, out_buf_ptr, lent, args, dspq, pipe,
                                thread, task, srcFlush, loop, app, abort,
                                failed, spoiled, surplus, frames>>
<1>0. ((main.at = "buffer" /\ ~base.error) \/ main.at = "otb") /\ Other
  BY DEF SendBuffer, mainKeeps, padVars, histVars, counters
<1>1. q \in QRecords /\ main \in MainRecords /\ q.ipp \in Seq(Bufs)
      /\ (main.woken => main.at \in {"pop", "otb"})
  BY Fields DEF Held, Shapes, MainHolds
<1> HIDE DEF Other
<1>2. ASSUME q.ipp # <<>>,
             q' = [q EXCEPT !.ipp = Tail(@)],
             main' = [main EXCEPT !.at = "send", !.otb = Head(q.ipp), !.woken = FALSE,
                                !.todo = send_frame]
      PROVE  /\ QIs(q.in, Tail(q.ipp), q.out, q.on)
             /\ MainIs("send", main.mode, send_frame, Head(q.ipp), main.tb)
  <2>1. Head(q.ipp) \in Bufs /\ Tail(q.ipp) \in Seq(Bufs)
    BY <1>1, <1>2, TailRange
  <2>2. QIs(q.in, Tail(q.ipp), q.out, q.on)
    BY <1>1, <1>2, <2>1 DEF QIs, QRecords
  <2> QED
    BY <1>1, <1>2, <2>1, <2>2, JobMessages DEF MainIs, MainRecords, MainAt
<1>3. ASSUME q' = [q EXCEPT !.in = TakeBack],
             main' = [main EXCEPT !.at = "idle", !.tb = FALSE, !.woken = FALSE]
      PROVE  /\ QIs(q.in + 1, q.ipp, q.out, q.on)
             /\ MainIs("idle", main.mode, main.todo, main.otb, FALSE)
  <2>1. QIs(q.in + 1, q.ipp, q.out, q.on)
    BY <1>1, <1>3 DEF QIs, QRecords, TakeBack
  <2> QED
    BY <1>1, <1>3, <2>1 DEF MainIs, MainRecords, MainAt
<1>4. ASSUME main' = [main EXCEPT !.at = "otb"]
      PROVE  MainIs("otb", main.mode, main.todo, main.otb, main.tb)
  BY <1>0, <1>1, <1>4 DEF MainIs, MainRecords, MainAt
<1> QED
  BY <1>0, <1>2, <1>3, <1>4 DEF SendBuffer, Other

(* send_buffer after dsp_error                                             *)
LEMMA SendBufferErrorParts ==
  ASSUME Held, SendBufferError
  PROVE  /\ main.at = "buffer" /\ base.error
         /\ MainIs("idle", main.mode, main.todo, main.otb, FALSE)
         /\ UNCHANGED <<fmt, base, sem, q, ud, pinned, inUd, out_buf_ptr, lent, args, dspq, pipe,
                        thread, task, srcFlush, loop, app, abort, failed, spoiled, surplus, frames>>
<1>1. main \in MainRecords /\ (main.woken => main.at \in {"pop", "otb"}) /\ main.at = "buffer"
      /\ main' = [main EXCEPT !.at = "idle", !.tb = FALSE]
  BY DEF Held, Shapes, MainHolds, SendBufferError
<1>2. MainIs("idle", main.mode, main.todo, main.otb, FALSE)
  BY <1>1 DEF MainIs, MainRecords, MainAt
<1> QED
  BY <1>2 DEF SendBufferError, mainKeeps, padVars, bufVars, histVars, counters

(* What the DSP does with a message leaves its pipe in one of the states.  *)
LEMMA Delivered ==
  ASSUME NEW m \in Messages
  PROVE  Deliver(m) \in PipeStates
<1>1. Transition[m.id][2] \in PipeStates
  BY MessageSet, Asked, Zenon DEF Asks, PipeStates
<1> QED
  BY <1>1 DEF Deliver, PipeStates

(* got_message, but for the buffers of DFGM_FREE_BUFF                      *)
LEMMA AnswerParts ==
  ASSUME Held, Answer
  PROVE  /\ thread = "run" /\ dspq # <<>> /\ dspq' = Tail(dspq) /\ args' = {}
         /\ pipe' = Deliver(Head(dspq))
         /\ \/ /\ Head(dspq) # queue_buffer
               /\ SemIs(sem.msg + 1, sem.sync)
               /\ UNCHANGED <<q, ud, pinned, inUd, abort>>
            \/ /\ Head(dspq) = queue_buffer
               /\ SemIs(sem.msg + 1, sem.sync + 1)
               /\ FreeBuff
         /\ UNCHANGED <<fmt, base, out_buf_ptr, lent, thread, task, srcFlush, main, loop, app,
                        failed, spoiled, surplus, frames>>
<1>0. sem \in SemRecords
  BY DEF Held, Shapes
<1>1. ASSUME sem' = [sem EXCEPT !.msg = @ + 1]
      PROVE  SemIs(sem.msg + 1, sem.sync)
  BY <1>0, <1>1 DEF SemIs, SemRecords
<1>2. ASSUME sem' = [msg |-> sem.msg + 1, sync |-> sem.sync + 1]
      PROVE  SemIs(sem.msg + 1, sem.sync + 1)
  BY <1>0, <1>2 DEF SemIs, SemRecords
<1> QED
  BY <1>1, <1>2 DEF Answer, dspKeeps, padVars, counters

(* The buffers of DFGM_FREE_BUFF                                           *)
LEMMA FreeBuffParts ==
  ASSUME Held, FreeBuff, out_buf_ptr \in Bufs
  PROVE  /\ abort' \in BOOLEAN /\ ud' \in [Bufs -> BOOLEAN] /\ pinned' \in [Bufs -> BOOLEAN]
         /\ inUd' = FALSE
         /\ QIs(q.in + 1, q.ipp, Append(q.out, out_buf_ptr), q.on)
         /\ abort' => ~inUd \/ ud[out_buf_ptr]
         /\ \A b \in Bufs : b # out_buf_ptr => ud'[b] = ud[b] /\ pinned'[b] = pinned[b]
         /\ ud'[out_buf_ptr] => ud[out_buf_ptr] \/ ~pinned'[out_buf_ptr]
<1> DEFINE o == Overwrites(fmt)
           a == o /\ (~inUd \/ ud[out_buf_ptr])
<1>1. o \in BOOLEAN
  BY DEF Overwrites
<1>2. /\ a \in BOOLEAN /\ abort' = a
      /\ ud' = [ud EXCEPT ![out_buf_ptr] = @ \/ o]
      /\ pinned' = [pinned EXCEPT ![out_buf_ptr] = @ /\ ~o]
      /\ inUd' = FALSE
      /\ q' = [q EXCEPT !.in = @ + 1, !.out = Append(@, out_buf_ptr)]
  BY DEF FreeBuff
<1>3. a => ~inUd \/ ud[out_buf_ptr]
  OBVIOUS
<1> HIDE DEF o, a
<1>4. q \in QRecords /\ ud \in [Bufs -> BOOLEAN] /\ pinned \in [Bufs -> BOOLEAN]
  BY DEF Held, Shapes
<1>5. Append(q.out, out_buf_ptr) \in Seq(Bufs)
  BY Fields, AppendRange DEF Held
<1>6. QIs(q.in + 1, q.ipp, Append(q.out, out_buf_ptr), q.on)
  <2> DEFINE w == Append(q.out, out_buf_ptr)
             i == q.in + 1
  <2>1. w \in Seq(Bufs) /\ i \in Nat /\ q' = [q EXCEPT !.in = i, !.out = w]
    BY <1>2, <1>5, Fields DEF Held
  <2> HIDE DEF w, i
  <2>2. QIs(i, q.ipp, w, q.on)
    BY <1>4, <2>1 DEF QIs, QRecords
  <2> QED
    BY <2>2 DEF w, i
<1>7. /\ ud' \in [Bufs -> BOOLEAN] /\ pinned' \in [Bufs -> BOOLEAN]
      /\ \A b \in Bufs : b # out_buf_ptr => ud'[b] = ud[b] /\ pinned'[b] = pinned[b]
      /\ ud'[out_buf_ptr] => ud[out_buf_ptr] \/ ~pinned'[out_buf_ptr]
  BY <1>1, <1>2, <1>4
<1> QED
  BY <1>2, <1>3, <1>6, <1>7

(* gstdsp_got_error                                                        *)
LEMMA GotErrorParts ==
  ASSUME Held, NEW e \in BOOLEAN, GotError(e)
  PROVE  /\ BaseIs("ERROR", TRUE, e, base.count, base.stale)
         /\ QIs(q.in, q.ipp, q.out, FALSE)
         /\ MainKept /\ LoopKept
<1>1. q \in QRecords /\ base \in BaseRecords
  BY DEF Held, Shapes
<1>2. /\ base' = [base EXCEPT !.status = "ERROR", !.error = e, !.done = TRUE]
      /\ q' = [q EXCEPT !.on = FALSE] /\ WakeMain /\ WakeLoop
  BY DEF GotError, Disabled
<1>3. BaseIs("ERROR", TRUE, e, base.count, base.stale)
  BY <1>1, <1>2 DEF BaseIs, BaseRecords
<1>4. QIs(q.in, q.ipp, q.out, FALSE)
  BY <1>1, <1>2 DEF QIs, QRecords
<1> QED
  BY <1>2, <1>3, <1>4, Kept

(* An error in an answer, and an error event                               *)
LEMMA ErrorParts ==
  ASSUME Held, AnswerError \/ EventError
  PROVE  /\ ~failed /\ failed' = TRUE /\ thread = "run" /\ args' = {}
         /\ surplus' \in BOOLEAN
         /\ dspq' = dspq \/ (dspq # <<>> /\ dspq' = Tail(dspq))
         /\ ~surplus' => dspq # <<>> /\ dspq' = Tail(dspq)
         /\ AnswerError => dspq # <<>> /\ dspq' = Tail(dspq) /\ surplus' = surplus
         /\ EventError => (surplus' <=> dspq' = dspq)
         /\ BaseIs("ERROR", TRUE, base'.error, base.count, base.stale)
         /\ SemIs(sem.msg + 1, sem.sync)
         /\ QIs(q.in, q.ipp, q.out, FALSE)
         /\ MainKept /\ LoopKept
         /\ UNCHANGED <<fmt, ud, pinned, inUd, out_buf_ptr, lent, pipe, thread, task, srcFlush,
                        app, abort, spoiled, frames>>
<1>0. sem \in SemRecords /\ surplus \in BOOLEAN
  BY DEF Held, Shapes
<1>1. ASSUME sem' = [sem EXCEPT !.msg = @ + 1]
      PROVE  SemIs(sem.msg + 1, sem.sync)
  BY <1>0, <1>1 DEF SemIs, SemRecords
<1>2. ASSUME NEW e \in BOOLEAN, GotError(e)
      PROVE  /\ BaseIs("ERROR", TRUE, base'.error, base.count, base.stale)
             /\ QIs(q.in, q.ipp, q.out, FALSE)
             /\ MainKept /\ LoopKept
  <2>1. BaseIs("ERROR", TRUE, e, base.count, base.stale)
    BY <1>2, GotErrorParts
  <2> QED
    BY <1>2, <2>1, GotErrorParts DEF BaseIs
<1>3. CASE AnswerError
  <2>1. GotError(FALSE) /\ sem' = [sem EXCEPT !.msg = @ + 1]
    BY <1>3 DEF AnswerError
  <2>2. ~EventError \/ dspq' = Tail(dspq)
    BY <1>3 DEF AnswerError
  <2> QED
    BY <1>0, <1>1, <1>2, <1>3, <2>1 DEF AnswerError, EventError, dspKeeps, padVars, counters
<1>4. CASE EventError
  <2>1. /\ \E e \in BOOLEAN : GotError(e)
        /\ sem' = [sem EXCEPT !.msg = @ + 1]
    BY <1>4 DEF EventError
  <2>2. dspq' = dspq \/ (dspq # <<>> /\ dspq' = Tail(dspq))
    BY <1>4 DEF EventError
  <2> QED
    BY <1>0, <1>1, <1>2, <1>4, <2>1, <2>2 DEF AnswerError, EventError, dspKeeps, padVars, counters
<1> QED
  BY <1>3, <1>4

(* dsp_thread returns.                                                     *)
LEMMA ThreadEndsParts ==
  ASSUME ThreadEnds
  PROVE  /\ thread = "run" /\ base.done /\ thread' = "ended"
         /\ UNCHANGED <<fmt, base, sem, q, ud, pinned, inUd, out_buf_ptr, lent, args, dspq, pipe,
                        task, srcFlush, main, loop, app, abort, failed, spoiled, surplus, frames>>
BY DEF ThreadEnds, dspKeeps, padVars, counters

(* The end of a pass of output_loop                                        *)
LEMMA PassEndIs ==
  ASSUME loop' = PassEnd
  PROVE  LoopIs("out", NoBuf)
BY DEF PassEnd, LoopIs, LoopRecords

(* output_loop takes a frame.                                              *)
LEMMA LoopPopParts ==
  ASSUME Held, LoopPop
  PROVE  /\ (loop.at = "out" /\ task = "started") \/ loop.at = "pop"
         /\ \/ /\ q.out # <<>> /\ (q.on \/ loop.woken)
               /\ QIs(q.in, q.ipp, Tail(q.out), q.on)
               /\ LoopIs("check", Head(q.out))
            \/ q' = q /\ LoopIs("null", NoBuf)
            \/ q' = q /\ q.on /\ loop.at = "out" /\ LoopIs("pop", loop.tb)
         /\ UNCHANGED <<fmt, base, sem, ud, pinned, inUd, out_buf_ptr, lent, args, dspq, pipe,
                        thread, task, srcFlush, main, app, abort, failed, spoiled, surplus, frames>>
<1> DEFINE Other == UNCHANGED <<fmt, base, sem, ud, pinned, inUd, out_buf_ptr, lent, args, dspq,
                                pipe, thread, task, srcFlush, main, app, abort, failed, spoiled,
                                surplus, frames>>
<1>0. ((loop.at = "out" /\ task = "started") \/ loop.at = "pop") /\ Other
  BY DEF LoopPop, loopKeeps, dspVars, counters
<1>1. q \in QRecords /\ loop \in LoopRecords /\ q.out \in Seq(Bufs)
      /\ (loop.woken => loop.at = "pop")
  BY Fields DEF Held, Shapes, LoopHolds
<1> HIDE DEF Other
<1>2. ASSUME q.out # <<>>, q' = [q EXCEPT !.out = Tail(@)],
             loop' = [at |-> "check", tb |-> Head(q.out), woken |-> FALSE]
      PROVE  QIs(q.in, q.ipp, Tail(q.out), q.on) /\ LoopIs("check", Head(q.out))
  <2>1. Head(q.out) \in Bufs /\ Tail(q.out) \in Seq(Bufs)
    BY <1>1, <1>2, TailRange
  <2>2. QIs(q.in, q.ipp, Tail(q.out), q.on)
    BY <1>1, <1>2, <2>1 DEF QIs, QRecords
  <2> QED
    BY <1>2, <2>1, <2>2 DEF LoopIs, LoopRecords
<1>3. ASSUME loop' = [at |-> "null", tb |-> NoBuf, woken |-> FALSE]
      PROVE  LoopIs("null", NoBuf)
  BY <1>3 DEF LoopIs, LoopRecords
<1>4. ASSUME loop' = [loop EXCEPT !.at = "pop"]
      PROVE  LoopIs("pop", loop.tb)
  BY <1>1, <1>4 DEF LoopIs, LoopRecords
<1> QED
  BY <1>0, <1>2, <1>3, <1>4 DEF LoopPop, Other

(* output_loop looks at the status.                                        *)
LEMMA LoopCheckParts ==
  ASSUME Held, LoopCheck
  PROVE  /\ loop.at \in {"check", "null"}
         /\ \/ /\ base.status = "OK"
               /\ \/ loop.at = "null" /\ LoopIs("out", NoBuf)
                  \/ loop.at = "check" /\ LoopIs("work", loop.tb)
               /\ UNCHANGED <<base, q, task, main>>
            \/ /\ base.status # "OK" /\ task' = "paused"
               /\ BaseIs(base.status, base.done, base.error, base.count, base.stale)
               /\ QIs(q.in, q.ipp, IF loop.tb = NoBuf THEN q.out ELSE Append(q.out, loop.tb), FALSE)
               /\ MainKept /\ LoopIs("out", NoBuf)
         /\ UNCHANGED <<fmt, sem, ud, pinned, inUd, out_buf_ptr, lent, args, dspq, pipe,
                        thread, srcFlush, app, abort, failed, spoiled, surplus, frames>>
<1> DEFINE Other == UNCHANGED <<fmt, sem, ud, pinned, inUd, out_buf_ptr, lent, args, dspq, pipe,
                                thread, srcFlush, app, abort, failed, spoiled, surplus, frames>>
<1>0. loop.at \in {"check", "null"} /\ Other
  BY DEF LoopCheck, loopKeeps, dspVars, counters
<1>1. q \in QRecords /\ loop \in LoopRecords /\ base \in BaseRecords
      /\ (loop.woken => loop.at = "pop")
  BY DEF Held, Shapes, LoopHolds
<1> HIDE DEF Other
<1>2. CASE base.status = "OK"
  <2>1. loop' = (IF loop.at = "null" THEN PassEnd ELSE [loop EXCEPT !.at = "work"])
        /\ UNCHANGED <<base, q, task, main>>
    BY <1>2 DEF LoopCheck
  <2>2. CASE loop.at = "null"
    BY <1>0, <1>2, <2>1, <2>2, PassEndIs DEF Other
  <2>3. CASE loop.at = "check"
    <3>1. LoopIs("work", loop.tb)
      BY <1>1, <2>1, <2>3 DEF LoopIs, LoopRecords
    <3> QED
      BY <1>0, <1>2, <2>1, <2>3, <3>1 DEF Other
  <2> QED
    BY <1>0, <2>2, <2>3
<1>3. CASE base.status # "OK"
  <2> DEFINE w == IF loop.tb = NoBuf THEN q.out ELSE Append(q.out, loop.tb)
  <2>1. Pause(base.status) /\ q' = [q EXCEPT !.on = FALSE, !.out = w]
    BY <1>1, <1>3 DEF LoopCheck, Disabled, QRecords
  <2>2. w \in Seq(Bufs)
    BY Fields, AppendRange DEF Held
  <2> HIDE DEF w
  <2>3. QIs(q.in, q.ipp, w, FALSE)
    BY <1>1, <2>1, <2>2 DEF QIs, QRecords
  <2>4. BaseIs(base.status, base.done, base.error, base.count, base.stale)
    BY <1>1, <2>1 DEF Pause, BaseIs, BaseRecords
  <2>5. task' = "paused" /\ MainKept /\ LoopIs("out", NoBuf)
    BY <2>1, Kept, PassEndIs DEF Pause
  <2> QED
    BY <1>0, <1>3, <2>3, <2>4, <2>5 DEF w, Other
<1> QED
  BY <1>2, <1>3

(* output_loop drops a frame that a flush has made obsolete.               *)
LEMMA LoopDropParts ==
  ASSUME Held, LoopDrop, base.count > 0
  PROVE  /\ loop.at = "work" /\ base.stale > 0 /\ loop.tb \in Bufs
         /\ BaseIs(base.status, base.done, base.error, base.count - 1, base.stale - 1)
         /\ QIs(q.in, Append(q.ipp, loop.tb), q.out, q.on)
         /\ LoopIs("out", NoBuf)
         /\ spoiled' \in BOOLEAN /\ (spoiled => spoiled')
         /\ ~spoiled' => ~spoiled /\ ~ud[loop.tb]
         /\ UNCHANGED <<fmt, sem, ud, pinned, inUd, out_buf_ptr, lent, args, dspq, pipe,
                        thread, task, srcFlush, main, app, abort, failed, surplus, frames>>
<1>1. q \in QRecords /\ base \in BaseRecords /\ loop.tb \in Bufs /\ spoiled \in BOOLEAN
      /\ ud \in [Bufs -> BOOLEAN]
  BY Fields DEF Held, Shapes, LoopHolds, LoopDrop
<1>2. /\ base' = [base EXCEPT !.count = @ - 1, !.stale = @ - 1] /\ base.stale > 0
      /\ q' = [q EXCEPT !.ipp = Append(@, loop.tb)]
      /\ spoiled' = (spoiled \/ ud[loop.tb]) /\ loop' = PassEnd /\ loop.at = "work"
  BY DEF LoopDrop
<1>3. QIs(q.in, Append(q.ipp, loop.tb), q.out, q.on)
  <2> DEFINE w == Append(q.ipp, loop.tb)
  <2>1. w \in Seq(Bufs) /\ q' = [q EXCEPT !.ipp = w]
    BY <1>1, <1>2, Fields, AppendRange DEF Held
  <2> HIDE DEF w
  <2>2. QIs(q.in, w, q.out, q.on)
    BY <1>1, <2>1 DEF QIs, QRecords
  <2> QED
    BY <2>2 DEF w
<1>4. BaseIs(base.status, base.done, base.error, base.count - 1, base.stale - 1)
  <2> DEFINE c == base.count - 1
             n == base.stale - 1
  <2>1. c \in Nat /\ n \in Nat /\ base' = [base EXCEPT !.count = c, !.stale = n]
    BY <1>1, <1>2, Fields DEF Held
  <2> HIDE DEF c, n
  <2>2. BaseIs(base.status, base.done, base.error, c, n)
    BY <1>1, <2>1 DEF BaseIs, BaseRecords
  <2> QED
    BY <2>2 DEF c, n
<1>5. /\ spoiled' \in BOOLEAN /\ (spoiled => spoiled')
      /\ ~spoiled' => ~spoiled /\ ~ud[loop.tb]
  BY <1>1, <1>2
<1> QED
  BY <1>1, <1>2, <1>3, <1>4, <1>5, PassEndIs DEF LoopDrop, loopKeeps, dspVars, counters

(* output_loop pushes a frame.                                             *)
LEMMA LoopPushParts ==
  ASSUME Held, LoopPush, base.count > 0
  PROVE  /\ loop.at = "work" /\ base.stale = 0 /\ loop.tb \in Bufs
         /\ ud' \in [Bufs -> BOOLEAN]
         /\ ud'[loop.tb] => ud[loop.tb] /\ pinned[loop.tb]
         /\ \A b \in Bufs : b # loop.tb => ud'[b] = ud[b]
         /\ BaseIs(base'.status, base.done, base.error, base.count - 1, base.stale)
         /\ LoopIs("out", NoBuf) /\ MainKept
         /\ \/ /\ QIs(q.in, Append(q.ipp, loop.tb), q.out, q.on)
               /\ UNCHANGED <<lent, task>>
            \/ /\ QIs(q.in, q.ipp, q.out, q.on) /\ lent' = lent \cup {loop.tb}
               /\ UNCHANGED <<task>>
            \/ /\ QIs(q.in, Append(q.ipp, loop.tb), q.out, FALSE) /\ task' = "paused"
               /\ UNCHANGED <<lent>>
         /\ UNCHANGED <<fmt, sem, pinned, inUd, out_buf_ptr, args, dspq, pipe,
                        thread, srcFlush, app, abort, failed, spoiled, surplus, frames>>
<1> DEFINE w == Append(q.ipp, loop.tb)
           c == base.count - 1
           s == IF base.status = "OK" THEN "WRONG_STATE" ELSE base.status
           p == pinned[loop.tb]
<1>1. q \in QRecords /\ base \in BaseRecords /\ loop.tb \in Bufs
      /\ ud \in [Bufs -> BOOLEAN] /\ pinned \in [Bufs -> BOOLEAN]
  BY Fields DEF Held, Shapes, LoopHolds, LoopPush
<1>2. /\ loop.at = "work" /\ base.stale = 0
      /\ ud' = [ud EXCEPT ![loop.tb] = @ /\ p]
      /\ UNCHANGED <<fmt, sem, pinned, inUd, out_buf_ptr, args, dspq, pipe,
                     thread, srcFlush, app, abort, failed, spoiled, surplus, frames>>
  BY DEF LoopPush, loopKeeps, dspVars, counters
<1>3. /\ w \in Seq(Bufs) /\ c \in Nat /\ s \in {"OK", "WRONG_STATE", "ERROR"} /\ p \in BOOLEAN
  BY <1>1, Fields, AppendRange DEF Held
<1>4. /\ \/ /\ q' = [q EXCEPT !.ipp = w] /\ UNCHANGED <<lent, task, main>>
            /\ base' = [base EXCEPT !.count = c]
         \/ /\ q' = q /\ lent' = lent \cup {loop.tb} /\ UNCHANGED <<task, main>>
            /\ base' = [base EXCEPT !.count = c]
         \/ /\ q' = [q EXCEPT !.on = FALSE, !.ipp = w] /\ task' = "paused" /\ UNCHANGED lent
            /\ WakeMain
            /\ base' = [base EXCEPT !.count = c, !.status = s]
      /\ loop' = PassEnd
  BY <1>1 DEF LoopPush, Goes, Disabled, QRecords
<1> HIDE DEF w, c, s, p
<1>5. ASSUME base' = [base EXCEPT !.count = c]
      PROVE  BaseIs(base'.status, base.done, base.error, c, base.stale)
  BY <1>1, <1>3, <1>5 DEF BaseIs, BaseRecords
<1>6. ASSUME base' = [base EXCEPT !.count = c, !.status = s]
      PROVE  BaseIs(base'.status, base.done, base.error, c, base.stale)
  BY <1>1, <1>3, <1>6 DEF BaseIs, BaseRecords
<1>7. ASSUME q' = [q EXCEPT !.ipp = w]
      PROVE  QIs(q.in, w, q.out, q.on)
  BY <1>1, <1>3, <1>7 DEF QIs, QRecords
<1>8. ASSUME q' = [q EXCEPT !.on = FALSE, !.ipp = w]
      PROVE  QIs(q.in, w, q.out, FALSE)
  BY <1>1, <1>3, <1>8 DEF QIs, QRecords
<1>9. ASSUME q' = q
      PROVE  QIs(q.in, q.ipp, q.out, q.on)
  BY <1>1, <1>9 DEF QIs
<1>10. /\ ud' \in [Bufs -> BOOLEAN]
       /\ ud'[loop.tb] => ud[loop.tb] /\ pinned[loop.tb]
       /\ \A b \in Bufs : b # loop.tb => ud'[b] = ud[b]
  BY <1>1, <1>2, <1>3 DEF p
<1>11. BaseIs(base'.status, base.done, base.error, c, base.stale)
  BY <1>4, <1>5, <1>6
<1>12. LoopIs("out", NoBuf) /\ MainKept
  BY <1>4, PassEndIs, Kept
<1>13. \/ QIs(q.in, w, q.out, q.on) /\ UNCHANGED <<lent, task>>
       \/ QIs(q.in, q.ipp, q.out, q.on) /\ lent' = lent \cup {loop.tb} /\ UNCHANGED <<task>>
       \/ QIs(q.in, w, q.out, FALSE) /\ task' = "paused" /\ UNCHANGED <<lent>>
  BY <1>4, <1>7, <1>8, <1>9
<1> QED
  BY <1>1, <1>2, <1>10, <1>11, <1>12, <1>13 DEF w, c

(* A buffer comes back from downstream.                                    *)
LEMMA FinalizeParts ==
  ASSUME Held, NEW b \in Bufs, Finalize(b)
  PROVE  /\ b \in lent /\ lent' = lent \ {b}
         /\ QIs(q.in, Append(q.ipp, b), q.out, q.on)
         /\ UNCHANGED <<fmt, base, sem, ud, pinned, inUd, out_buf_ptr, args, dspq, pipe,
                        thread, task, srcFlush, main, loop, app, abort,
                        failed, spoiled, surplus, frames>>
<1>1. QIs(q.in, Append(q.ipp, b), q.out, q.on)
  <2> DEFINE w == Append(q.ipp, b)
  <2>1. w \in Seq(Bufs) /\ q' = [q EXCEPT !.ipp = w] /\ q \in QRecords
    BY Fields, AppendRange DEF Held, Shapes, Finalize
  <2> HIDE DEF w
  <2>2. QIs(q.in, w, q.out, q.on)
    BY <2>1 DEF QIs, QRecords
  <2> QED
    BY <2>2 DEF w
<1> QED
  BY <1>1 DEF Finalize, loopKeeps, dspVars, counters

(* FLUSH_START                                                             *)
LEMMA FlushStartParts ==
  ASSUME FlushStart
  PROVE  /\ app = "idle" /\ app' = "flush" /\ main.at # "ready" /\ srcFlush' = TRUE
         /\ UNCHANGED <<fmt, base, sem, q, ud, pinned, inUd, out_buf_ptr, lent, args, dspq, pipe,
                        thread, task, main, loop, abort, failed, spoiled, surplus, frames>>
BY DEF FlushStart, appKeeps, bufVars, dspVars, histVars

(* dsp_unlock(TRUE)                                                        *)
LEMMA UnlockParts ==
  ASSUME Held, Unlock("WRONG_STATE")
  PROVE  /\ BaseIs("WRONG_STATE", base.done, base.error, base.count, base.stale)
         /\ QIs(q.in, q.ipp, q.out, FALSE)
         /\ MainKept /\ LoopKept
<1>1. q \in QRecords /\ base \in BaseRecords
  BY DEF Held, Shapes
<1>2. /\ base' = [base EXCEPT !.status = "WRONG_STATE"]
      /\ q' = [q EXCEPT !.on = FALSE] /\ WakeMain /\ WakeLoop
  BY DEF Unlock, Disabled
<1>3. BaseIs("WRONG_STATE", base.done, base.error, base.count, base.stale)
  BY <1>1, <1>2 DEF BaseIs, BaseRecords
<1>4. QIs(q.in, q.ipp, q.out, FALSE)
  BY <1>1, <1>2 DEF QIs, QRecords
<1> QED
  BY <1>2, <1>3, <1>4, Kept

(* The pads are unlocked for a flush and for a stop alike.                 *)
LEMMA UnlockedParts ==
  ASSUME Held, FlushUnlock \/ StopUnlock
  PROVE  /\ \/ app = "flush" /\ app' = "pause"
            \/ app = "idle" /\ main.at # "ready" /\ app' = "deactivate"
         /\ BaseIs("WRONG_STATE", base.done, base.error, base.count, base.stale)
         /\ QIs(q.in, q.ipp, q.out, FALSE)
         /\ MainKept /\ LoopKept
         /\ UNCHANGED <<fmt, sem, ud, pinned, inUd, out_buf_ptr, lent, args, dspq, pipe,
                        thread, task, srcFlush, abort, failed, spoiled, surplus, frames>>
<1>1. Unlock("WRONG_STATE")
  BY DEF FlushUnlock, StopUnlock
<1> QED
  BY <1>1, UnlockParts
  DEF FlushUnlock, StopUnlock, appKeeps, bufVars, dspVars, padVars, histVars

(* The task of the source pad is paused.                                   *)
LEMMA FlushPauseParts ==
  ASSUME FlushPause
  PROVE  /\ app = "pause" /\ app' = "flushed" /\ loop.at = "out" /\ task' = "paused"
         /\ UNCHANGED <<fmt, base, sem, q, ud, pinned, inUd, out_buf_ptr, lent, args, dspq, pipe,
                        thread, srcFlush, main, loop, abort, failed, spoiled, surplus, frames>>
BY DEF FlushPause, appKeeps, bufVars, dspVars, histVars

(* The queues are enabled again.                                           *)
LEMMA QueueOn ==
  ASSUME Held, q' = [q EXCEPT !.on = TRUE]
  PROVE  QIs(q.in, q.ipp, q.out, TRUE)
<1>1. q \in QRecords
  BY DEF Held, Shapes
<1> QED
  BY <1>1 DEF QIs, QRecords

(* FLUSH_STOP                                                              *)
LEMMA FlushStopParts ==
  ASSUME Held, FlushStop
  PROVE  /\ app = "flushed" /\ app' = "idle" /\ main.at \in {"idle", "refused"}
         /\ srcFlush' = FALSE /\ task' = "started"
         /\ BaseIs("OK", base.done, base.error, base.count, base.count)
         /\ QIs(q.in, q.ipp, q.out, TRUE)
         /\ UNCHANGED <<fmt, sem, ud, pinned, inUd, out_buf_ptr, lent, args, dspq, pipe,
                        thread, main, loop, abort, failed, spoiled, surplus, frames>>
<1>1. base \in BaseRecords
  BY DEF Held, Shapes
<1>2. base' = [base EXCEPT !.status = "OK", !.stale = base.count] /\ q' = [q EXCEPT !.on = TRUE]
  BY DEF FlushStop
<1>3. BaseIs("OK", base.done, base.error, base.count, base.count)
  BY <1>1, <1>2 DEF BaseIs, BaseRecords
<1> QED
  BY <1>2, <1>3, QueueOn DEF FlushStop, appKeeps, bufVars, dspVars, histVars

(* send_stop_message begins.                                               *)
LEMMA StopMessageParts ==
  ASSUME Held, StopMessage
  PROVE  /\ app = "deactivate" /\ main.at \in {"idle", "refused"} /\ loop.at = "out"
         /\ app' = "stop" /\ srcFlush' = TRUE /\ lent' = {}
         /\ \/ base.error /\ MainIs("stopped", "stop", main.todo, main.otb, main.tb)
            \/ ~base.error /\ MainIs("send", "stop", send_stop, main.otb, main.tb)
         /\ UNCHANGED <<fmt, base, sem, q, ud, pinned, inUd, out_buf_ptr, args, dspq, pipe,
                        thread, task, loop, abort, failed, spoiled, surplus, frames>>
<1>1. main \in MainRecords /\ base.error \in BOOLEAN /\ (main.woken => main.at \in {"pop", "otb"})
      /\ main.at \in {"idle", "refused"}
  BY Fields DEF Held, Shapes, MainHolds, StopMessage
<1>2. ASSUME main' = [main EXCEPT !.at = "stopped", !.mode = "stop"]
      PROVE  MainIs("stopped", "stop", main.todo, main.otb, main.tb)
  BY <1>1, <1>2 DEF MainIs, MainRecords, MainAt, Modes
<1>3. ASSUME main' = [main EXCEPT !.at = "send", !.mode = "stop", !.todo = send_stop]
      PROVE  MainIs("send", "stop", send_stop, main.otb, main.tb)
  BY <1>1, <1>3, JobMessages DEF MainIs, MainRecords, MainAt, Modes
<1>4. CASE base.error
  BY <1>2, <1>4 DEF StopMessage, dspVars, histVars, counters
<1>5. CASE ~base.error
  BY <1>3, <1>5 DEF StopMessage, dspVars, histVars, counters
<1> QED
  BY <1>4, <1>5

(* send_stop_message has returned.                                         *)
LEMMA StopDoneParts ==
  ASSUME Held, StopDone
  PROVE  /\ app = "stop" /\ app' = "join" /\ main.at = "stopped"
         /\ BaseIs(base.status, base'.done, base.error, base.count, base.stale)
         /\ UNCHANGED <<fmt, sem, q, ud, pinned, inUd, out_buf_ptr, lent, args, dspq, pipe,
                        thread, task, srcFlush, main, loop, abort,
                        failed, spoiled, surplus, frames>>
<1> DEFINE d == base.done \/ ~base.error
<1>1. d \in BOOLEAN /\ base' = [base EXCEPT !.done = d] /\ base \in BaseRecords
  BY DEF StopDone, Held, Shapes
<1> HIDE DEF d
<1>2. BaseIs(base.status, base'.done, base.error, base.count, base.stale)
  BY <1>1 DEF BaseIs, BaseRecords
<1> QED
  BY <1>2 DEF StopDone, appKeeps, bufVars, dspVars, padVars, histVars

(* The end of a stop                                                       *)
LEMMA ResetParts ==
  ASSUME Held, Reset, main.at = "stopped"
  PROVE  /\ app = "join" /\ app' = "ready" /\ task' = "none" /\ thread' = "none"
         /\ QIs(0, <<>>, <<>>, q.on) /\ SemIs(1, sem.sync)
         /\ BaseIs(base.status, base.done, base.error, 0, 0)
         /\ dspq' = <<>> /\ pipe' = "none" /\ surplus' = FALSE
         /\ MainIs("ready", main.mode, main.todo, main.otb, main.tb)
         /\ UNCHANGED <<fmt, ud, pinned, inUd, out_buf_ptr, lent, args, srcFlush, loop, abort,
                        failed, spoiled, frames>>
<1>1. q \in QRecords /\ sem \in SemRecords /\ base \in BaseRecords /\ main \in MainRecords
  BY DEF Held, Shapes
<1>2. /\ q' = [q EXCEPT !.in = 0, !.ipp = <<>>, !.out = <<>>]
      /\ base' = [base EXCEPT !.count = 0, !.stale = 0]
      /\ sem' = [sem EXCEPT !.msg = 1]
      /\ main' = [main EXCEPT !.at = "ready"]
  BY DEF Reset
<1>3. QIs(0, <<>>, <<>>, q.on)
  <2> DEFINE e == << >>
  <2>1. e \in Seq(Bufs) /\ q' = [q EXCEPT !.in = 0, !.ipp = e, !.out = e]
    BY <1>2, Fields DEF Held
  <2> HIDE DEF e
  <2>2. QIs(0, e, e, q.on)
    BY <1>1, <2>1 DEF QIs, QRecords
  <2> QED
    BY <2>2 DEF e
<1>4. SemIs(1, sem.sync)
  BY <1>1, <1>2 DEF SemIs, SemRecords
<1>5. BaseIs(base.status, base.done, base.error, 0, 0)
  BY <1>1, <1>2 DEF BaseIs, BaseRecords
<1>6. MainIs("ready", main.mode, main.todo, main.otb, main.tb)
  <2>1. ~main.woken
    BY DEF Held, MainHolds
  <2> QED
    BY <1>1, <1>2, <2>1 DEF MainIs, MainRecords, MainAt
<1> QED
  BY <1>3, <1>4, <1>5, <1>6 DEF Reset, bufVars, histVars, counters

(* READY to PAUSED                                                         *)
LEMMA RestartParts ==
  ASSUME Held, Restart
  PROVE  /\ app = "ready" /\ app' = "idle" /\ srcFlush' = FALSE /\ ~base.error
         /\ BaseIs("OK", FALSE, base.error, base.count, base.stale)
         /\ QIs(q.in, q.ipp, q.out, TRUE)
         /\ UNCHANGED <<fmt, sem, ud, pinned, inUd, out_buf_ptr, lent, args, dspq, pipe,
                        thread, task, main, loop, abort, failed, spoiled, surplus, frames>>
<1>1. base \in BaseRecords
  BY DEF Held, Shapes
<1>2. base' = [base EXCEPT !.status = "OK", !.done = FALSE] /\ q' = [q EXCEPT !.on = TRUE]
  BY DEF Restart
<1>3. BaseIs("OK", FALSE, base.error, base.count, base.stale)
  BY <1>1, <1>2 DEF BaseIs, BaseRecords
<1> QED
  BY <1>2, <1>3, QueueOn DEF Restart, appKeeps, bufVars, dspVars, histVars

(* What the lemmas above assume is part of the invariant.                  *)
LEMMA InvHeld ==
  ASSUME IppInv
  PROVE  Held
BY DEF IppInv, Held

(* The queue of messages: queue_buffer comes into it and leaves it once.   *)
Once == \A i, j \in DOMAIN dspq : dspq[i] = queue_buffer /\ dspq[j] = queue_buffer => i = j

(* One more message for the DSP                                            *)
LEMMA DspqAppended ==
  ASSUME dspq \in Seq(Messages), NEW m \in Messages, dspq' = Append(dspq, m)
  PROVE  /\ dspq' \in Seq(Messages) /\ Len(dspq') = Len(dspq) + 1 /\ dspq' # <<>>
         /\ AtDsp' <=> AtDsp \/ m = queue_buffer
         /\ Once /\ ~(AtDsp /\ m = queue_buffer) => Once'
<1>1. /\ Len(dspq) \in Nat /\ DOMAIN dspq = 1 .. Len(dspq)
      /\ dspq' \in Seq(Messages) /\ Len(dspq') = Len(dspq) + 1 /\ DOMAIN dspq' = 1 .. Len(dspq) + 1
      /\ \A i \in DOMAIN dspq : dspq'[i] = dspq[i]
      /\ dspq'[Len(dspq) + 1] = m
  OBVIOUS
<1>2. AtDsp' <=> AtDsp \/ m = queue_buffer
  BY AppendRange DEF AtDsp
<1>3. \A i \in DOMAIN dspq' : i \in DOMAIN dspq \/ i = Len(dspq) + 1
  BY <1>1
<1>4. ASSUME Once, ~(AtDsp /\ m = queue_buffer),
             NEW i \in DOMAIN dspq', NEW j \in DOMAIN dspq',
             dspq'[i] = queue_buffer, dspq'[j] = queue_buffer
      PROVE  i = j
  <2>1. CASE m = queue_buffer
    <3>1. \A k \in DOMAIN dspq : dspq[k] # queue_buffer
      BY <1>4, <2>1 DEF AtDsp, Range
    <3> QED
      BY <1>1, <1>3, <1>4, <3>1
  <2>2. CASE m # queue_buffer
    BY <1>1, <1>3, <1>4, <2>2 DEF Once
  <2> QED
    BY <2>1, <2>2
<1>5. dspq' # <<>>
  BY <1>1
<1> QED
  BY <1>1, <1>2, <1>4, <1>5 DEF Once

(* One message less for the DSP                                            *)
LEMMA DspqTaken ==
  ASSUME dspq \in Seq(Messages), dspq # <<>>, dspq' = Tail(dspq)
  PROVE  /\ dspq' \in Seq(Messages) /\ Len(dspq') = Len(dspq) - 1 /\ Head(dspq) \in Messages
         /\ Len(dspq) > 0
         /\ AtDsp <=> AtDsp' \/ Head(dspq) = queue_buffer
         /\ Once => Once' /\ (Head(dspq) = queue_buffer => ~AtDsp')
<1>1. /\ Len(dspq) \in Nat /\ DOMAIN dspq = 1 .. Len(dspq) /\ Len(dspq) > 0
      /\ dspq' \in Seq(Messages) /\ Len(dspq') = Len(dspq) - 1 /\ DOMAIN dspq' = 1 .. Len(dspq) - 1
      /\ Head(dspq) = dspq[1] /\ Head(dspq) \in Messages
      /\ \A i \in DOMAIN dspq' : dspq'[i] = dspq[i + 1]
  OBVIOUS
<1>2. AtDsp <=> AtDsp' \/ Head(dspq) = queue_buffer
  BY TailRange DEF AtDsp
<1>3. \A i \in DOMAIN dspq' : i + 1 \in DOMAIN dspq /\ i \in Int
  BY <1>1
<1>4. ASSUME Once, NEW i \in DOMAIN dspq', NEW j \in DOMAIN dspq',
             dspq'[i] = queue_buffer, dspq'[j] = queue_buffer
      PROVE  i = j
  <2>1. i + 1 = j + 1
    BY <1>1, <1>3, <1>4 DEF Once
  <2> QED
    BY <1>3, <2>1
<1>5. ASSUME Once, Head(dspq) = queue_buffer
      PROVE  ~AtDsp'
  <2>1. ASSUME NEW i \in DOMAIN dspq', dspq'[i] = queue_buffer
        PROVE  FALSE
    <3>1. 1 \in DOMAIN dspq /\ i + 1 \in DOMAIN dspq /\ i + 1 # 1
      BY <1>1
    <3> QED
      BY <1>1, <1>5, <2>1, <3>1 DEF Once
  <2> QED
    BY <2>1 DEF AtDsp, Range
<1> QED
  BY <1>1, <1>2, <1>4, <1>5 DEF Once

(* Without a message the DSP has no buffer.                                *)
LEMMA NoneWaits ==
  ASSUME dspq = <<>>
  PROVE  ~AtDsp /\ Len(dspq) = 0
BY DEF AtDsp, Range

(* With the semaphore in hand, unless one is surplus, the DSP has nothing. *)
LEMMA NoneSent ==
  ASSUME IppInv, sem.msg > 0, ~surplus
  PROVE  dspq = <<>> /\ ~AtDsp
<1>1. Len(dspq) = 0
  BY Fields, InvHeld, LenProperties DEF IppInv, Semaphores, Shapes, Held
<1>2. dspq = <<>>
  BY <1>1, EmptySeq DEF IppInv, Shapes
<1> QED
  BY <1>2, NoneWaits

(* got_message, and the buffers, which are there                           *)
LEMMA AnswerIs ==
  ASSUME IppInv, Answer
  PROVE  /\ thread = "run" /\ dspq # <<>> /\ dspq' = Tail(dspq) /\ args' = {}
         /\ pipe' = Deliver(Head(dspq))
         /\ Head(dspq) \in Messages
         /\ AtDsp <=> AtDsp' \/ Head(dspq) = queue_buffer
         /\ \/ /\ Head(dspq) # queue_buffer
               /\ SemIs(sem.msg + 1, sem.sync)
               /\ UNCHANGED <<q, ud, pinned, inUd, abort>>
            \/ /\ Head(dspq) = queue_buffer /\ ~AtDsp' /\ out_buf_ptr \in Bufs
               /\ SemIs(sem.msg + 1, sem.sync + 1)
               /\ abort' \in BOOLEAN /\ ud' \in [Bufs -> BOOLEAN] /\ pinned' \in [Bufs -> BOOLEAN]
               /\ inUd' = FALSE
               /\ QIs(q.in + 1, q.ipp, Append(q.out, out_buf_ptr), q.on)
               /\ abort' => ~inUd \/ ud[out_buf_ptr]
               /\ \A b \in Bufs : b # out_buf_ptr => ud'[b] = ud[b] /\ pinned'[b] = pinned[b]
               /\ ud'[out_buf_ptr] => ud[out_buf_ptr] \/ ~pinned'[out_buf_ptr]
         /\ UNCHANGED <<fmt, base, out_buf_ptr, lent, thread, task, srcFlush, main, loop, app,
                        failed, spoiled, surplus, frames>>
<1>1. dspq \in Seq(Messages) /\ Once /\ Held /\ (AtDsp => out_buf_ptr \in Bufs)
  BY InvHeld DEF IppInv, Shapes, Turns, Once
<1>2. dspq # <<>> /\ dspq' = Tail(dspq)
  BY AnswerParts, <1>1
<1>3. Head(dspq) \in Messages /\ (AtDsp <=> AtDsp' \/ Head(dspq) = queue_buffer)
      /\ (Head(dspq) = queue_buffer => ~AtDsp')
  BY <1>1, <1>2, DspqTaken
<1>4. CASE Head(dspq) # queue_buffer
  BY <1>1, <1>3, <1>4, AnswerParts
<1>5. CASE Head(dspq) = queue_buffer
  <2>1. FreeBuff /\ out_buf_ptr \in Bufs
    BY <1>1, <1>3, <1>5, AnswerParts
  <2> QED
    BY <1>1, <1>3, <1>5, <2>1, AnswerParts, FreeBuffParts
<1> QED
  BY <1>4, <1>5

(* A frame that output_loop has is counted.                                *)
LEMMA FrameCounted ==
  ASSUME IppInv, loop.at = "work"
  PROVE  base.count > 0
<1>1. loop.tb # NoBuf /\ base.count \in Nat /\ Len(q.out) \in Nat
  BY InvHeld, Fields, LenProperties DEF Held, LoopHolds
<1>2. Counted
  BY DEF IppInv
<1>3. InPass = 1 /\ InDsp \in 0 .. 1 /\ InMain \in 0 .. 1
  BY <1>1 DEF InPass, InDsp, InMain
<1> QED
  BY <1>1, <1>2, <1>3 DEF Counted, InHand

(* output_loop drops what has been counted.                                *)
LEMMA LoopDropIs ==
  ASSUME IppInv, LoopDrop
  PROVE  /\ loop.at = "work" /\ base.stale > 0 /\ loop.tb \in Bufs /\ base.count > 0
         /\ BaseIs(base.status, base.done, base.error, base.count - 1, base.stale - 1)
         /\ QIs(q.in, Append(q.ipp, loop.tb), q.out, q.on)
         /\ LoopIs("out", NoBuf)
         /\ spoiled' \in BOOLEAN /\ (spoiled => spoiled')
         /\ ~spoiled' => ~spoiled /\ ~ud[loop.tb]
         /\ UNCHANGED <<fmt, sem, ud, pinned, inUd, out_buf_ptr, lent, args, dspq, pipe,
                        thread, task, srcFlush, main, app, abort, failed, surplus, frames>>
<1>1. base.count > 0
  BY FrameCounted DEF LoopDrop
<1> QED
  BY <1>1, InvHeld, LoopDropParts

(* output_loop pushes what has been counted.                               *)
LEMMA LoopPushIs ==
  ASSUME IppInv, LoopPush
  PROVE  /\ loop.at = "work" /\ base.stale = 0 /\ loop.tb \in Bufs /\ base.count > 0
         /\ ud' \in [Bufs -> BOOLEAN]
         /\ ud'[loop.tb] => ud[loop.tb] /\ pinned[loop.tb]
         /\ \A b \in Bufs : b # loop.tb => ud'[b] = ud[b]
         /\ BaseIs(base'.status, base.done, base.error, base.count - 1, base.stale)
         /\ LoopIs("out", NoBuf) /\ MainKept
         /\ \/ /\ QIs(q.in, Append(q.ipp, loop.tb), q.out, q.on)
               /\ UNCHANGED <<lent, task>>
            \/ /\ QIs(q.in, q.ipp, q.out, q.on) /\ lent' = lent \cup {loop.tb}
               /\ UNCHANGED <<task>>
            \/ /\ QIs(q.in, Append(q.ipp, loop.tb), q.out, FALSE) /\ task' = "paused"
               /\ UNCHANGED <<lent>>
         /\ UNCHANGED <<fmt, sem, pinned, inUd, out_buf_ptr, args, dspq, pipe,
                        thread, srcFlush, app, abort, failed, spoiled, surplus, frames>>
<1>1. base.count > 0
  BY FrameCounted DEF LoopPush
<1> QED
  BY <1>1, InvHeld, LoopPushParts

(* A stop ends with nothing in main.                                       *)
LEMMA ResetIs ==
  ASSUME IppInv, Reset
  PROVE  /\ app = "join" /\ app' = "ready" /\ task' = "none" /\ thread' = "none"
         /\ main.at = "stopped"
         /\ QIs(0, <<>>, <<>>, q.on) /\ SemIs(1, sem.sync)
         /\ BaseIs(base.status, base.done, base.error, 0, 0)
         /\ dspq' = <<>> /\ pipe' = "none" /\ surplus' = FALSE
         /\ MainIs("ready", main.mode, main.todo, main.otb, main.tb)
         /\ UNCHANGED <<fmt, ud, pinned, inUd, out_buf_ptr, lent, args, srcFlush, loop, abort,
                        failed, spoiled, frames>>
<1>1. main.at = "stopped"
  BY DEF IppInv, Stopping, Reset
<1> QED
  BY <1>1, InvHeld, ResetParts

-----------------------------------------------------------------------------
(* The parts of the invariant                                              *)

(* Every variable keeps its type.                                          *)
LEMMA ShapesKept ==
  ASSUME IppInv, [Next]_vars
  PROVE  Shapes'
<1>0. Held
  BY InvHeld
<1>1. CASE SetCaps
  BY <1>1, <1>0, SetCapsParts DEF Held, Shapes, MainIs, QIs
<1>2. CASE SendMsg
  <2>1. /\ Head(main.todo) \in Messages /\ main.otb \in Bufs \cup {NoBuf}
        /\ main.todo \in Seq(Messages)
    BY <1>2, <1>0, Fields, SendMsgParts, TailRange DEF Held
  <2>2. dspq' \in Seq(Messages) /\ args' \subseteq 0 .. 2
    <3>1. dspq \in Seq(Messages) /\ dspq' = Append(dspq, Head(main.todo))
          /\ args' = Head(main.todo).args
      BY <1>2, <1>0, SendMsgParts DEF Held, Shapes
    <3> QED
      BY <2>1, <3>1, AppendRange, MessageIds
  <2>3. out_buf_ptr' \in Bufs \cup {NoBuf}
    BY <1>2, <1>0, <2>1, SendMsgParts DEF Held, Shapes
  <2> QED
    BY <1>2, <1>0, <2>2, <2>3, SendMsgParts DEF Held, Shapes, MainIs, SemIs
<1>3. CASE SendTimesOut \/ SentTimesOut \/ Sent \/ ChainPop \/ SendBuffer \/ SendBufferError
  <2>1. CASE SendTimesOut \/ SentTimesOut
    <3>1. /\ main' \in MainRecords /\ failed' = TRUE
          /\ UNCHANGED <<fmt, base, sem, q, ud, pinned, inUd, out_buf_ptr, lent, args, dspq, pipe,
                         thread, task, srcFlush, loop, app, abort, spoiled, surplus, frames>>
      BY <1>0, <2>1, TimeoutParts DEF GivenUp, MainIs
    <3> QED
      BY <1>0, <3>1, Zenon DEF Held, Shapes
  <2>2. CASE Sent
    <3>1. /\ main' \in MainRecords /\ sem' \in SemRecords
          /\ UNCHANGED <<fmt, base, q, ud, pinned, inUd, out_buf_ptr, lent, args, dspq, pipe,
                         thread, task, srcFlush, loop, app, abort,
                         failed, spoiled, surplus, frames>>
      BY <1>0, <2>2, SentParts DEF MainIs, SemIs
    <3> QED
      BY <1>0, <3>1, Zenon DEF Held, Shapes
  <2>3. CASE ChainPop
    BY <1>0, <2>3, ChainPopParts
    DEF Held, Shapes, MainIs, QIs
  <2>4. CASE SendBuffer
    BY <1>0, <2>4, SendBufferParts
    DEF Held, Shapes, MainIs, QIs
  <2>5. CASE SendBufferError
    BY <1>0, <2>5, SendBufferErrorParts
    DEF Held, Shapes, MainIs
  <2> QED
    BY <1>3, <2>1, <2>2, <2>3, <2>4, <2>5
<1>4. CASE SendFails
  <2>1. Head(main.todo) \in Messages
    BY <1>4, <1>0, Fields, SendFailsParts, TailRange DEF Held
  <2>2. args' \subseteq 0 .. 2
    BY <1>4, <1>0, <2>1, SendFailsParts, MessageIds
  <2> QED
    BY <1>4, <1>0, <2>2, SendFailsParts DEF Held, Shapes, MainIs, GivenUp, SemIs
<1>5. CASE ChainCheck
  <2>1. CASE base.status # "OK"
    BY <1>5, <1>0, <2>1, ChainCheckParts DEF Held, Shapes, MainIs, QIs
  <2>2. CASE base.status = "OK"
    <3>1. frames \in Nat /\ frames' = frames + 1
      BY <1>5, <1>0, <2>2, ChainCheckParts DEF Held, Shapes
    <3>2. frames' \in Nat
      BY <3>1
    <3>3. spoiled' \in BOOLEAN /\ inUd' \in BOOLEAN
      BY <1>5, <1>0, <2>2, ChainCheckParts
    <3> QED
      BY <1>5, <1>0, <2>2, <3>2, <3>3, ChainCheckParts DEF Held, Shapes, MainIs, BaseIs
  <2> QED
    BY <2>1, <2>2
<1>6. CASE Answer
  <2>1. dspq' \in Seq(Messages) /\ Head(dspq) \in Messages
    BY <1>6, <1>0, AnswerIs, TailRange DEF Held, Shapes
  <2>2. pipe' \in PipeStates
    BY <1>6, <2>1, AnswerIs, Delivered
  <2> QED
    BY <1>6, <1>0, <2>1, <2>2, AnswerIs DEF Held, Shapes, QIs, SemIs
<1>7. CASE AnswerError \/ EventError
  <2>1. dspq' \in Seq(Messages)
    <3>1. dspq \in Seq(Messages) /\ (dspq' = dspq \/ (dspq # <<>> /\ dspq' = Tail(dspq)))
      BY <1>7, <1>0, ErrorParts DEF Held, Shapes
    <3> QED
      BY <3>1, TailRange
  <2> QED
    BY <1>7, <1>0, <2>1, ErrorParts
    DEF Held, Shapes, MainIs, LoopIs, MainKept, LoopKept, BaseIs, SemIs, QIs
<1>8. CASE ThreadEnds \/ LoopPop \/ LoopCheck \/ LoopDrop \/ LoopPush
  <2>1. CASE ThreadEnds
    BY <1>0, <2>1, ThreadEndsParts
    DEF Held, Shapes
  <2>2. CASE LoopPop
    <3>1. q' \in QRecords /\ loop' \in LoopRecords
      BY <1>0, <2>2, LoopPopParts DEF Held, Shapes, LoopIs, QIs
    <3>2. UNCHANGED <<fmt, base, sem, ud, pinned, inUd, out_buf_ptr, lent, args, dspq, pipe,
                      thread, task, srcFlush, main, app, abort, failed, spoiled, surplus, frames>>
      BY <1>0, <2>2, LoopPopParts
    <3> QED
      BY <1>0, <3>1, <3>2, Zenon DEF Held, Shapes
  <2>3. CASE LoopCheck
    BY <1>0, <2>3, LoopCheckParts
    DEF Held, Shapes, MainIs, LoopIs, MainKept, BaseIs, QIs
  <2>4. CASE LoopDrop
    BY <1>0, <2>4, LoopDropIs
    DEF Held, Shapes, LoopIs, BaseIs, QIs
  <2>5. CASE LoopPush
    <3>1. /\ q' \in QRecords /\ loop' \in LoopRecords /\ base' \in BaseRecords
          /\ main' \in MainRecords
      BY <2>5, LoopPushIs DEF LoopIs, QIs, BaseIs, MainKept, MainIs
    <3>2. /\ ud' \in [Bufs -> BOOLEAN] /\ (lent' = lent \/ lent' = lent \cup {loop.tb})
          /\ (task' = task \/ task' = "paused") /\ loop.tb \in Bufs
          /\ UNCHANGED <<fmt, sem, pinned, inUd, out_buf_ptr, args, dspq, pipe,
                         thread, srcFlush, app, abort, failed, spoiled, surplus, frames>>
      BY <2>5, LoopPushIs
    <3>3. lent' \subseteq Bufs /\ task' \in {"none", "started", "paused"}
      BY <1>0, <3>2 DEF Held, Shapes
    <3> QED
      BY <1>0, <3>1, <3>2, <3>3, Zenon DEF Held, Shapes
  <2> QED
    BY <1>8, <2>1, <2>2, <2>3, <2>4, <2>5
<1>9. CASE (\E b \in Bufs : Finalize(b)) \/ CapsRefused \/ FlushStart \/ FlushUnlock \/ StopUnlock
           \/ FlushPause \/ FlushStop
  <2>1. CASE \E b \in Bufs : Finalize(b)
    BY <1>0, <2>1, FinalizeParts
    DEF Held, Shapes, QIs
  <2>2. CASE FlushStart
    BY <1>0, <2>2, FlushStartParts
    DEF Held, Shapes
  <2>3. CASE FlushUnlock \/ StopUnlock \/ CapsRefused
    BY <1>0, <2>3, UnlockedParts, CapsRefusedParts
    DEF Held, Shapes, MainIs, LoopIs, MainKept, LoopKept, BaseIs, QIs
  <2>4. CASE FlushPause
    BY <1>0, <2>4, FlushPauseParts
    DEF Held, Shapes
  <2>5. CASE FlushStop
    BY <1>0, <2>5, FlushStopParts
    DEF Held, Shapes, BaseIs, QIs
  <2> QED
    BY <1>9, <2>1, <2>2, <2>3, <2>4, <2>5
<1>10. CASE StopMessage \/ StopDone \/ Restart
  <2>1. CASE StopMessage
    BY <1>0, <2>1, StopMessageParts
    DEF Held, Shapes, MainIs
  <2>2. CASE StopDone
    BY <1>0, <2>2, StopDoneParts
    DEF Held, Shapes, BaseIs
  <2>3. CASE Restart
    BY <1>0, <2>3, RestartParts
    DEF Held, Shapes, BaseIs, QIs
  <2> QED
    BY <1>10, <2>1, <2>2, <2>3
<1>11. CASE Reset
  <2>1. dspq' \in Seq(Messages) /\ pipe' \in PipeStates
    BY <1>11, ResetIs, EmptySeq DEF PipeStates
  <2> QED
    BY <1>11, <1>0, <2>1, ResetIs DEF Held, Shapes, MainIs, SemIs, BaseIs, QIs
<1>12. CASE UNCHANGED vars
  BY <1>12, <1>0
  DEF Held, Shapes, MainIs, LoopIs, MainKept, LoopKept, GivenUp, BaseIs, SemIs, QIs, vars, bufVars,
      dspVars, padVars, histVars, counters
<1> QED
  BY <1>1, <1>2, <1>3, <1>4, <1>5, <1>6, <1>7, <1>8, <1>9, <1>10, <1>11, <1>12
  DEF Next, Main, Dsp, Loop, App

(* main has the buffers its place in the code says, and sends its messages *)
(* in the order of the job.                                                *)
LEMMA MainHoldsKept ==
  ASSUME IppInv, [Next]_vars
  PROVE  MainHolds'
<1>0. Held /\ MainHolds
  BY InvHeld DEF IppInv
<1>1. CASE SetCaps
  BY <1>1, <1>0, SetCapsParts, JobStates, OtherJobs
  DEF MainIs, MainHolds, Modes, PipeStates
<1>2. CASE SendMsg
  <2> DEFINE t == main.todo
             m == Head(t)
  <2>1. /\ main.at = "send" /\ t # <<>> /\ main.mode \in Modes
        /\ MainIs("send", main.mode, Tail(t), IF m = queue_buffer THEN NoBuf ELSE main.otb,
                  IF m = queue_buffer THEN FALSE ELSE main.tb)
    BY <1>2, <1>0, SendMsgParts, Fields DEF Held
  <2>2. /\ main.otb # NoBuf <=> t \in {send_frame, Queueing}
        /\ main.tb <=> main.otb # NoBuf
    BY <1>0, <2>1 DEF MainHolds
  <2>3. PICK p \in PipeStates : <<p, t>> \in ToSend(main.mode)
    BY <1>0, <2>1 DEF MainHolds
  <2>4. \E r \in PipeStates : <<r, Tail(t)>> \in ToSend(main.mode)
    BY <2>1, <2>3, NextMessage, JobStates
  <2>5. (m # queue_buffer /\ main.otb # NoBuf) <=> Tail(t) \in {send_frame, Queueing}
    <3>1. CASE main.mode = "frame"
      <4>1. t \in {send_frame, Queueing} \cup FlushLeft
        BY <2>3, <3>1, FrameJob
      <4> QED
        BY <2>1, <2>2, <4>1, FrameOrder, MessageIds
    <3>2. CASE main.mode # "frame"
      <4>1. PICK r \in PipeStates : <<r, Tail(t)>> \in ToSend(main.mode)
        BY <2>4
      <4> QED
        BY <2>1, <2>2, <2>3, <3>2, <4>1, OtherJobs
    <3> QED
      BY <3>1, <3>2
  <2> HIDE DEF t, m
  <2>6. /\ main'.at = "send" /\ main'.mode = main.mode /\ main'.todo = Tail(t)
        /\ main'.otb = (IF m = queue_buffer THEN NoBuf ELSE main.otb)
        /\ main'.tb = (IF m = queue_buffer THEN FALSE ELSE main.tb)
        /\ main'.woken => main'.at \in {"pop", "otb"}
    BY <2>1 DEF MainIs
  <2>7. main'.otb # NoBuf <=> Tail(t) \in {send_frame, Queueing}
    BY <2>5, <2>6
  <2>8. main'.tb <=> main'.otb # NoBuf
    BY <2>2, <2>6
  <2> QED
    BY <2>4, <2>6, <2>7, <2>8 DEF MainHolds
<1>3. CASE SendTimesOut \/ SentTimesOut
  BY <1>3, <1>0, TimeoutParts DEF GivenUp, MainIs, MainHolds
<1>4. CASE SendFails
  BY <1>4, <1>0, SendFailsParts DEF GivenUp, MainIs, MainHolds
<1>5. CASE Sent
  <2>1. main.at = "send" /\ main.otb = NoBuf /\ ~main.tb
    BY <1>5, <1>0, SentParts, FrameOrder DEF MainHolds
  <2> QED
    BY <1>5, <1>0, <2>1, SentParts DEF MainIs, MainHolds
<1>6. CASE ChainPop
  BY <1>6, <1>0, ChainPopParts
  DEF MainIs, MainHolds
<1>7. CASE ChainCheck
  BY <1>7, <1>0, ChainCheckParts
  DEF MainIs, MainHolds
<1>8. CASE SendBuffer
  <2>1. main.at \in {"buffer", "otb"} /\ main.tb /\ main.mode = "frame" /\ main.otb = NoBuf
    BY <1>8, <1>0, SendBufferParts DEF MainHolds
  <2>2. q.ipp # <<>> => Head(q.ipp) # NoBuf
    BY <1>0, Fields, TailRange, BufTypes DEF Held
  <2>3. "running" \in PipeStates
    BY DEF PipeStates
  <2> QED
    BY <1>8, <1>0, <2>1, <2>2, <2>3, SendBufferParts, JobStates DEF MainIs, MainHolds
<1>9. CASE SendBufferError
  BY <1>9, <1>0, SendBufferErrorParts
  DEF MainIs, MainHolds
<1>10. CASE Answer \/ AnswerError \/ EventError \/ ThreadEnds \/ LoopPop \/ LoopCheck \/ LoopDrop
            \/ LoopPush \/ (\E b \in Bufs : Finalize(b)) \/ FlushStart \/ FlushUnlock
            \/ StopUnlock \/ CapsRefused \/ FlushPause \/ FlushStop \/ StopDone \/ Restart
            \/ UNCHANGED vars
  <2>1. MainKept
    BY <1>10, <1>0, Kept, AnswerIs, ErrorParts, ThreadEndsParts, LoopPopParts, LoopCheckParts,
       LoopDropIs, LoopPushIs, FinalizeParts, FlushStartParts, UnlockedParts,
     CapsRefusedParts, FlushPauseParts,
       FlushStopParts, StopDoneParts, RestartParts DEF vars
  <2> QED
    BY <1>0, <2>1 DEF MainKept, MainIs, MainHolds
<1>11. CASE StopMessage
  <2>1. main.at \in {"idle", "refused"} /\ ~main.tb /\ main.otb = NoBuf
    BY <1>11, <1>0, StopMessageParts DEF MainHolds
  <2>2. "running" \in PipeStates /\ "stop" \in Modes /\ send_stop \notin {send_frame, Queueing}
    BY JobStates, OtherJobs DEF PipeStates, Modes
  <2> QED
    BY <1>11, <1>0, <2>1, <2>2, StopMessageParts, JobStates DEF MainIs, MainHolds
<1>12. CASE Reset
  BY <1>12, <1>0, ResetIs
  DEF MainIs, MainHolds
<1> QED
  BY <1>1, <1>2, <1>3, <1>4, <1>5, <1>6, <1>7, <1>8, <1>9, <1>10, <1>11, <1>12
  DEF Next, Main, Dsp, Loop, App

(* output_loop has a buffer between pop and push.                          *)
LEMMA LoopHoldsKept ==
  ASSUME IppInv, [Next]_vars
  PROVE  LoopHolds'
<1>0. Held /\ LoopHolds
  BY InvHeld DEF IppInv
<1>1. CASE SetCaps \/ SendMsg \/ SendTimesOut \/ SentTimesOut \/ SendFails \/ Sent \/ ChainPop
           \/ ChainCheck \/ SendBuffer \/ SendBufferError \/ Answer \/ AnswerError \/ EventError
           \/ ThreadEnds \/ (\E b \in Bufs : Finalize(b)) \/ FlushStart \/ FlushUnlock
           \/ StopUnlock \/ CapsRefused \/ FlushPause \/ FlushStop \/ StopMessage \/ StopDone
           \/ Reset \/ Restart \/ UNCHANGED vars
  <2>1. LoopKept
    BY <1>1, <1>0, Kept, SetCapsParts, SendMsgParts, TimeoutParts, SendFailsParts, SentParts,
       ChainPopParts, ChainCheckParts, SendBufferParts, SendBufferErrorParts,
       AnswerIs, ErrorParts, ThreadEndsParts, FinalizeParts, FlushStartParts, UnlockedParts,
       CapsRefusedParts, FlushPauseParts, FlushStopParts, StopMessageParts,
       StopDoneParts, ResetIs, RestartParts
    DEF vars
  <2> QED
    BY <1>0, <2>1 DEF LoopKept, LoopIs, LoopHolds
<1>2. CASE LoopPop
  <2>1. q.out # <<>> => Head(q.out) # NoBuf
    BY <1>0, Fields, TailRange, BufTypes DEF Held
  <2> QED
    BY <1>2, <1>0, <2>1, LoopPopParts DEF LoopIs, LoopHolds
<1>3. CASE LoopCheck
  <2>1. \/ LoopIs("out", NoBuf)
        \/ loop.at = "check" /\ LoopIs("work", loop.tb)
    BY <1>3, <1>0, LoopCheckParts
  <2>2. CASE LoopIs("out", NoBuf)
    BY <2>2 DEF LoopIs, LoopHolds
  <2>3. CASE loop.at = "check" /\ LoopIs("work", loop.tb)
    BY <1>0, <2>3 DEF LoopIs, LoopHolds
  <2> QED
    BY <2>1, <2>2, <2>3
<1>4. CASE LoopDrop
  BY <1>4, <1>0, LoopDropIs
  DEF LoopIs, LoopHolds
<1>5. CASE LoopPush
  BY <1>5, <1>0, LoopPushIs
  DEF LoopIs, LoopHolds
<1> QED
  BY <1>1, <1>2, <1>3, <1>4, <1>5
  DEF Next, Main, Dsp, Loop, App

(* A stop goes its way through app and main, and leaves nothing behind.    *)
LEMMA StoppingKept ==
  ASSUME IppInv, [Next]_vars
  PROVE  Stopping'
<1>0. Held /\ Stopping /\ MainHolds /\ LoopHolds
  BY InvHeld DEF IppInv
<1>1. CASE SetCaps
  BY <1>1, <1>0, SetCapsParts
  DEF MainIs, MainKept, LoopKept, LoopIs, QIs, GivenUp, Stopping, MainHolds, LoopHolds
<1>2. CASE SendMsg
  BY <1>2, <1>0, SendMsgParts
  DEF MainIs, MainKept, LoopKept, LoopIs, QIs, GivenUp, Stopping, MainHolds, LoopHolds
<1>3. CASE SendTimesOut \/ SentTimesOut
  <2>1. main.at = "send" /\ main'.at \in {"idle", "refused", "stopped"}
        /\ main'.mode = main.mode /\ (main'.at = "stopped" <=> main.mode = "stop")
        /\ UNCHANGED <<app, q, loop, lent, task, dspq, thread>>
    BY <1>3, <1>0, TimeoutParts, Fields DEF Held, Modes, GivenUp, MainIs
  <2> QED
    BY <1>0, <2>1 DEF Stopping
<1>4. CASE SendFails
  <2>1. main.at = "send" /\ main'.at \in {"idle", "refused", "stopped"}
        /\ main'.mode = main.mode /\ (main'.at = "stopped" <=> main.mode = "stop")
        /\ UNCHANGED <<app, q, loop, lent, task, dspq, thread>>
    BY <1>4, <1>0, SendFailsParts, Fields DEF Held, Modes, GivenUp, MainIs
  <2> QED
    BY <1>0, <2>1 DEF Stopping
<1>5. CASE Sent
  BY <1>5, <1>0, SentParts
  DEF MainIs, MainKept, LoopKept, LoopIs, QIs, GivenUp, Stopping, MainHolds, LoopHolds
<1>6. CASE ChainPop
  BY <1>6, <1>0, ChainPopParts
  DEF MainIs, MainKept, LoopKept, LoopIs, QIs, GivenUp, Stopping, MainHolds, LoopHolds
<1>7. CASE ChainCheck
  BY <1>7, <1>0, ChainCheckParts
  DEF MainIs, MainKept, LoopKept, LoopIs, QIs, GivenUp, Stopping, MainHolds, LoopHolds
<1>8. CASE SendBuffer
  BY <1>8, <1>0, SendBufferParts
  DEF MainIs, MainKept, LoopKept, LoopIs, QIs, GivenUp, Stopping, MainHolds, LoopHolds
<1>9. CASE SendBufferError
  BY <1>9, <1>0, SendBufferErrorParts
  DEF MainIs, MainKept, LoopKept, LoopIs, QIs, GivenUp, Stopping, MainHolds, LoopHolds
<1>10. CASE Answer
  <2>1. main.at # "ready"
    BY <1>10, <1>0, AnswerIs DEF Stopping
  <2>2. q'.on = q.on
    BY <1>10, AnswerIs DEF QIs
  <2>3. UNCHANGED <<app, main, loop, lent, task, thread>>
    BY <1>10, AnswerIs
  <2> QED
    BY <1>0, <2>1, <2>2, <2>3 DEF Stopping
<1>11. CASE AnswerError \/ EventError
  BY <1>11, <1>0, ErrorParts
  DEF MainIs, MainKept, LoopKept, LoopIs, QIs, GivenUp, Stopping, MainHolds, LoopHolds
<1>12. CASE ThreadEnds
  BY <1>12, <1>0, ThreadEndsParts
  DEF MainIs, MainKept, LoopKept, LoopIs, QIs, GivenUp, Stopping, MainHolds, LoopHolds
<1>13. CASE LoopPop
  BY <1>13, <1>0, LoopPopParts
  DEF MainIs, MainKept, LoopKept, LoopIs, QIs, GivenUp, Stopping, MainHolds, LoopHolds
<1>14. CASE LoopCheck
  <2>1. \/ LoopIs("out", NoBuf)
        \/ loop.at = "check" /\ LoopIs("work", loop.tb)
    BY <1>14, <1>0, LoopCheckParts
  <2>2. loop'.at \in {"out", "work"} /\ (loop'.at = "work" => loop.at = "check")
    BY <2>1 DEF LoopIs
  <2>3. main'.at = main.at /\ main'.mode = main.mode
    BY <1>14, <1>0, LoopCheckParts DEF MainKept, MainIs
  <2>4. main.at = "ready" => task' # "started" /\ q'.in = 0 /\ q'.ipp = <<>> /\ q'.out = <<>>
    BY <1>14, <1>0, LoopCheckParts DEF QIs, Stopping, LoopHolds
  <2>5. ~q.on => ~q'.on
    BY <1>14, <1>0, LoopCheckParts DEF QIs
  <2>6. UNCHANGED <<app, lent, dspq, thread>>
    BY <1>14, <1>0, LoopCheckParts
  <2> QED
    BY <1>0, <2>2, <2>3, <2>4, <2>5, <2>6 DEF Stopping
<1>15. CASE LoopDrop
  BY <1>15, <1>0, LoopDropIs
  DEF MainIs, MainKept, LoopKept, LoopIs, QIs, GivenUp, Stopping, MainHolds, LoopHolds
<1>16. CASE LoopPush
  BY <1>16, <1>0, LoopPushIs
  DEF MainIs, MainKept, LoopKept, LoopIs, QIs, GivenUp, Stopping, MainHolds, LoopHolds
<1>17. CASE \E b \in Bufs : Finalize(b)
  <2>1. PICK b \in Bufs : Finalize(b)
    BY <1>17
  <2> QED
    BY <1>0, <2>1, FinalizeParts DEF QIs, Stopping
<1>18. CASE FlushStart
  BY <1>18, <1>0, FlushStartParts
  DEF MainIs, MainKept, LoopKept, LoopIs, QIs, GivenUp, Stopping, MainHolds, LoopHolds
<1>19. CASE FlushUnlock \/ StopUnlock
  BY <1>19, <1>0, UnlockedParts
  DEF MainIs, MainKept, LoopKept, LoopIs, QIs, GivenUp, Stopping, MainHolds, LoopHolds
<1>20. CASE FlushPause
  BY <1>20, <1>0, FlushPauseParts
  DEF MainIs, MainKept, LoopKept, LoopIs, QIs, GivenUp, Stopping, MainHolds, LoopHolds
<1>21. CASE FlushStop
  BY <1>21, <1>0, FlushStopParts
  DEF MainIs, MainKept, LoopKept, LoopIs, QIs, GivenUp, Stopping, MainHolds, LoopHolds
<1>22. CASE StopMessage
  BY <1>22, <1>0, StopMessageParts
  DEF MainIs, MainKept, LoopKept, LoopIs, QIs, GivenUp, Stopping, MainHolds, LoopHolds
<1>23. CASE StopDone
  BY <1>23, <1>0, StopDoneParts
  DEF MainIs, MainKept, LoopKept, LoopIs, QIs, GivenUp, Stopping, MainHolds, LoopHolds
<1>24. CASE Reset
  BY <1>24, <1>0, ResetIs
  DEF MainIs, MainKept, LoopKept, LoopIs, QIs, GivenUp, Stopping, MainHolds, LoopHolds
<1>25. CASE Restart
  BY <1>25, <1>0, RestartParts
  DEF MainIs, MainKept, LoopKept, LoopIs, QIs, GivenUp, Stopping, MainHolds, LoopHolds
<1>26. CASE UNCHANGED vars
  BY <1>26, <1>0 DEF vars, bufVars, dspVars, padVars, Stopping
<1>27. CASE CapsRefused
  BY <1>27, <1>0, CapsRefusedParts
  DEF MainIs, MainKept, LoopKept, LoopIs, QIs, GivenUp, Stopping, MainHolds, LoopHolds
<1> QED
  BY <1>1, <1>2, <1>3, <1>4, <1>5, <1>6, <1>7, <1>8, <1>9, <1>10, <1>11, <1>12, <1>13, <1>14, <1>15,
     <1>16, <1>17, <1>18, <1>19, <1>20, <1>21, <1>22, <1>23, <1>24, <1>25, <1>26, <1>27
  DEF Next, Main, Dsp, Loop, App

(* Only these change what the DSP has to answer.                           *)
LEMMA DspKept ==
  ASSUME IppInv, [Next]_vars,
         ~(SendMsg \/ Answer \/ AnswerError \/ EventError \/ Reset)
  PROVE  dspq' = dspq
<1>0. Held
  BY InvHeld
<1>1. CASE SetCaps \/ SendTimesOut \/ SentTimesOut \/ SendFails \/ Sent
  BY <1>1, <1>0, SetCapsParts, TimeoutParts, SendFailsParts, SentParts
<1>2. CASE ChainPop \/ ChainCheck \/ SendBuffer \/ SendBufferError
  BY <1>2, <1>0, ChainPopParts, ChainCheckParts, SendBufferParts, SendBufferErrorParts
<1>3. CASE ThreadEnds
  BY <1>3, <1>0, ThreadEndsParts
<1>4. CASE LoopPop \/ LoopCheck \/ LoopDrop \/ LoopPush
  BY <1>4, <1>0, LoopPopParts, LoopCheckParts, LoopDropIs, LoopPushIs
<1>5. CASE (\E b \in Bufs : Finalize(b)) \/ CapsRefused \/ FlushStart \/ FlushUnlock \/ StopUnlock
           \/ FlushPause \/ FlushStop
  BY <1>5, <1>0, FinalizeParts, FlushStartParts, UnlockedParts,
     CapsRefusedParts, FlushPauseParts, FlushStopParts
<1>6. CASE StopMessage \/ StopDone \/ Restart
  BY <1>6, <1>0, StopMessageParts, StopDoneParts, RestartParts
<1>7. CASE UNCHANGED vars
  BY <1>7, <1>0
  DEF vars, bufVars, dspVars, padVars, histVars, counters
<1> QED
  BY <1>1, <1>2, <1>3, <1>4, <1>5, <1>6, <1>7
  DEF Next, Main, Dsp, Loop, App

(* Only these change a semaphore.                                          *)
LEMMA SemKept ==
  ASSUME IppInv, [Next]_vars,
         ~(SendMsg \/ SendFails \/ Sent \/ Answer \/ AnswerError \/ EventError \/ Reset)
  PROVE  sem' = sem
<1>0. Held
  BY InvHeld
<1>1. CASE SetCaps \/ SendTimesOut \/ SentTimesOut
  BY <1>1, <1>0, SetCapsParts, TimeoutParts
<1>2. CASE ChainPop \/ ChainCheck \/ SendBuffer \/ SendBufferError
  BY <1>2, <1>0, ChainPopParts, ChainCheckParts, SendBufferParts, SendBufferErrorParts
<1>3. CASE ThreadEnds
  BY <1>3, <1>0, ThreadEndsParts
<1>4. CASE LoopPop \/ LoopCheck \/ LoopDrop \/ LoopPush
  BY <1>4, <1>0, LoopPopParts, LoopCheckParts, LoopDropIs, LoopPushIs
<1>5. CASE (\E b \in Bufs : Finalize(b)) \/ CapsRefused \/ FlushStart \/ FlushUnlock \/ StopUnlock
           \/ FlushPause \/ FlushStop
  BY <1>5, <1>0, FinalizeParts, FlushStartParts, UnlockedParts,
     CapsRefusedParts, FlushPauseParts, FlushStopParts
<1>6. CASE StopMessage \/ StopDone \/ Restart
  BY <1>6, <1>0, StopMessageParts, StopDoneParts, RestartParts
<1>7. CASE UNCHANGED vars
  BY <1>7, <1>0
  DEF vars, bufVars, dspVars, padVars, histVars, counters
<1> QED
  BY <1>1, <1>2, <1>3, <1>4, <1>5, <1>6, <1>7
  DEF Next, Main, Dsp, Loop, App

(* A failure is remembered.                                                *)
LEMMA FailedKept ==
  ASSUME IppInv, [Next]_vars
  PROVE  failed => failed'
<1>0. Held
  BY InvHeld
<1>1. CASE SetCaps \/ SendMsg \/ SendTimesOut \/ SentTimesOut \/ SendFails \/ Sent
  BY <1>1, <1>0, SetCapsParts, SendMsgParts, TimeoutParts, SendFailsParts, SentParts
<1>2. CASE ChainPop \/ ChainCheck \/ SendBuffer \/ SendBufferError
  BY <1>2, <1>0, ChainPopParts, ChainCheckParts, SendBufferParts, SendBufferErrorParts
<1>3. CASE Answer \/ AnswerError \/ EventError \/ ThreadEnds
  BY <1>3, <1>0, AnswerIs, ErrorParts, ThreadEndsParts
<1>4. CASE LoopPop \/ LoopCheck \/ LoopDrop \/ LoopPush
  BY <1>4, <1>0, LoopPopParts, LoopCheckParts, LoopDropIs, LoopPushIs
<1>5. CASE (\E b \in Bufs : Finalize(b)) \/ CapsRefused \/ FlushStart \/ FlushUnlock \/ StopUnlock
           \/ FlushPause \/ FlushStop
  BY <1>5, <1>0, FinalizeParts, FlushStartParts, UnlockedParts,
     CapsRefusedParts, FlushPauseParts, FlushStopParts
<1>6. CASE StopMessage \/ StopDone \/ Reset \/ Restart
  BY <1>6, <1>0, StopMessageParts, StopDoneParts, ResetIs, RestartParts
<1>7. CASE UNCHANGED vars
  BY <1>7, <1>0
  DEF vars, bufVars, dspVars, padVars, histVars, counters
<1> QED
  BY <1>1, <1>2, <1>3, <1>4, <1>5, <1>6, <1>7
  DEF Next, Main, Dsp, Loop, App

(* A lost frame is remembered.                                             *)
LEMMA SpoiledKept ==
  ASSUME IppInv, [Next]_vars
  PROVE  spoiled => spoiled'
<1>0. Held
  BY InvHeld
<1>1. CASE SetCaps \/ SendMsg \/ SendTimesOut \/ SentTimesOut \/ SendFails \/ Sent
  BY <1>1, <1>0, SetCapsParts, SendMsgParts, TimeoutParts, SendFailsParts, SentParts
<1>2. CASE ChainPop \/ ChainCheck \/ SendBuffer \/ SendBufferError
  BY <1>2, <1>0, ChainPopParts, ChainCheckParts, SendBufferParts, SendBufferErrorParts
<1>3. CASE Answer \/ AnswerError \/ EventError \/ ThreadEnds
  BY <1>3, <1>0, AnswerIs, ErrorParts, ThreadEndsParts
<1>4. CASE LoopPop \/ LoopCheck \/ LoopDrop \/ LoopPush
  BY <1>4, <1>0, LoopPopParts, LoopCheckParts, LoopDropIs, LoopPushIs
<1>5. CASE (\E b \in Bufs : Finalize(b)) \/ CapsRefused \/ FlushStart \/ FlushUnlock \/ StopUnlock
           \/ FlushPause \/ FlushStop
  BY <1>5, <1>0, FinalizeParts, FlushStartParts, UnlockedParts,
     CapsRefusedParts, FlushPauseParts, FlushStopParts
<1>6. CASE StopMessage \/ StopDone \/ Reset \/ Restart
  BY <1>6, <1>0, StopMessageParts, StopDoneParts, ResetIs, RestartParts
<1>7. CASE UNCHANGED vars
  BY <1>7, <1>0
  DEF vars, bufVars, dspVars, padVars, histVars, counters
<1> QED
  BY <1>1, <1>2, <1>3, <1>4, <1>5, <1>6, <1>7
  DEF Next, Main, Dsp, Loop, App

(* Only an error from the DSP sets dsp_error.                               *)
LEMMA ErrorKept ==
  ASSUME IppInv, [Next]_vars,
         ~(AnswerError \/ EventError)
  PROVE  base'.error => base.error
<1>0. Held
  BY InvHeld
<1>1. CASE SetCaps \/ SendMsg \/ SendTimesOut \/ SentTimesOut \/ SendFails \/ Sent
  BY <1>1, <1>0, SetCapsParts, SendMsgParts, TimeoutParts, SendFailsParts, SentParts
  DEF BaseIs
<1>2. CASE ChainPop \/ ChainCheck \/ SendBuffer \/ SendBufferError
  BY <1>2, <1>0, ChainPopParts, ChainCheckParts, SendBufferParts, SendBufferErrorParts
  DEF BaseIs
<1>3. CASE Answer \/ ThreadEnds
  BY <1>3, <1>0, AnswerIs, ThreadEndsParts
  DEF BaseIs
<1>4. CASE LoopPop \/ LoopCheck \/ LoopDrop \/ LoopPush
  BY <1>4, <1>0, LoopPopParts, LoopCheckParts, LoopDropIs, LoopPushIs
  DEF BaseIs
<1>5. CASE (\E b \in Bufs : Finalize(b)) \/ CapsRefused \/ FlushStart \/ FlushUnlock \/ StopUnlock
           \/ FlushPause \/ FlushStop
  BY <1>5, <1>0, FinalizeParts, FlushStartParts, UnlockedParts,
     CapsRefusedParts, FlushPauseParts, FlushStopParts
  DEF BaseIs
<1>6. CASE StopMessage \/ StopDone \/ Reset \/ Restart
  BY <1>6, <1>0, StopMessageParts, StopDoneParts, ResetIs, RestartParts
  DEF BaseIs
<1>7. CASE UNCHANGED vars
  BY <1>7, <1>0
  DEF BaseIs, vars, bufVars, dspVars, padVars, histVars, counters
<1> QED
  BY <1>1, <1>2, <1>3, <1>4, <1>5, <1>6, <1>7
  DEF Next, Main, Dsp, Loop, App

(* Only an error event makes a semaphore surplus, and reset ends it.       *)
LEMMA SurplusKept ==
  ASSUME IppInv, [Next]_vars,
         ~(AnswerError \/ EventError \/ Reset)
  PROVE  surplus' = surplus
<1>0. Held
  BY InvHeld
<1>1. CASE SetCaps \/ SendMsg \/ SendTimesOut \/ SentTimesOut \/ SendFails \/ Sent
  BY <1>1, <1>0, SetCapsParts, SendMsgParts, TimeoutParts, SendFailsParts, SentParts
<1>2. CASE ChainPop \/ ChainCheck \/ SendBuffer \/ SendBufferError
  BY <1>2, <1>0, ChainPopParts, ChainCheckParts, SendBufferParts, SendBufferErrorParts
<1>3. CASE Answer \/ ThreadEnds
  BY <1>3, <1>0, AnswerIs, ThreadEndsParts
<1>4. CASE LoopPop \/ LoopCheck \/ LoopDrop \/ LoopPush
  BY <1>4, <1>0, LoopPopParts, LoopCheckParts, LoopDropIs, LoopPushIs
<1>5. CASE (\E b \in Bufs : Finalize(b)) \/ CapsRefused \/ FlushStart \/ FlushUnlock \/ StopUnlock
           \/ FlushPause \/ FlushStop
  BY <1>5, <1>0, FinalizeParts, FlushStartParts, UnlockedParts,
     CapsRefusedParts, FlushPauseParts, FlushStopParts
<1>6. CASE StopMessage \/ StopDone \/ Restart
  BY <1>6, <1>0, StopMessageParts, StopDoneParts, RestartParts
<1>7. CASE UNCHANGED vars
  BY <1>7, <1>0
  DEF vars, bufVars, dspVars, padVars, histVars, counters
<1> QED
  BY <1>1, <1>2, <1>3, <1>4, <1>5, <1>6, <1>7
  DEF Next, Main, Dsp, Loop, App

(* Only these touch msg_ptr.                                               *)
LEMMA ArgsKept ==
  ASSUME IppInv, [Next]_vars,
         ~(SendMsg \/ SendFails \/ Answer \/ AnswerError \/ EventError)
  PROVE  args' = args
<1>0. Held
  BY InvHeld
<1>1. CASE SetCaps \/ SendTimesOut \/ SentTimesOut \/ Sent
  BY <1>1, <1>0, SetCapsParts, TimeoutParts, SentParts
<1>2. CASE ChainPop \/ ChainCheck \/ SendBuffer \/ SendBufferError
  BY <1>2, <1>0, ChainPopParts, ChainCheckParts, SendBufferParts, SendBufferErrorParts
<1>3. CASE ThreadEnds
  BY <1>3, <1>0, ThreadEndsParts
<1>4. CASE LoopPop \/ LoopCheck \/ LoopDrop \/ LoopPush
  BY <1>4, <1>0, LoopPopParts, LoopCheckParts, LoopDropIs, LoopPushIs
<1>5. CASE (\E b \in Bufs : Finalize(b)) \/ CapsRefused \/ FlushStart \/ FlushUnlock \/ StopUnlock
           \/ FlushPause \/ FlushStop
  BY <1>5, <1>0, FinalizeParts, FlushStartParts, UnlockedParts,
     CapsRefusedParts, FlushPauseParts, FlushStopParts
<1>6. CASE StopMessage \/ StopDone \/ Reset \/ Restart
  BY <1>6, <1>0, StopMessageParts, StopDoneParts, ResetIs, RestartParts
<1>7. CASE UNCHANGED vars
  BY <1>7, <1>0
  DEF vars, bufVars, dspVars, padVars, histVars, counters
<1> QED
  BY <1>1, <1>2, <1>3, <1>4, <1>5, <1>6, <1>7
  DEF Next, Main, Dsp, Loop, App

(* Only these count the input buffer.                                      *)
LEMMA QInKept ==
  ASSUME IppInv, [Next]_vars,
         ~(SetCaps \/ ChainPop \/ ChainCheck \/ SendBuffer \/ Answer \/ Reset)
  PROVE  q'.in = q.in
<1>0. Held
  BY InvHeld
<1>1. CASE SendMsg \/ SendTimesOut \/ SentTimesOut \/ SendFails \/ Sent
  BY <1>1, <1>0, SendMsgParts, TimeoutParts, SendFailsParts, SentParts
  DEF QIs
<1>2. CASE SendBufferError
  BY <1>2, <1>0, SendBufferErrorParts
  DEF QIs
<1>3. CASE AnswerError \/ EventError \/ ThreadEnds
  BY <1>3, <1>0, ErrorParts, ThreadEndsParts
  DEF QIs
<1>4. CASE LoopPop \/ LoopCheck \/ LoopDrop \/ LoopPush
  BY <1>4, <1>0, LoopPopParts, LoopCheckParts, LoopDropIs, LoopPushIs
  DEF QIs
<1>5. CASE (\E b \in Bufs : Finalize(b)) \/ CapsRefused \/ FlushStart \/ FlushUnlock \/ StopUnlock
           \/ FlushPause \/ FlushStop
  BY <1>5, <1>0, FinalizeParts, FlushStartParts, UnlockedParts,
     CapsRefusedParts, FlushPauseParts, FlushStopParts
  DEF QIs
<1>6. CASE StopMessage \/ StopDone \/ Restart
  BY <1>6, <1>0, StopMessageParts, StopDoneParts, RestartParts
  DEF QIs
<1>7. CASE UNCHANGED vars
  BY <1>7, <1>0
  DEF QIs, vars, bufVars, dspVars, padVars, histVars, counters
<1> QED
  BY <1>1, <1>2, <1>3, <1>4, <1>5, <1>6, <1>7
  DEF Next, Main, Dsp, Loop, App

(* Only control_pipe stores the output buffer.                             *)
LEMMA OutBufKept ==
  ASSUME IppInv, [Next]_vars,
         ~(SendMsg)
  PROVE  out_buf_ptr' = out_buf_ptr
<1>0. Held
  BY InvHeld
<1>1. CASE SetCaps \/ SendTimesOut \/ SentTimesOut \/ SendFails \/ Sent
  BY <1>1, <1>0, SetCapsParts, TimeoutParts, SendFailsParts, SentParts
<1>2. CASE ChainPop \/ ChainCheck \/ SendBuffer \/ SendBufferError
  BY <1>2, <1>0, ChainPopParts, ChainCheckParts, SendBufferParts, SendBufferErrorParts
<1>3. CASE Answer \/ AnswerError \/ EventError \/ ThreadEnds
  BY <1>3, <1>0, AnswerIs, ErrorParts, ThreadEndsParts
<1>4. CASE LoopPop \/ LoopCheck \/ LoopDrop \/ LoopPush
  BY <1>4, <1>0, LoopPopParts, LoopCheckParts, LoopDropIs, LoopPushIs
<1>5. CASE (\E b \in Bufs : Finalize(b)) \/ CapsRefused \/ FlushStart \/ FlushUnlock \/ StopUnlock
           \/ FlushPause \/ FlushStop
  BY <1>5, <1>0, FinalizeParts, FlushStartParts, UnlockedParts,
     CapsRefusedParts, FlushPauseParts, FlushStopParts
<1>6. CASE StopMessage \/ StopDone \/ Reset \/ Restart
  BY <1>6, <1>0, StopMessageParts, StopDoneParts, ResetIs, RestartParts
<1>7. CASE UNCHANGED vars
  BY <1>7, <1>0
  DEF vars, bufVars, dspVars, padVars, histVars, counters
<1> QED
  BY <1>1, <1>2, <1>3, <1>4, <1>5, <1>6, <1>7
  DEF Next, Main, Dsp, Loop, App

(* Only these move main.                                                   *)
LEMMA MainSame ==
  ASSUME IppInv, [Next]_vars,
         ~(SetCaps \/ SendMsg \/ SendTimesOut \/ SentTimesOut \/ SendFails \/ Sent \/ ChainPop
           \/ ChainCheck \/ SendBuffer \/ SendBufferError \/ StopMessage \/ Reset)
  PROVE  MainKept
<1>0. Held
  BY InvHeld
<1>1. CASE Answer \/ AnswerError \/ EventError \/ ThreadEnds
  BY <1>1, <1>0, AnswerIs, ErrorParts, ThreadEndsParts, Kept
<1>2. CASE LoopPop \/ LoopCheck \/ LoopDrop \/ LoopPush
  BY <1>2, <1>0, LoopPopParts, LoopCheckParts, LoopDropIs, LoopPushIs, Kept
<1>3. CASE (\E b \in Bufs : Finalize(b)) \/ CapsRefused \/ FlushStart \/ FlushUnlock \/ StopUnlock
           \/ FlushPause \/ FlushStop
  BY <1>3, <1>0, FinalizeParts, FlushStartParts, UnlockedParts,
     CapsRefusedParts, FlushPauseParts, FlushStopParts,
     Kept
<1>4. CASE StopDone \/ Restart
  BY <1>4, <1>0, StopDoneParts, RestartParts, Kept
<1>5. CASE UNCHANGED vars
  BY <1>5, <1>0, Kept
  DEF vars, bufVars, dspVars, padVars, histVars, counters
<1> QED
  BY <1>1, <1>2, <1>3, <1>4, <1>5
  DEF Next, Main, Dsp, Loop, App

(* Whether the DSP has a buffer is told by its messages.                   *)
LEMMA AtDspKept ==
  ASSUME dspq' = dspq
  PROVE  AtDsp' = AtDsp
BY DEF AtDsp

(* A frame is only sent when the DSP has no buffer any more.               *)
LEMMA FrameAlone ==
  ASSUME IppInv, SendMsg, Head(main.todo) = control_pipe
  PROVE  ~AtDsp /\ main.todo = send_frame /\ main.otb \in Bufs
<1>0. Held /\ MainHolds
  BY InvHeld DEF IppInv
<1>1. /\ main.at = "send" /\ main.todo # <<>> /\ sem.msg > 0 /\ main.mode \in Modes
      /\ main.otb \in Bufs \cup {NoBuf}
  BY <1>0, SendMsgParts, Fields DEF Held
<1>2. PICK p \in PipeStates : <<p, main.todo>> \in ToSend(main.mode)
  BY <1>0, <1>1 DEF MainHolds
<1>3. main.mode = "frame"
  BY <1>1, <1>2, OtherJobs
<1>4. main.todo = send_frame
  BY <1>1, <1>2, <1>3, FrameJob, FrameOrder, MessageIds
<1>5. main.otb \in Bufs
  BY <1>0, <1>1, <1>4 DEF MainHolds
<1>6. ~AtDsp
  <2>1. main.tb /\ q.in \in Nat
    BY <1>0, <1>1, <1>4, Fields DEF Held, MainHolds
  <2> QED
    BY <2>1 DEF IppInv, InputKept, Inputs
<1> QED
  BY <1>4, <1>5, <1>6

(* queue_buffer is sent when the DSP has no buffer, with the one           *)
(* control_pipe has stored.                                                *)
LEMMA QueueingNext ==
  ASSUME IppInv, SendMsg, Head(main.todo) = queue_buffer
  PROVE  /\ main.todo = Queueing /\ main.mode = "frame" /\ Tail(main.todo) \in FlushLeft
         /\ sem.sync = 0 /\ ~AtDsp /\ out_buf_ptr = main.otb /\ main.otb \in Bufs /\ main.tb
<1>0. Held /\ MainHolds
  BY InvHeld DEF IppInv
<1>1. /\ main.at = "send" /\ main.todo # <<>> /\ main.mode \in Modes
      /\ main.otb \in Bufs \cup {NoBuf}
  BY <1>0, SendMsgParts, Fields DEF Held
<1>2. PICK p \in PipeStates : <<p, main.todo>> \in ToSend(main.mode)
  BY <1>0, <1>1 DEF MainHolds
<1>3. main.mode = "frame"
  BY <1>1, <1>2, OtherJobs
<1>4. main.todo = Queueing
  BY <1>1, <1>2, <1>3, FrameJob, FrameOrder, MessageIds
<1>5. main.otb \in Bufs /\ main.tb
  BY <1>0, <1>1, <1>4 DEF MainHolds
<1> QED
  BY <1>1, <1>3, <1>4, <1>5, FrameOrder DEF IppInv, Turns

(* What a message sent changes of the messages the DSP has                 *)
LEMMA SendMsgIs ==
  ASSUME IppInv, SendMsg
  PROVE  LET m == Head(main.todo) IN
         /\ m \in Messages /\ dspq' # <<>> /\ Len(dspq') = Len(dspq) + 1
         /\ AtDsp' <=> AtDsp \/ m = queue_buffer
         /\ Once'
<1>1. Held /\ Once /\ main.todo \in Seq(Messages) /\ dspq \in Seq(Messages)
  BY InvHeld, Fields DEF IppInv, Turns, Once, Held, Shapes
<1>2. main.todo # <<>> /\ dspq' = Append(dspq, Head(main.todo))
  BY <1>1, SendMsgParts
<1>3. Head(main.todo) \in Messages
  BY <1>1, <1>2, TailRange
<1>4. ~(AtDsp /\ Head(main.todo) = queue_buffer)
  BY QueueingNext
<1> QED
  BY <1>1, <1>2, <1>3, <1>4, DspqAppended

(* What an error changes of them                                           *)
LEMMA ErrorIs ==
  ASSUME IppInv, AnswerError \/ EventError
  PROVE  /\ ~surplus /\ Len(dspq) \in Nat /\ Len(dspq') \in Nat
         /\ ~surplus' => dspq' = <<>>
         /\ Len(dspq') <= Len(dspq)
         /\ ~surplus' => Len(dspq') = Len(dspq) - 1
         /\ AtDsp' => AtDsp
         /\ Once'
<1>1. Held /\ Once /\ dspq \in Seq(Messages)
  BY InvHeld DEF IppInv, Turns, Once, Held, Shapes
<1>2. /\ dspq' = dspq \/ (dspq # <<>> /\ dspq' = Tail(dspq))
      /\ ~surplus' => dspq # <<>> /\ dspq' = Tail(dspq)
      /\ ~failed
  BY <1>1, ErrorParts
<1>3. ~surplus /\ Len(dspq) <= 1 /\ Len(dspq) \in Nat
  <2>1. ~surplus /\ sem.msg + Len(dspq) <= 1 /\ sem.msg \in Nat /\ Len(dspq) \in Nat
    BY <1>1, <1>2, Fields, LenProperties DEF IppInv, Semaphores, Held
  <2> QED
    BY <2>1
<1>4. CASE dspq' = dspq /\ surplus'
  <2>1. Once' /\ (AtDsp' <=> AtDsp)
    BY <1>1, <1>4 DEF Once, AtDsp
  <2> QED
    BY <1>3, <1>4, <2>1
<1>5. CASE dspq # <<>> /\ dspq' = Tail(dspq)
  <2>1. /\ dspq' \in Seq(Messages) /\ Len(dspq') = Len(dspq) - 1 /\ (AtDsp' => AtDsp) /\ Once'
    BY <1>1, <1>5, DspqTaken
  <2>2. Len(dspq') \in Nat
    BY <2>1, LenProperties
  <2>3. Len(dspq') = 0
    BY <1>3, <2>1, <2>2
  <2>4. dspq' = <<>>
    BY <2>1, <2>3, EmptySeq
  <2> QED
    BY <1>3, <2>1, <2>2, <2>4
<1> QED
  BY <1>2, <1>4, <1>5

(* The two semaphores: an answer posts what a message has taken, and an    *)
(* error event, which may post a second time, comes once.                  *)
LEMMA SemaphoresKept ==
  ASSUME IppInv, [Next]_vars
  PROVE  Semaphores'
<1>0. Held /\ Semaphores /\ Turns
  BY InvHeld DEF IppInv
<1>t. sem.msg \in Nat /\ sem.sync \in Nat /\ Len(dspq) \in Nat
  BY <1>0, Fields, LenProperties DEF Held, Shapes
<1>1. CASE SendMsg
  <2>1. /\ SemIs(sem.msg - 1, IF Head(main.todo) = control_pipe THEN 0 ELSE sem.sync)
        /\ UNCHANGED <<base, failed, surplus>>
    BY <1>1, <1>0, SendMsgParts
  <2>2. Len(dspq') = Len(dspq) + 1 /\ (AtDsp' <=> AtDsp \/ Head(main.todo) = queue_buffer)
    BY <1>1, SendMsgIs
  <2>3. Head(main.todo) = queue_buffer => sem.sync = 0
    BY <1>1, QueueingNext
  <2>4. sem'.sync + (IF AtDsp' THEN 1 ELSE 0) <= 1
    BY <1>0, <1>t, <2>1, <2>2, <2>3 DEF Semaphores, SemIs
  <2> QED
    BY <1>0, <1>t, <2>1, <2>2, <2>4 DEF Semaphores, SemIs
<1>2. CASE SendFails
  <2>1. SemIs(sem.msg - 1, sem.sync) /\ failed' /\ UNCHANGED <<base, dspq, surplus>>
    BY <1>2, <1>0, SendFailsParts
  <2>2. AtDsp' = AtDsp
    BY <2>1 DEF AtDsp
  <2> QED
    BY <1>0, <1>t, <2>1, <2>2 DEF Semaphores, SemIs
<1>3. CASE Sent
  <2>1. UNCHANGED <<base, dspq, failed, surplus>>
        /\ \/ SemIs(sem.msg, sem.sync) \/ SemIs(sem.msg, sem.sync - 1)
           \/ SemIs(sem.msg - 1, sem.sync)
    BY <1>3, <1>0, SentParts
  <2>2. AtDsp' = AtDsp
    BY <2>1 DEF AtDsp
  <2> QED
    BY <1>0, <1>t, <2>1, <2>2 DEF Semaphores, SemIs
<1>4. CASE Answer
  <2>1. /\ dspq \in Seq(Messages) /\ dspq # <<>> /\ dspq' = Tail(dspq)
        /\ UNCHANGED <<base, failed, surplus>>
        /\ AtDsp <=> AtDsp' \/ Head(dspq) = queue_buffer
        /\ \/ SemIs(sem.msg + 1, sem.sync)
           \/ SemIs(sem.msg + 1, sem.sync + 1) /\ Head(dspq) = queue_buffer /\ ~AtDsp'
    BY <1>4, <1>0, AnswerIs DEF Held, Shapes
  <2>2. Len(dspq') = Len(dspq) - 1
    BY <2>1, DspqTaken
  <2>3. sem'.sync + (IF AtDsp' THEN 1 ELSE 0) <= 1
    BY <1>0, <1>t, <2>1 DEF Semaphores, SemIs
  <2>4. sem'.msg + Len(dspq') = sem.msg + Len(dspq)
    BY <1>t, <2>1, <2>2 DEF SemIs
  <2> QED
    BY <1>0, <2>1, <2>3, <2>4 DEF Semaphores
<1>5. CASE AnswerError \/ EventError
  <2>1. SemIs(sem.msg + 1, sem.sync) /\ failed'
    BY <1>5, <1>0, ErrorParts
  <2>2. sem.msg + Len(dspq) <= 1
    BY <1>5, <1>0, ErrorIs DEF Semaphores
  <2>3. sem'.sync + (IF AtDsp' THEN 1 ELSE 0) <= 1
    BY <1>5, <1>0, <1>t, <2>1, ErrorIs DEF Semaphores, SemIs
  <2>4. sem'.msg + Len(dspq') <= IF surplus' THEN 2 ELSE 1
    BY <1>5, <1>t, <2>1, <2>2, ErrorIs DEF SemIs
  <2> QED
    BY <2>1, <2>3, <2>4 DEF Semaphores
<1>6. CASE Reset
  <2>1. SemIs(1, sem.sync) /\ dspq' = <<>> /\ base'.error = base.error /\ failed' = failed
        /\ ~surplus'
    BY <1>6, ResetIs DEF BaseIs
  <2>2. ~AtDsp' /\ Len(dspq') = 0
    BY <2>1 DEF AtDsp, Range
  <2> QED
    BY <1>0, <1>t, <2>1, <2>2 DEF Semaphores, SemIs
<1>7. CASE ~(SendMsg \/ SendFails \/ Sent \/ Answer \/ AnswerError \/ EventError \/ Reset)
  <2>1. UNCHANGED <<sem, dspq, surplus>> /\ (base'.error => base.error)
        /\ (failed => failed')
    BY <1>7, <1>0, DspKept, SemKept, FailedKept, ErrorKept, SurplusKept
  <2> QED
    BY <1>0, <2>1, AtDspKept DEF Semaphores
<1> QED
  BY <1>1, <1>2, <1>3, <1>4, <1>5, <1>6, <1>7

(* The DSP gets a buffer only when it has none.                            *)
LEMMA TurnsKept ==
  ASSUME IppInv, [Next]_vars
  PROVE  Turns'
<1>0. Held /\ Semaphores /\ Turns /\ MainHolds
  BY InvHeld DEF IppInv
<1>t. sem.sync \in Nat /\ sem.msg \in Nat
  BY <1>0, Fields DEF Held
<1>1. CASE SetCaps
  <2>1. dspq' = <<>>
    BY <1>1, <1>0, SetCapsParts DEF IppInv, Stopping
  <2>2. main'.todo = init_pipe /\ init_pipe # Queueing
    BY <1>1, <1>0, SetCapsParts, JobStates, OtherJobs DEF MainIs, Modes
  <2> QED
    BY <2>1, <2>2 DEF Turns, AtDsp, Range
<1>2. CASE SendMsg
  <2> DEFINE m == Head(main.todo)
  <2>1. /\ main.at = "send" /\ main.todo # <<>> /\ main.mode \in Modes
        /\ main'.at = "send" /\ main'.mode = main.mode /\ main'.todo = Tail(main.todo)
        /\ main'.otb = (IF m = queue_buffer THEN NoBuf ELSE main.otb)
        /\ sem'.sync = (IF m = control_pipe THEN 0 ELSE sem.sync)
        /\ out_buf_ptr' = (IF m = control_pipe THEN main.otb ELSE out_buf_ptr)
        /\ failed' = failed
    BY <1>2, <1>0, SendMsgParts, Fields DEF Held, MainIs, SemIs
  <2>2. Once' /\ (AtDsp' <=> AtDsp \/ m = queue_buffer)
    BY <1>2, SendMsgIs
  <2>3. PICK p \in PipeStates : <<p, main.todo>> \in ToSend(main.mode)
    BY <1>0, <2>1 DEF MainHolds
  <2>4. CASE m = control_pipe
    <3>1. ~AtDsp /\ main.todo = send_frame /\ main.otb \in Bufs
      BY <1>2, <2>4, FrameAlone
    <3>2. ~AtDsp' /\ queue_buffer # control_pipe
      BY <2>2, <2>4, <3>1, MessageIds
    <3> QED
      BY <2>1, <2>2, <2>4, <3>1, <3>2 DEF Turns, Once
  <2>5. CASE m = queue_buffer
    <3>1. /\ main.mode = "frame" /\ Tail(main.todo) \in FlushLeft
          /\ out_buf_ptr = main.otb /\ main.otb \in Bufs
      BY <1>2, <2>5, QueueingNext
    <3>2. main'.todo # Queueing /\ main'.todo # send_frame
      BY <2>1, <3>1, FrameOrder
    <3> QED
      BY <2>1, <2>2, <2>5, <3>1, <3>2, MessageIds DEF Turns, Once
  <2>6. CASE m \notin {control_pipe, queue_buffer}
    <3>1. main.todo \notin {send_frame, Queueing}
      BY <2>1, <2>6, FrameOrder
    <3>2. CASE main.mode = "frame"
      <4>1. main.todo \in FlushLeft /\ Tail(main.todo) \in FlushLeft
        BY <2>1, <2>3, <3>1, <3>2, FrameJob, FrameOrder
      <4> QED
        BY <1>0, <2>1, <2>2, <2>6, <3>2, <4>1, FrameOrder DEF Turns, Once
    <3>3. CASE main.mode # "frame"
      <4>1. PICK r \in PipeStates : <<r, Tail(main.todo)>> \in ToSend(main.mode)
        BY <2>1, <2>3, NextMessage, JobStates
      <4>2. Tail(main.todo) \notin {send_frame, Queueing}
        BY <2>1, <3>3, <4>1, OtherJobs
      <4> QED
        BY <1>0, <2>1, <2>2, <2>6, <3>3, <4>2, FrameOrder DEF Turns, Once
    <3> QED
      BY <3>2, <3>3
  <2> QED
    BY <2>4, <2>5, <2>6
<1>3. CASE SendTimesOut \/ SentTimesOut
  <2>1. failed' /\ main'.at \in {"idle", "refused", "stopped"}
        /\ UNCHANGED <<dspq, out_buf_ptr>>
    BY <1>3, <1>0, TimeoutParts, Fields DEF Held, Modes, GivenUp, MainIs
  <2> QED
    BY <1>0, <2>1, AtDspKept DEF Turns
<1>4. CASE SendFails
  <2>1. failed' /\ main'.at \in {"idle", "refused", "stopped"}
        /\ UNCHANGED <<dspq, out_buf_ptr>>
    BY <1>4, <1>0, SendFailsParts, Fields DEF Held, Modes, GivenUp, MainIs
  <2> QED
    BY <1>0, <2>1, AtDspKept DEF Turns
<1>5. CASE Sent
  <2>1. /\ main.at = "send" /\ main.todo = <<>> /\ UNCHANGED <<dspq, out_buf_ptr, failed>>
        /\ main'.at \in {"idle", "stopped"}
        /\ main.mode = "frame" => sem.sync > 0
    BY <1>5, <1>0, SentParts DEF MainIs
  <2>2. AtDsp => failed
    BY <1>0, <1>t, <2>1 DEF Semaphores, Turns
  <2> QED
    BY <1>0, <2>1, <2>2, AtDspKept DEF Turns
<1>6. CASE ChainPop
  <2>1. /\ main.at # "send" /\ main'.at \notin {"send", "otb"}
        /\ dspq' = dspq /\ out_buf_ptr' = out_buf_ptr /\ failed' = failed
    BY <1>6, <1>0, ChainPopParts DEF MainIs
  <2> QED
    BY <1>0, <2>1, AtDspKept DEF Turns
<1>7. CASE ChainCheck
  <2>1. /\ main.at # "send" /\ main'.at \notin {"send", "otb"}
        /\ dspq' = dspq /\ out_buf_ptr' = out_buf_ptr /\ failed' = failed
    BY <1>7, <1>0, ChainCheckParts DEF MainIs
  <2> QED
    BY <1>0, <2>1, AtDspKept DEF Turns
<1>8. CASE SendBufferError
  <2>1. /\ main.at # "send" /\ main'.at \notin {"send", "otb"}
        /\ dspq' = dspq /\ out_buf_ptr' = out_buf_ptr /\ failed' = failed
    BY <1>8, <1>0, SendBufferErrorParts DEF MainIs
  <2> QED
    BY <1>0, <2>1, AtDspKept DEF Turns
<1>9. CASE SendBuffer
  <2>1. /\ main.at \in {"buffer", "otb"}
        /\ main'.at = "send" => main'.todo = send_frame
        /\ UNCHANGED <<dspq, out_buf_ptr, failed>>
    BY <1>9, <1>0, SendBufferParts DEF MainIs
  <2> QED
    BY <1>0, <2>1, AtDspKept, FrameOrder DEF Turns
<1>10. CASE Answer
  <2>1. /\ Once' /\ (AtDsp' => AtDsp)
        /\ UNCHANGED <<out_buf_ptr, failed, main>>
        /\ sem'.sync = sem.sync \/ AtDsp
    BY <1>10, <1>0, AnswerIs, DspqTaken DEF Turns, Once, Held, Shapes, SemIs
  <2> QED
    BY <1>0, <2>1 DEF Turns, Once
<1>11. CASE AnswerError \/ EventError
  <2>1. /\ Once' /\ (AtDsp' => AtDsp)
        /\ out_buf_ptr' = out_buf_ptr /\ ~failed /\ failed' /\ sem'.sync = sem.sync
        /\ main'.at = main.at /\ main'.mode = main.mode /\ main'.todo = main.todo
        /\ main'.otb = main.otb
    BY <1>11, <1>0, ErrorIs, ErrorParts DEF SemIs, MainKept, MainIs
  <2> QED
    BY <1>0, <2>1, FrameOrder DEF Turns, Once
<1>12. CASE StopMessage
  <2>1. /\ main.at # "send" /\ UNCHANGED <<dspq, out_buf_ptr, failed>>
        /\ main'.at \in {"send", "stopped"} /\ (main'.at = "send" => main'.todo = send_stop)
    BY <1>12, <1>0, StopMessageParts DEF MainIs
  <2>2. send_stop \notin {send_frame, Queueing}
    BY JobStates, OtherJobs DEF Modes
  <2> QED
    BY <1>0, <2>1, <2>2, AtDspKept DEF Turns
<1>13. CASE Reset
  <2>1. dspq' = <<>> /\ main'.at = "ready"
    BY <1>13, ResetIs DEF MainIs
  <2> QED
    BY <2>1 DEF Turns, AtDsp, Range
<1>14. CASE ~(SetCaps \/ SendMsg \/ SendTimesOut \/ SentTimesOut \/ SendFails \/ Sent \/ ChainPop
              \/ ChainCheck \/ SendBufferError \/ SendBuffer \/ Answer \/ AnswerError
              \/ EventError \/ StopMessage \/ Reset)
  <2>1. /\ dspq' = dspq /\ sem' = sem /\ out_buf_ptr' = out_buf_ptr
        /\ failed => failed'
        /\ main'.at = main.at /\ main'.mode = main.mode /\ main'.todo = main.todo
        /\ main'.otb = main.otb
    BY <1>14, <1>0, DspKept, SemKept, OutBufKept, FailedKept, MainSame
    DEF MainKept, MainIs
  <2> QED
    BY <1>0, <2>1, AtDspKept DEF Turns
<1> QED
  BY <1>1, <1>2, <1>3, <1>4, <1>5, <1>6, <1>7, <1>8, <1>9, <1>10, <1>11, <1>12, <1>13, <1>14

(* The first message is the only one.                                      *)
LEMMA AppendNothing ==
  ASSUME NEW x
  PROVE  Append(<<>>, x) = <<x>> /\ <<x>> # <<>> /\ Head(<<x>>) = x /\ Tail(<<x>>) = <<>>
OBVIOUS

(* msg_ptr belongs to the message the DSP has.                             *)
LEMMA ArgumentsKept ==
  ASSUME IppInv, [Next]_vars
  PROVE  Arguments'
<1>0. Held /\ Semaphores /\ Arguments
  BY InvHeld DEF IppInv
<1>1. CASE SendMsg
  <2>1. /\ sem.msg > 0 /\ dspq' = Append(dspq, Head(main.todo)) /\ args' = Head(main.todo).args
        /\ surplus' = surplus
    BY <1>1, <1>0, SendMsgParts
  <2>2. ~surplus => dspq' = <<Head(main.todo)>>
    BY <2>1, NoneSent, AppendNothing
  <2> QED
    BY <2>1, <2>2, AppendNothing DEF Arguments
<1>2. CASE SendFails
  <2>1. sem.msg > 0 /\ UNCHANGED <<dspq, surplus>>
    BY <1>2, <1>0, SendFailsParts
  <2> QED
    BY <2>1, NoneSent DEF Arguments
<1>3. CASE Answer
  <2>1. dspq \in Seq(Messages) /\ dspq # <<>> /\ dspq' = Tail(dspq) /\ surplus' = surplus
    BY <1>3, <1>0, AnswerIs DEF Held, Shapes
  <2>2. ~surplus => Len(dspq) <= 1
    <3>1. sem.msg \in Nat /\ Len(dspq) \in Nat
      BY <1>0, <2>1, Fields, LenProperties DEF Held
    <3> QED
      BY <1>0, <3>1 DEF Semaphores
  <2>3. ~surplus => dspq' = <<>>
    BY <2>1, <2>2, DspqTaken, EmptySeq, LenProperties
  <2> QED
    BY <2>1, <2>3 DEF Arguments
<1>4. CASE AnswerError \/ EventError
  BY <1>4, ErrorIs DEF Arguments
<1>5. CASE Reset
  BY <1>5, ResetIs DEF Arguments
<1>6. CASE ~(SendMsg \/ SendFails \/ Answer \/ AnswerError \/ EventError \/ Reset)
  <2>1. UNCHANGED <<dspq, args, surplus>>
    BY <1>6, DspKept, ArgsKept, SurplusKept
  <2> QED
    BY <1>0, <2>1 DEF Arguments
<1> QED
  BY <1>1, <1>2, <1>3, <1>4, <1>5, <1>6

(* The input buffer is in one place, and none is lost.                     *)
LEMMA InputMoved ==
  ASSUME IppInv, [Next]_vars
  PROVE  InputKept' /\ (~failed' /\ main'.at # "ready" => Inputs' = Inputs \/ Inputs' = 1)
<1>0. Held /\ MainHolds /\ InputKept /\ q.in \in Nat
  BY InvHeld, Fields DEF IppInv, Held
<1>1. CASE SetCaps
  <2>1. q'.in = 1 /\ ~main'.tb /\ dspq' = <<>>
    BY <1>1, <1>0, SetCapsParts DEF QIs, MainIs, MainHolds, IppInv, Stopping
  <2>2. ~AtDsp'
    BY <2>1 DEF AtDsp, Range
  <2> QED
    BY <2>1, <2>2 DEF InputKept, Inputs
<1>2. CASE SendMsg
  <2>1. /\ q' = q /\ (AtDsp' <=> AtDsp \/ Head(main.todo) = queue_buffer)
        /\ main'.tb = (IF Head(main.todo) = queue_buffer THEN FALSE ELSE main.tb)
        /\ Head(main.todo) = queue_buffer => main.tb /\ ~AtDsp
    BY <1>2, <1>0, SendMsgParts, SendMsgIs, QueueingNext DEF MainIs
  <2> QED
    BY <1>0, <2>1 DEF InputKept, Inputs
<1>3. CASE SendTimesOut \/ SentTimesOut
  <2>1. q'.in = q.in /\ ~main'.tb /\ AtDsp' = AtDsp /\ failed'
    BY <1>3, <1>0, TimeoutParts, AtDspKept DEF GivenUp, MainIs, QIs
  <2> QED
    BY <1>0, <2>1 DEF InputKept, Inputs
<1>4. CASE SendFails
  <2>1. q'.in = q.in /\ ~main'.tb /\ AtDsp' = AtDsp /\ failed'
    BY <1>4, <1>0, SendFailsParts, AtDspKept DEF GivenUp, MainIs, QIs
  <2> QED
    BY <1>0, <2>1 DEF InputKept, Inputs
<1>5. CASE SendBufferError
  <2>1. q'.in = q.in /\ ~main'.tb /\ AtDsp' = AtDsp /\ failed'
    BY <1>5, <1>0, SendBufferErrorParts, AtDspKept DEF GivenUp, MainIs, QIs, IppInv, Semaphores
  <2> QED
    BY <1>0, <2>1 DEF InputKept, Inputs
<1>6. CASE ChainPop
  <2>1. ~main.tb /\ AtDsp' = AtDsp
    BY <1>6, <1>0, ChainPopParts, AtDspKept DEF MainHolds
  <2>2. \/ q'.in = q.in - 1 /\ main'.tb
        \/ q'.in = q.in /\ main'.tb = main.tb
    BY <1>6, <1>0, ChainPopParts DEF QIs, MainIs
  <2> QED
    BY <1>0, <2>1, <2>2 DEF InputKept, Inputs
<1>7. CASE ChainCheck
  <2>1. AtDsp' = AtDsp
    BY <1>7, <1>0, ChainCheckParts, AtDspKept
  <2>2. \/ q'.in = (IF main.tb THEN q.in + 1 ELSE q.in) /\ ~main'.tb
        \/ q'.in = q.in /\ main'.tb = main.tb
    BY <1>7, <1>0, ChainCheckParts DEF QIs, MainIs
  <2> QED
    BY <1>0, <2>1, <2>2 DEF InputKept, Inputs
<1>8. CASE SendBuffer
  <2>1. main.tb /\ AtDsp' = AtDsp
    BY <1>8, <1>0, SendBufferParts, AtDspKept DEF MainHolds
  <2>2. \/ q'.in = q.in + 1 /\ ~main'.tb
        \/ q'.in = q.in /\ main'.tb = main.tb
    BY <1>8, <1>0, SendBufferParts DEF QIs, MainIs
  <2>3. CASE q'.in = q.in + 1 /\ ~main'.tb
    BY <1>0, <2>1, <2>3 DEF InputKept, Inputs
  <2>4. CASE q'.in = q.in /\ main'.tb = main.tb
    BY <1>0, <2>1, <2>4 DEF InputKept, Inputs
  <2> QED
    BY <2>2, <2>3, <2>4
<1>9. CASE Answer
  <2>1. main' = main
    BY <1>9, AnswerIs
  <2>2. \/ q'.in = q.in /\ (AtDsp' <=> AtDsp)
        \/ q'.in = q.in + 1 /\ AtDsp /\ ~AtDsp'
    BY <1>9, AnswerIs DEF QIs
  <2> QED
    BY <1>0, <2>1, <2>2 DEF InputKept, Inputs
<1>10. CASE AnswerError \/ EventError
  <2>1. q'.in = q.in /\ main'.tb = main.tb /\ (AtDsp' => AtDsp) /\ failed'
    BY <1>10, <1>0, ErrorParts, ErrorIs DEF QIs, MainKept, MainIs
  <2> QED
    BY <1>0, <2>1 DEF InputKept, Inputs
<1>11. CASE Reset
  <2>1. q'.in = 0 /\ ~main'.tb /\ dspq' = <<>> /\ main'.at = "ready"
    BY <1>11, <1>0, ResetIs DEF QIs, MainIs, MainHolds
  <2>2. ~AtDsp'
    BY <2>1 DEF AtDsp, Range
  <2> QED
    BY <2>1, <2>2 DEF InputKept, Inputs
<1>12. CASE Sent
  <2>1. q'.in = q.in /\ main'.tb = main.tb /\ AtDsp' = AtDsp
    BY <1>12, <1>0, SentParts, AtDspKept DEF MainIs
  <2> QED
    BY <1>0, <2>1 DEF InputKept, Inputs
<1>13. CASE StopMessage
  <2>1. q'.in = q.in /\ main'.tb = main.tb /\ AtDsp' = AtDsp
    BY <1>13, <1>0, StopMessageParts, AtDspKept DEF MainIs
  <2> QED
    BY <1>0, <2>1 DEF InputKept, Inputs
<1>14. CASE ~(SetCaps \/ SendMsg \/ SendTimesOut \/ SentTimesOut \/ SendFails \/ SendBufferError
              \/ ChainPop \/ ChainCheck \/ SendBuffer \/ Answer \/ AnswerError \/ EventError
              \/ Reset \/ Sent \/ StopMessage)
  <2>1. q'.in = q.in /\ main'.tb = main.tb /\ AtDsp' = AtDsp
    BY <1>14, <1>0, QInKept, DspKept, AtDspKept, MainSame DEF MainKept, MainIs
  <2> QED
    BY <1>0, <2>1 DEF InputKept, Inputs
<1> QED
  BY <1>1, <1>2, <1>3, <1>4, <1>5, <1>6, <1>7, <1>8, <1>9, <1>10, <1>11, <1>12, <1>13, <1>14

(* Spots, without the set: an output buffer is in one place, and in one.   *)
AtD(x) == AtDsp /\ out_buf_ptr = x
Apart ==
  /\ IsInjective(q.ipp) /\ IsInjective(q.out)
  /\ \A x \in Bufs :
       /\ x \in Range(q.ipp) => /\ x \notin Range(q.out) /\ main.otb # x /\ loop.tb # x
                                /\ x \notin lent /\ ~AtD(x)
       /\ x \in Range(q.out) => main.otb # x /\ loop.tb # x /\ x \notin lent /\ ~AtD(x)
       /\ main.otb = x => loop.tb # x /\ x \notin lent /\ ~AtD(x)
       /\ loop.tb = x => x \notin lent /\ ~AtD(x)
       /\ x \in lent => ~AtD(x)
There(x) == \/ x \in Range(q.ipp) \/ x \in Range(q.out) \/ main.otb = x \/ loop.tb = x
            \/ x \in lent \/ AtD(x)

(* Both say the same of a buffer.                                          *)
LEMMA SpotsApart ==
  /\ NoneTwice <=> Apart
  /\ \A x \in Bufs : Spots(x) # {} <=> There(x)
<1>1. ASSUME NoneTwice
      PROVE  Apart
  <2>1. IsInjective(q.ipp) /\ IsInjective(q.out)
    BY <1>1 DEF NoneTwice
  <2>2. ASSUME NEW x \in Bufs, NEW s, NEW t, s \in Spots(x), t \in Spots(x)
        PROVE  s = t
    BY <1>1, <2>2 DEF NoneTwice
  <2> QED
    BY <2>1, <2>2 DEF Apart, AtD, Spots
<1>2. ASSUME Apart
      PROVE  NoneTwice
  BY <1>2 DEF Apart, AtD, NoneTwice, Spots
<1>3. ASSUME NEW x \in Bufs
      PROVE  Spots(x) # {} <=> There(x)
  BY DEF Spots, There, AtD
<1> QED
  BY <1>1, <1>2, <1>3

(* The same after the step                                                 *)
LEMMA SpotsApartNext ==
  /\ NoneTwice' <=> Apart'
  /\ \A x \in Bufs : Spots(x)' # {} <=> There(x)'
<1>1. ASSUME NoneTwice'
      PROVE  Apart'
  <2>1. IsInjective(q'.ipp) /\ IsInjective(q'.out)
    BY <1>1 DEF NoneTwice
  <2>2. ASSUME NEW x \in Bufs, NEW s, NEW t, s \in Spots(x)', t \in Spots(x)'
        PROVE  s = t
    BY <1>1, <2>2 DEF NoneTwice
  <2> QED
    BY <2>1, <2>2 DEF Apart, AtD, Spots
<1>2. ASSUME Apart'
      PROVE  NoneTwice'
  BY <1>2 DEF Apart, AtD, NoneTwice, Spots
<1>3. ASSUME NEW x \in Bufs
      PROVE  Spots(x)' # {} <=> There(x)'
  BY DEF Spots, There, AtD
<1> QED
  BY <1>1, <1>2, <1>3

(* Only these move an output buffer.                                       *)
LEMMA PlacesKept ==
  ASSUME IppInv, [Next]_vars,
         ~(SetCaps \/ SendMsg \/ SendTimesOut \/ SentTimesOut \/ SendFails \/ SendBuffer
           \/ Answer \/ AnswerError \/ EventError \/ LoopPop \/ LoopCheck \/ LoopDrop \/ LoopPush
           \/ (\E b \in Bufs : Finalize(b)) \/ StopMessage \/ Reset)
  PROVE  /\ q'.ipp = q.ipp /\ q'.out = q.out /\ main'.otb = main.otb /\ loop'.tb = loop.tb
         /\ lent' = lent /\ dspq' = dspq /\ out_buf_ptr' = out_buf_ptr
<1>0. Held
  BY InvHeld
<1>1. CASE Sent
  BY <1>1, <1>0, SentParts
  DEF QIs, MainIs, LoopIs, MainKept, LoopKept
<1>2. CASE ChainPop \/ ChainCheck \/ SendBufferError
  BY <1>2, <1>0, ChainPopParts, ChainCheckParts, SendBufferErrorParts
  DEF QIs, MainIs, LoopIs, MainKept, LoopKept
<1>3. CASE ThreadEnds
  BY <1>3, <1>0, ThreadEndsParts
  DEF QIs, MainIs, LoopIs, MainKept, LoopKept
<1>4. CASE CapsRefused \/ FlushStart \/ FlushUnlock \/ StopUnlock \/ FlushPause \/ FlushStop
  BY <1>4, <1>0, FlushStartParts, UnlockedParts,
     CapsRefusedParts, FlushPauseParts, FlushStopParts
  DEF QIs, MainIs, LoopIs, MainKept, LoopKept
<1>5. CASE StopDone \/ Restart
  BY <1>5, <1>0, StopDoneParts, RestartParts
  DEF QIs, MainIs, LoopIs, MainKept, LoopKept
<1>6. CASE UNCHANGED vars
  BY <1>6, <1>0
  DEF QIs, MainIs, LoopIs, MainKept, LoopKept, vars, bufVars, dspVars, padVars, histVars, counters
<1> QED
  BY <1>1, <1>2, <1>3, <1>4, <1>5, <1>6
  DEF Next, Main, Dsp, Loop, App

(* setup_buffers puts every output buffer into ipp_queue.                  *)
LEMMA CapsThere ==
  ASSUME IppInv, SetCaps
  PROVE  \A x \in Bufs : There(x)'
<1>1. q'.ipp = OutBufs
  BY InvHeld, SetCapsParts DEF QIs
<1> QED
  BY <1>1, BufTypes DEF There

(* Every move of an output buffer takes it from one place to another.      *)
LEMMA OutputsMoved ==
  ASSUME IppInv, [Next]_vars
  PROVE  /\ Apart'
         /\ ~failed' /\ main'.at # "ready" /\ app' # "stop" =>
              \A x \in Bufs : There(x) => There(x)'
<1>0. /\ Held /\ MainHolds /\ LoopHolds /\ Apart /\ Bufs = Range(OutBufs) /\ NoBuf \notin Bufs
      /\ q.ipp \in Seq(Bufs) /\ q.out \in Seq(Bufs) /\ loop.tb \in Bufs \cup {NoBuf}
  BY InvHeld, Fields, BufTypes, SpotsApart DEF IppInv, OutputsKept, Held
<1>1. CASE SetCaps
  <2>1. /\ q'.ipp = OutBufs /\ q'.out = <<>> /\ main'.otb = NoBuf /\ loop'.tb = NoBuf /\ lent' = {}
        /\ dspq' = <<>>
    BY <1>1, <1>0, SetCapsParts DEF QIs, MainIs, MainHolds, LoopHolds, IppInv, Stopping
  <2>2. ~AtDsp' /\ IsInjective(q'.ipp) /\ Range(q'.ipp) = Bufs
    BY <2>1, BufTypes DEF AtDsp, Range
  <2>3. IsInjective(q'.out) /\ Range(q'.out) = {}
    BY <2>1 DEF IsInjective, Range
  <2> QED
    BY <1>0, <2>1, <2>2, <2>3 DEF Apart, There, AtD
<1>2. CASE SendMsg
  <2>1. /\ UNCHANGED <<q, loop, lent>> /\ (AtDsp' <=> AtDsp \/ Head(main.todo) = queue_buffer)
        /\ main'.otb = (IF Head(main.todo) = queue_buffer THEN NoBuf ELSE main.otb)
        /\ out_buf_ptr' = IF Head(main.todo) = control_pipe THEN main.otb ELSE out_buf_ptr
    BY <1>2, <1>0, SendMsgParts, SendMsgIs DEF MainIs
  <2>2. CASE Head(main.todo) = control_pipe
    <3>1. ~AtDsp /\ ~AtDsp' /\ main'.otb = main.otb
      BY <1>2, <2>1, <2>2, FrameAlone, MessageIds
    <3> QED
      BY <1>0, <2>1, <3>1 DEF Apart, There, AtD
  <2>3. CASE Head(main.todo) = queue_buffer
    <3>1. ~AtDsp /\ AtDsp' /\ out_buf_ptr' = main.otb /\ main'.otb = NoBuf
      BY <1>2, <2>1, <2>3, QueueingNext, MessageIds
    <3> QED
      BY <1>0, <2>1, <3>1 DEF Apart, There, AtD
  <2>4. CASE Head(main.todo) \notin {control_pipe, queue_buffer}
    BY <1>0, <2>1, <2>4 DEF Apart, There, AtD
  <2> QED
    BY <2>2, <2>3, <2>4
<1>3. CASE SendTimesOut \/ SentTimesOut
  <2>1. UNCHANGED <<q, loop, lent, dspq, out_buf_ptr>> /\ main'.otb = NoBuf /\ failed'
    BY <1>3, <1>0, TimeoutParts DEF GivenUp, MainIs
  <2> QED
    BY <1>0, <2>1, AtDspKept DEF Apart, AtD
<1>4. CASE SendFails
  <2>1. UNCHANGED <<q, loop, lent, dspq, out_buf_ptr>> /\ main'.otb = NoBuf /\ failed'
    BY <1>4, <1>0, SendFailsParts DEF GivenUp, MainIs
  <2> QED
    BY <1>0, <2>1, AtDspKept DEF Apart, AtD
<1>5. CASE SendBuffer
  <2>1. UNCHANGED <<loop, lent, dspq, out_buf_ptr>> /\ main.otb = NoBuf
    BY <1>5, <1>0, SendBufferParts DEF MainHolds
  <2>2. CASE q'.ipp = Tail(q.ipp) /\ q'.out = q.out /\ q.ipp # <<>> /\ main'.otb = Head(q.ipp)
    <3>1. /\ Range(q.ipp) = Range(q'.ipp) \cup {main'.otb} /\ IsInjective(q'.ipp)
          /\ main'.otb \notin Range(q'.ipp) /\ main'.otb \in Bufs
      BY <1>0, <2>2, TailRange DEF Apart
    <3> QED
      BY <1>0, <2>1, <2>2, <3>1, AtDspKept DEF Apart, There, AtD
  <2>3. CASE q'.ipp = q.ipp /\ q'.out = q.out /\ main'.otb = main.otb
    BY <1>0, <2>1, <2>3, AtDspKept DEF Apart, There, AtD
  <2> QED
    BY <1>5, <1>0, <2>2, <2>3, SendBufferParts DEF QIs, MainIs
<1>6. CASE Answer
  <2>1. /\ UNCHANGED <<main, loop, lent, out_buf_ptr>>
        /\ AtDsp <=> AtDsp' \/ Head(dspq) = queue_buffer
    BY <1>6, AnswerIs
  <2>2. CASE q' = q /\ Head(dspq) # queue_buffer
    BY <1>0, <2>1, <2>2 DEF Apart, There, AtD
  <2>3. CASE /\ Head(dspq) = queue_buffer /\ ~AtDsp' /\ out_buf_ptr \in Bufs
             /\ q'.ipp = q.ipp /\ q'.out = Append(q.out, out_buf_ptr)
    <3>1. out_buf_ptr \notin Range(q.out)
      BY <1>0, <2>1, <2>3 DEF Apart, AtD
    <3>2. Range(q'.out) = Range(q.out) \cup {out_buf_ptr} /\ IsInjective(q'.out)
      BY <1>0, <2>3, <3>1, AppendRange DEF Apart
    <3> QED
      BY <1>0, <2>1, <2>3, <3>2 DEF Apart, There, AtD
  <2> QED
    BY <1>6, <2>2, <2>3, AnswerIs DEF QIs
<1>7. CASE AnswerError \/ EventError
  <2>1. /\ UNCHANGED <<lent, out_buf_ptr>> /\ (AtDsp' => AtDsp) /\ failed'
        /\ q'.ipp = q.ipp /\ q'.out = q.out /\ main'.otb = main.otb /\ loop'.tb = loop.tb
    BY <1>7, <1>0, ErrorParts, ErrorIs DEF QIs, MainKept, MainIs, LoopKept, LoopIs
  <2> QED
    BY <1>0, <2>1 DEF Apart, AtD
<1>8. CASE LoopPop
  <2>1. UNCHANGED <<main, lent, dspq, out_buf_ptr>> /\ loop.tb = NoBuf
    BY <1>8, <1>0, LoopPopParts DEF LoopHolds
  <2>2. CASE q'.out = Tail(q.out) /\ q'.ipp = q.ipp /\ q.out # <<>> /\ loop'.tb = Head(q.out)
    <3>1. /\ Range(q.out) = Range(q'.out) \cup {loop'.tb} /\ IsInjective(q'.out)
          /\ loop'.tb \notin Range(q'.out) /\ loop'.tb \in Bufs
      BY <1>0, <2>2, TailRange DEF Apart
    <3> QED
      BY <1>0, <2>1, <2>2, <3>1, AtDspKept DEF Apart, There, AtD
  <2>3. CASE q' = q /\ loop'.tb = NoBuf
    BY <1>0, <2>1, <2>3, AtDspKept DEF Apart, There, AtD
  <2> QED
    BY <1>8, <1>0, <2>1, <2>2, <2>3, LoopPopParts DEF QIs, LoopIs
<1>9. CASE LoopCheck
  <2>1. UNCHANGED <<lent, dspq, out_buf_ptr>> /\ main'.otb = main.otb
    BY <1>9, <1>0, LoopCheckParts DEF MainKept, MainIs
  <2>2. CASE q'.ipp = q.ipp /\ q'.out = q.out /\ loop'.tb = loop.tb
    BY <1>0, <2>1, <2>2, AtDspKept DEF Apart, There, AtD
  <2>3. CASE /\ q'.ipp = q.ipp /\ q'.out = Append(q.out, loop.tb)
             /\ loop'.tb = NoBuf /\ loop.tb # NoBuf
    <3>1. loop.tb \in Bufs /\ loop.tb \notin Range(q.out)
      BY <1>0, <2>3 DEF Apart
    <3>2. Range(q'.out) = Range(q.out) \cup {loop.tb} /\ IsInjective(q'.out)
      BY <1>0, <2>3, <3>1, AppendRange DEF Apart
    <3> QED
      BY <1>0, <2>1, <2>3, <3>1, <3>2, AtDspKept DEF Apart, There, AtD
  <2>4. CASE base.status = "OK"
    BY <1>9, <1>0, <2>2, <2>4, LoopCheckParts DEF LoopIs, LoopHolds
  <2>5. CASE base.status # "OK"
    BY <1>9, <1>0, <2>2, <2>3, <2>5, LoopCheckParts DEF QIs, LoopIs
  <2> QED
    BY <2>4, <2>5
<1>10. CASE LoopDrop
  <2>1. /\ UNCHANGED <<main, lent, dspq, out_buf_ptr>> /\ loop.tb \in Bufs /\ loop'.tb = NoBuf
        /\ q'.ipp = Append(q.ipp, loop.tb) /\ q'.out = q.out
    BY <1>10, LoopDropIs DEF QIs, LoopIs
  <2> QED
    <3>1. loop.tb \notin Range(q.ipp)
      BY <1>0, <2>1 DEF Apart
    <3>2. Range(q'.ipp) = Range(q.ipp) \cup {loop.tb} /\ IsInjective(q'.ipp)
      BY <1>0, <2>1, <3>1, AppendRange DEF Apart
    <3> QED
      BY <1>0, <2>1, <3>2, AtDspKept DEF Apart, There, AtD
<1>11. CASE LoopPush
  <2>1. /\ UNCHANGED <<dspq, out_buf_ptr>> /\ loop.tb \in Bufs /\ loop'.tb = NoBuf
        /\ main'.otb = main.otb
    BY <1>11, LoopPushIs DEF LoopIs, MainKept, MainIs
  <2>2. CASE q'.ipp = Append(q.ipp, loop.tb) /\ q'.out = q.out /\ lent' = lent
    <3>1. loop.tb \notin Range(q.ipp)
      BY <1>0, <2>1, <2>2 DEF Apart
    <3>2. Range(q'.ipp) = Range(q.ipp) \cup {loop.tb} /\ IsInjective(q'.ipp)
      BY <1>0, <2>1, <2>2, <3>1, AppendRange DEF Apart
    <3> QED
      BY <1>0, <2>1, <2>2, <3>2, AtDspKept DEF Apart, There, AtD
  <2>3. CASE q'.ipp = q.ipp /\ q'.out = q.out /\ lent' = lent \cup {loop.tb}
    BY <1>0, <2>1, <2>3, AtDspKept DEF Apart, There, AtD
  <2> QED
    BY <1>11, <2>2, <2>3, LoopPushIs DEF QIs
<1>12. CASE \E b \in Bufs : Finalize(b)
  <2>1. PICK b \in Bufs : Finalize(b)
    BY <1>12
  <2>2. /\ UNCHANGED <<main, loop, dspq, out_buf_ptr>> /\ b \in lent /\ lent' = lent \ {b}
        /\ q'.ipp = Append(q.ipp, b) /\ q'.out = q.out
    BY <1>0, <2>1, FinalizeParts DEF QIs
  <2> QED
    <3>1. b \notin Range(q.ipp)
      BY <1>0, <2>2 DEF Apart
    <3>2. Range(q'.ipp) = Range(q.ipp) \cup {b} /\ IsInjective(q'.ipp)
      BY <1>0, <2>2, <3>1, AppendRange DEF Apart
    <3> QED
      BY <1>0, <2>2, <3>2, AtDspKept DEF Apart, There, AtD
<1>13. CASE StopMessage
  <2>1. /\ UNCHANGED <<q, loop, dspq, out_buf_ptr>> /\ main'.otb = main.otb /\ lent' = {}
        /\ app' = "stop"
    BY <1>13, <1>0, StopMessageParts DEF MainIs
  <2> QED
    BY <1>0, <2>1, AtDspKept DEF Apart, AtD
<1>14. CASE Reset
  <2>1. /\ q'.ipp = <<>> /\ q'.out = <<>> /\ dspq' = <<>> /\ main'.at = "ready"
        /\ UNCHANGED <<loop, lent>> /\ main'.otb = main.otb
    BY <1>14, ResetIs DEF QIs, MainIs
  <2>2. /\ ~AtDsp' /\ Range(q'.ipp) = {} /\ Range(q'.out) = {}
        /\ IsInjective(q'.ipp) /\ IsInjective(q'.out)
    BY <2>1 DEF AtDsp, Range, IsInjective
  <2> QED
    BY <1>0, <2>1, <2>2 DEF Apart, AtD
<1>15. CASE ~(SetCaps \/ SendMsg \/ SendTimesOut \/ SentTimesOut \/ SendFails \/ SendBuffer
              \/ Answer \/ AnswerError \/ EventError \/ LoopPop \/ LoopCheck \/ LoopDrop
              \/ LoopPush \/ (\E b \in Bufs : Finalize(b)) \/ StopMessage \/ Reset)
  <2>1. /\ q'.ipp = q.ipp /\ q'.out = q.out /\ main'.otb = main.otb /\ loop'.tb = loop.tb
        /\ lent' = lent /\ dspq' = dspq /\ out_buf_ptr' = out_buf_ptr
    BY <1>15, PlacesKept
  <2> QED
    BY <1>0, <2>1, AtDspKept DEF Apart, There, AtD
<1> QED
  BY <1>1, <1>2, <1>3, <1>4, <1>5, <1>6, <1>7, <1>8, <1>9, <1>10, <1>11, <1>12, <1>13, <1>14, <1>15

(* Only sink_setcaps leaves the state in which the element has no buffers. *)
LEMMA ReadyLeft ==
  ASSUME IppInv, [Next]_vars,
         ~(SetCaps)
  PROVE  main.at = "ready" => main'.at = "ready"
<1>0. Held
  BY InvHeld
<1>1. CASE SendMsg \/ SendTimesOut \/ SentTimesOut \/ SendFails \/ Sent
  BY <1>1, <1>0, SendMsgParts, TimeoutParts, SendFailsParts, SentParts
  DEF MainIs, MainKept
<1>2. CASE ChainPop \/ ChainCheck \/ SendBuffer \/ SendBufferError
  BY <1>2, <1>0, ChainPopParts, ChainCheckParts, SendBufferParts, SendBufferErrorParts
  DEF MainIs, MainKept
<1>3. CASE Answer \/ AnswerError \/ EventError \/ ThreadEnds
  BY <1>3, <1>0, AnswerIs, ErrorParts, ThreadEndsParts
  DEF MainIs, MainKept
<1>4. CASE LoopPop \/ LoopCheck \/ LoopDrop \/ LoopPush
  BY <1>4, <1>0, LoopPopParts, LoopCheckParts, LoopDropIs, LoopPushIs
  DEF MainIs, MainKept
<1>5. CASE (\E b \in Bufs : Finalize(b)) \/ CapsRefused \/ FlushStart \/ FlushUnlock \/ StopUnlock
           \/ FlushPause \/ FlushStop
  BY <1>5, <1>0, FinalizeParts, FlushStartParts, UnlockedParts,
     CapsRefusedParts, FlushPauseParts, FlushStopParts
  DEF MainIs, MainKept
<1>6. CASE StopMessage \/ StopDone \/ Reset \/ Restart
  BY <1>6, <1>0, StopMessageParts, StopDoneParts, ResetIs, RestartParts
  DEF MainIs, MainKept
<1>7. CASE UNCHANGED vars
  BY <1>7, <1>0
  DEF MainIs, MainKept, vars, bufVars, dspVars, padVars, histVars, counters
<1> QED
  BY <1>1, <1>2, <1>3, <1>4, <1>5, <1>6, <1>7
  DEF Next, Main, Dsp, Loop, App

(* Only app changes app.                                                   *)
LEMMA AppKept ==
  ASSUME IppInv, [Next]_vars,
         ~(FlushStart \/ FlushUnlock \/ StopUnlock \/ FlushPause \/ FlushStop \/ StopMessage
           \/ StopDone \/ Reset \/ Restart)
  PROVE  app' = app
<1>0. Held
  BY InvHeld
<1>1. CASE SetCaps \/ SendMsg \/ SendTimesOut \/ SentTimesOut \/ SendFails \/ Sent
  BY <1>1, <1>0, SetCapsParts, SendMsgParts, TimeoutParts, SendFailsParts, SentParts
<1>2. CASE ChainPop \/ ChainCheck \/ SendBuffer \/ SendBufferError
  BY <1>2, <1>0, ChainPopParts, ChainCheckParts, SendBufferParts, SendBufferErrorParts
<1>3. CASE Answer \/ AnswerError \/ EventError \/ ThreadEnds
  BY <1>3, <1>0, AnswerIs, ErrorParts, ThreadEndsParts
<1>4. CASE LoopPop \/ LoopCheck \/ LoopDrop \/ LoopPush
  BY <1>4, <1>0, LoopPopParts, LoopCheckParts, LoopDropIs, LoopPushIs
<1>5. CASE CapsRefused \/ \E b \in Bufs : Finalize(b)
  BY <1>5, <1>0, CapsRefusedParts, FinalizeParts
<1>6. CASE UNCHANGED vars
  BY <1>6, <1>0
  DEF vars, bufVars, dspVars, padVars, histVars, counters
<1> QED
  BY <1>1, <1>2, <1>3, <1>4, <1>5, <1>6
  DEF Next, Main, Dsp, Loop, App

InUse == {"idle", "flush", "pause", "flushed", "deactivate"}
(* The element comes into use with sink_setcaps.                           *)
LEMMA InUseKept ==
  ASSUME IppInv, [Next]_vars, app' \in InUse, app \notin InUse
  PROVE  main'.at = "ready"
<1>0. Held /\ Stopping
  BY InvHeld DEF IppInv
<1>1. CASE FlushStart \/ FlushPause \/ FlushStop
  BY <1>1, <1>0, FlushStartParts, FlushPauseParts, FlushStopParts DEF InUse
<1>2. CASE FlushUnlock \/ StopUnlock
  BY <1>2, <1>0, UnlockedParts DEF InUse
<1>3. CASE StopMessage \/ StopDone \/ Reset
  BY <1>3, <1>0, StopMessageParts, StopDoneParts, ResetIs DEF InUse
<1>4. CASE Restart
  BY <1>4, <1>0, RestartParts DEF InUse, Stopping
<1>5. CASE ~(FlushStart \/ FlushPause \/ FlushStop \/ FlushUnlock \/ StopUnlock \/ StopMessage
            \/ StopDone \/ Reset \/ Restart)
  BY <1>5, AppKept
<1> QED
  BY <1>1, <1>2, <1>3, <1>4, <1>5

(* setup_buffers puts the input buffer into its queue.                     *)
LEMMA CapsInput ==
  ASSUME IppInv, SetCaps
  PROVE  Inputs' = 1
<1>1. Held /\ MainHolds
  BY InvHeld DEF IppInv
<1>2. q'.in = 1 /\ ~main'.tb /\ dspq' = <<>>
  BY <1>1, SetCapsParts DEF QIs, MainIs, MainHolds, IppInv, Stopping
<1>3. ~AtDsp'
  BY <1>2 DEF AtDsp, Range
<1> QED
  BY <1>2, <1>3 DEF Inputs

(* No output buffer is in two places.                                      *)
LEMMA NoneTwiceKept ==
  ASSUME IppInv, [Next]_vars
  PROVE  OutputsKept'
BY OutputsMoved, SpotsApartNext DEF OutputsKept

(* Nothing is lost unless a message fails.                                 *)
LEMMA AllThereKept ==
  ASSUME IppInv, [Next]_vars
  PROVE  AllThere'
<1> SUFFICES ASSUME ~failed', main'.at # "ready", app' \in InUse
             PROVE  Inputs' = 1 /\ \A x \in Bufs : Spots(x)' # {}
  BY DEF AllThere, InUse
<1>1. CASE SetCaps
  BY <1>1, CapsInput, CapsThere, SpotsApartNext
<1>2. CASE ~SetCaps
  <2>1. ~failed /\ main.at # "ready" /\ app \in InUse
    BY <1>2, FailedKept, ReadyLeft, InUseKept
  <2>2. Inputs = 1 /\ \A x \in Bufs : Spots(x) # {}
    BY <2>1 DEF IppInv, AllThere, InUse
  <2>3. Inputs' = 1
    BY <2>2, InputMoved
  <2>4. \A x \in Bufs : There(x)'
    BY <2>2, SpotsApart, OutputsMoved DEF InUse
  <2> QED
    BY <2>3, <2>4, SpotsApartNext
<1> QED
  BY <1>1, <1>2

(* Only an answer changes the pipe.                                        *)
LEMMA PipeKept ==
  ASSUME IppInv, [Next]_vars,
         ~(Answer \/ Reset)
  PROVE  pipe' = pipe
<1>0. Held
  BY InvHeld
<1>1. CASE SetCaps \/ SendMsg \/ SendTimesOut \/ SentTimesOut \/ SendFails \/ Sent
  BY <1>1, <1>0, SetCapsParts, SendMsgParts, TimeoutParts, SendFailsParts, SentParts
<1>2. CASE ChainPop \/ ChainCheck \/ SendBuffer \/ SendBufferError
  BY <1>2, <1>0, ChainPopParts, ChainCheckParts, SendBufferParts, SendBufferErrorParts
<1>3. CASE AnswerError \/ EventError \/ ThreadEnds
  BY <1>3, <1>0, ErrorParts, ThreadEndsParts
<1>4. CASE LoopPop \/ LoopCheck \/ LoopDrop \/ LoopPush
  BY <1>4, <1>0, LoopPopParts, LoopCheckParts, LoopDropIs, LoopPushIs
<1>5. CASE (\E b \in Bufs : Finalize(b)) \/ CapsRefused \/ FlushStart \/ FlushUnlock \/ StopUnlock
           \/ FlushPause \/ FlushStop
  BY <1>5, <1>0, FinalizeParts, FlushStartParts, UnlockedParts,
     CapsRefusedParts, FlushPauseParts, FlushStopParts
<1>6. CASE StopMessage \/ StopDone \/ Restart
  BY <1>6, <1>0, StopMessageParts, StopDoneParts, RestartParts
<1>7. CASE UNCHANGED vars
  BY <1>7, <1>0
  DEF vars, bufVars, dspVars, padVars, histVars, counters
<1> QED
  BY <1>1, <1>2, <1>3, <1>4, <1>5, <1>6, <1>7
  DEF Next, Main, Dsp, Loop, App

(* The state the pipe will be in only depends on the pipe and on its       *)
(* messages.                                                               *)
LEMMA ReachedKept ==
  ASSUME dspq' = dspq, pipe' = pipe
  PROVE  Reached' = Reached
BY DEF Reached, Deliver

(* Until a message fails, each comes in the state DFGM asks for.           *)
LEMMA ProtocolKept ==
  ASSUME IppInv, [Next]_vars
  PROVE  Protocol'
<1>0. Held /\ Protocol /\ (base.error => failed) /\ (surplus => failed)
  BY InvHeld DEF IppInv, Semaphores
<1>1. CASE SetCaps
  <2>1. UNCHANGED <<dspq, pipe, args, failed>>
    BY <1>1, <1>0, SetCapsParts
  <2>2. /\ main.at = "ready" /\ main'.at = "send" /\ main'.mode = "init"
        /\ main'.todo = init_pipe
    BY <1>1, <1>0, SetCapsParts DEF MainIs
  <2> QED
    BY <1>0, <2>1, <2>2, ReachedKept, JobStates DEF Protocol
<1>2. CASE SendMsg
  <2> DEFINE m == Head(main.todo)
  <2>1. /\ main.at = "send" /\ main.todo # <<>> /\ sem.msg > 0 /\ main.mode \in Modes
        /\ main'.at = "send" /\ main'.mode = main.mode /\ main'.todo = Tail(main.todo)
        /\ dspq' = Append(dspq, m) /\ UNCHANGED <<pipe, failed>>
    BY <1>2, <1>0, SendMsgParts, Fields DEF Held, MainIs
  <2>2. CASE failed
    BY <2>1, <2>2 DEF Protocol
  <2>3. CASE ~failed
    <3>1. dspq = <<>> /\ dspq' = <<m>>
      BY <1>0, <2>1, <2>3, NoneSent, AppendNothing
    <3>2. <<pipe, main.todo>> \in ToSend(main.mode) /\ pipe # "broken"
      BY <1>0, <2>1, <2>3, <3>1 DEF Protocol, Reached
    <3>3. /\ pipe = Transition[m.id][1]
          /\ <<Transition[m.id][2], Tail(main.todo)>> \in ToSend(main.mode)
      BY <2>1, <3>2, NextMessage DEF Asks
    <3>4. Reached' = Transition[m.id][2]
      BY <2>1, <3>1, <3>3, AppendNothing DEF Reached, Deliver
    <3> QED
      BY <2>1, <2>3, <3>1, <3>2, <3>3, <3>4, AppendNothing DEF Protocol
  <2> QED
    BY <2>2, <2>3
<1>3. CASE SendTimesOut \/ SentTimesOut \/ SendFails \/ AnswerError \/ EventError
  BY <1>3, <1>0, TimeoutParts, SendFailsParts, ErrorParts DEF Protocol
<1>4. CASE Sent
  <2>1. UNCHANGED <<dspq, pipe, args, failed>> /\ main.at = "send" /\ main.todo = <<>>
    BY <1>4, <1>0, SentParts
  <2>2. \/ main.mode \in {"init", "frame"} /\ main'.at = "idle"
        \/ main.mode = "stop" /\ main'.at = "stopped" /\ sem.msg > 0
    BY <1>4, <1>0, SentParts DEF MainIs
  <2>3. ~failed => <<Reached, <<>> >> \in ToSend(main.mode)
    BY <1>0, <2>1 DEF Protocol
  <2>4. ~failed /\ main.mode \in {"init", "frame"} => Reached = "running"
    BY <2>3, JobStates
  <2>5. ~failed /\ main.mode = "stop" => dspq = <<>> /\ pipe = "none"
    BY <1>0, <2>2, <2>3, NoneSent, JobStates DEF Reached
  <2> QED
    BY <1>0, <2>1, <2>2, <2>4, <2>5, ReachedKept DEF Protocol
<1>5. CASE ChainPop
  <2>1. UNCHANGED <<dspq, pipe, args, failed>>
    BY <1>5, <1>0, ChainPopParts
  <2>2. main.at \in {"idle", "pop"} /\ main'.at \in {"check", "pop"}
    BY <1>5, <1>0, ChainPopParts DEF MainIs
  <2> QED
    BY <1>0, <2>1, <2>2, ReachedKept DEF Protocol
<1>6. CASE ChainCheck
  <2>1. UNCHANGED <<dspq, pipe, args, failed>>
    BY <1>6, <1>0, ChainCheckParts
  <2>2. main.at = "check" /\ main'.at \in {"idle", "buffer"}
    BY <1>6, <1>0, ChainCheckParts DEF MainIs
  <2> QED
    BY <1>0, <2>1, <2>2, ReachedKept DEF Protocol
<1>7. CASE SendBuffer
  <2>1. UNCHANGED <<dspq, pipe, args, failed>>
    BY <1>7, <1>0, SendBufferParts
  <2>2. /\ main.at \in {"buffer", "otb"} /\ main'.at \in {"send", "idle", "otb"}
        /\ main'.at = "send" => main'.todo = send_frame /\ main'.mode = "frame"
    BY <1>7, <1>0, SendBufferParts DEF MainIs, Held, MainHolds
  <2> QED
    BY <1>0, <2>1, <2>2, ReachedKept, JobStates DEF Protocol
<1>8. CASE SendBufferError
  <2>1. UNCHANGED <<dspq, pipe, args, failed>>
    BY <1>8, <1>0, SendBufferErrorParts
  <2>2. main.at = "buffer" /\ main'.at = "idle"
    BY <1>8, <1>0, SendBufferErrorParts DEF MainIs
  <2> QED
    BY <1>0, <2>1, <2>2, ReachedKept DEF Protocol
<1>9. CASE Answer
  <2>1. /\ dspq \in Seq(Messages) /\ dspq # <<>> /\ dspq' = Tail(dspq)
        /\ pipe' = Deliver(Head(dspq)) /\ args' = {}
        /\ UNCHANGED <<failed, main, base>> /\ main.at \in MainAt /\ main.mode \in Modes
    BY <1>9, <1>0, AnswerIs, Fields DEF Held, Shapes
  <2>2. CASE failed
    BY <2>1, <2>2 DEF Protocol
  <2>3. CASE ~failed
    <3>1. Len(dspq) <= 1
      <4>1. ~surplus /\ sem.msg \in Nat /\ Len(dspq) \in Nat
        BY <1>0, <2>1, <2>3, Fields, LenProperties DEF Held
      <4> QED
        BY <4>1 DEF IppInv, Semaphores
    <3>2. dspq' = <<>>
      BY <2>1, <3>1, DspqTaken, EmptySeq, LenProperties
    <3>3. Reached' = Reached /\ pipe' = Reached
      BY <2>1, <3>2 DEF Reached
    <3>4. Reached # "broken"
      <4>1. main.at \notin {"ready", "stopped", "refused"}
        BY <1>0, <2>1, <2>3 DEF Protocol, IppInv, Stopping
      <4>2. CASE main.at = "send"
        BY <1>0, <2>1, <2>3, <4>2, JobStates DEF Protocol
      <4>3. CASE main.at # "send"
        BY <1>0, <2>1, <2>3, <4>1, <4>3 DEF Protocol, MainAt
      <4> QED
        BY <4>2, <4>3
    <3>5. main.at # "stopped"
      BY <1>0, <2>1, <2>3 DEF Protocol
    <3> QED
      BY <1>0, <2>1, <2>3, <3>2, <3>3, <3>4, <3>5 DEF Protocol
  <2> QED
    BY <2>2, <2>3
<1>10. CASE StopMessage
  <2>1. UNCHANGED <<dspq, pipe, args, failed, base>> /\ main.at \in {"idle", "refused"}
    BY <1>10, <1>0, StopMessageParts
  <2>2. ~base.error => main'.at = "send" /\ main'.mode = "stop" /\ main'.todo = send_stop
    BY <1>10, <1>0, StopMessageParts DEF MainIs
  <2> QED
    BY <1>0, <2>1, <2>2, ReachedKept, JobStates DEF Protocol
<1>11. CASE Reset
  <2>1. /\ dspq' = <<>> /\ pipe' = "none" /\ UNCHANGED <<args, failed>> /\ main.at = "stopped"
        /\ main'.at = "ready"
    BY <1>11, ResetIs DEF MainIs
  <2>2. Reached' = "none"
    BY <2>1 DEF Reached
  <2> QED
    BY <1>0, <2>1, <2>2 DEF Protocol
<1>12. CASE ~(SetCaps \/ SendMsg \/ SendTimesOut \/ SentTimesOut \/ SendFails \/ AnswerError
              \/ EventError \/ Sent \/ ChainPop \/ ChainCheck \/ SendBuffer \/ SendBufferError
              \/ Answer \/ StopMessage \/ Reset)
  <2>1. dspq' = dspq /\ pipe' = pipe /\ args' = args /\ (failed => failed')
        /\ main'.at = main.at /\ main'.mode = main.mode /\ main'.todo = main.todo
    BY <1>12, DspKept, PipeKept, ArgsKept, FailedKept, MainSame DEF MainKept, MainIs
  <2> QED
    BY <1>0, <2>1, ReachedKept DEF Protocol
<1> QED
  BY <1>1, <1>2, <1>3, <1>4, <1>5, <1>6, <1>7, <1>8, <1>9, <1>10, <1>11, <1>12

(* Only these count a time stamp in or out.                                *)
LEMMA CountKept ==
  ASSUME IppInv, [Next]_vars,
         ~(ChainCheck \/ LoopDrop \/ LoopPush \/ FlushStop \/ Reset)
  PROVE  base'.count = base.count /\ base'.stale = base.stale
<1>0. Held
  BY InvHeld
<1>1. CASE SetCaps \/ SendMsg \/ SendTimesOut \/ SentTimesOut \/ SendFails \/ Sent
  BY <1>1, <1>0, SetCapsParts, SendMsgParts, TimeoutParts, SendFailsParts, SentParts
  DEF BaseIs
<1>2. CASE ChainPop \/ SendBuffer \/ SendBufferError
  BY <1>2, <1>0, ChainPopParts, SendBufferParts, SendBufferErrorParts
  DEF BaseIs
<1>3. CASE Answer \/ AnswerError \/ EventError \/ ThreadEnds
  BY <1>3, <1>0, AnswerIs, ErrorParts, ThreadEndsParts
  DEF BaseIs
<1>4. CASE LoopPop \/ LoopCheck
  BY <1>4, <1>0, LoopPopParts, LoopCheckParts
  DEF BaseIs
<1>5. CASE (\E b \in Bufs : Finalize(b)) \/ CapsRefused \/ FlushStart \/ FlushUnlock \/ StopUnlock
           \/ FlushPause
  BY <1>5, <1>0, FinalizeParts, FlushStartParts, UnlockedParts,
     CapsRefusedParts, FlushPauseParts
  DEF BaseIs
<1>6. CASE StopMessage \/ StopDone \/ Restart
  BY <1>6, <1>0, StopMessageParts, StopDoneParts, RestartParts
  DEF BaseIs
<1>7. CASE UNCHANGED vars
  BY <1>7, <1>0
  DEF BaseIs, vars, bufVars, dspVars, padVars, histVars, counters
<1> QED
  BY <1>1, <1>2, <1>3, <1>4, <1>5, <1>6, <1>7
  DEF Next, Main, Dsp, Loop, App

(* Only ChainCheck counts the frames.                                      *)
LEMMA FramesKept ==
  ASSUME IppInv, [Next]_vars,
         ~(ChainCheck)
  PROVE  frames' = frames
<1>0. Held
  BY InvHeld
<1>1. CASE SetCaps \/ SendMsg \/ SendTimesOut \/ SentTimesOut \/ SendFails \/ Sent
  BY <1>1, <1>0, SetCapsParts, SendMsgParts, TimeoutParts, SendFailsParts, SentParts
<1>2. CASE ChainPop \/ SendBuffer \/ SendBufferError
  BY <1>2, <1>0, ChainPopParts, SendBufferParts, SendBufferErrorParts
<1>3. CASE Answer \/ AnswerError \/ EventError \/ ThreadEnds
  BY <1>3, <1>0, AnswerIs, ErrorParts, ThreadEndsParts
<1>4. CASE LoopPop \/ LoopCheck \/ LoopDrop \/ LoopPush
  BY <1>4, <1>0, LoopPopParts, LoopCheckParts, LoopDropIs, LoopPushIs
<1>5. CASE (\E b \in Bufs : Finalize(b)) \/ CapsRefused \/ FlushStart \/ FlushUnlock \/ StopUnlock
           \/ FlushPause \/ FlushStop
  BY <1>5, <1>0, FinalizeParts, FlushStartParts, UnlockedParts,
     CapsRefusedParts, FlushPauseParts, FlushStopParts
<1>6. CASE StopMessage \/ StopDone \/ Reset \/ Restart
  BY <1>6, <1>0, StopMessageParts, StopDoneParts, ResetIs, RestartParts
<1>7. CASE UNCHANGED vars
  BY <1>7, <1>0
  DEF vars, bufVars, dspVars, padVars, histVars, counters
<1> QED
  BY <1>1, <1>2, <1>3, <1>4, <1>5, <1>6, <1>7
  DEF Next, Main, Dsp, Loop, App

(* Only these change ports[1]->queue.                                      *)
LEMMA OutKept ==
  ASSUME IppInv, [Next]_vars,
         ~(SetCaps \/ Answer \/ LoopPop \/ LoopCheck \/ Reset)
  PROVE  q'.out = q.out
<1>0. Held
  BY InvHeld
<1>1. CASE SendMsg \/ SendTimesOut \/ SentTimesOut \/ SendFails \/ Sent
  BY <1>1, <1>0, SendMsgParts, TimeoutParts, SendFailsParts, SentParts
  DEF QIs
<1>2. CASE ChainPop \/ ChainCheck \/ SendBuffer \/ SendBufferError
  BY <1>2, <1>0, ChainPopParts, ChainCheckParts, SendBufferParts, SendBufferErrorParts
  DEF QIs
<1>3. CASE AnswerError \/ EventError \/ ThreadEnds
  BY <1>3, <1>0, ErrorParts, ThreadEndsParts
  DEF QIs
<1>4. CASE LoopDrop \/ LoopPush
  BY <1>4, <1>0, LoopDropIs, LoopPushIs
  DEF QIs
<1>5. CASE (\E b \in Bufs : Finalize(b)) \/ CapsRefused \/ FlushStart \/ FlushUnlock \/ StopUnlock
           \/ FlushPause \/ FlushStop
  BY <1>5, <1>0, FinalizeParts, FlushStartParts, UnlockedParts,
     CapsRefusedParts, FlushPauseParts, FlushStopParts
  DEF QIs
<1>6. CASE StopMessage \/ StopDone \/ Restart
  BY <1>6, <1>0, StopMessageParts, StopDoneParts, RestartParts
  DEF QIs
<1>7. CASE UNCHANGED vars
  BY <1>7, <1>0
  DEF QIs, vars, bufVars, dspVars, padVars, histVars, counters
<1> QED
  BY <1>1, <1>2, <1>3, <1>4, <1>5, <1>6, <1>7
  DEF Next, Main, Dsp, Loop, App

(* Only these change what output_loop has.                                 *)
LEMMA LoopTbKept ==
  ASSUME IppInv, [Next]_vars,
         ~(LoopPop \/ LoopCheck \/ LoopDrop \/ LoopPush)
  PROVE  loop'.tb = loop.tb
<1>0. Held
  BY InvHeld
<1>1. CASE SetCaps \/ SendMsg \/ SendTimesOut \/ SentTimesOut \/ SendFails \/ Sent
  BY <1>1, <1>0, SetCapsParts, SendMsgParts, TimeoutParts, SendFailsParts, SentParts
  DEF LoopKept, LoopIs
<1>2. CASE ChainPop \/ ChainCheck \/ SendBuffer \/ SendBufferError
  BY <1>2, <1>0, ChainPopParts, ChainCheckParts, SendBufferParts, SendBufferErrorParts
  DEF LoopKept, LoopIs
<1>3. CASE Answer \/ AnswerError \/ EventError \/ ThreadEnds
  BY <1>3, <1>0, AnswerIs, ErrorParts, ThreadEndsParts
  DEF LoopKept, LoopIs
<1>4. CASE (\E b \in Bufs : Finalize(b)) \/ CapsRefused \/ FlushStart \/ FlushUnlock \/ StopUnlock
           \/ FlushPause \/ FlushStop
  BY <1>4, <1>0, FinalizeParts, FlushStartParts, UnlockedParts,
     CapsRefusedParts, FlushPauseParts, FlushStopParts
  DEF LoopKept, LoopIs
<1>5. CASE StopMessage \/ StopDone \/ Reset \/ Restart
  BY <1>5, <1>0, StopMessageParts, StopDoneParts, ResetIs, RestartParts
  DEF LoopKept, LoopIs
<1>6. CASE UNCHANGED vars
  BY <1>6, <1>0
  DEF LoopKept, LoopIs, vars, bufVars, dspVars, padVars, histVars, counters
<1> QED
  BY <1>1, <1>2, <1>3, <1>4, <1>5, <1>6
  DEF Next, Main, Dsp, Loop, App

(* Without a message left the DSP has no buffer.                           *)
LEMMA NoneWaitsNext ==
  ASSUME dspq' = <<>>
  PROVE  ~AtDsp'
BY DEF AtDsp, Range

(* A frame is counted before it has an output buffer, and until            *)
(* output_loop is done with it.                                            *)
LEMMA CountedKept ==
  ASSUME IppInv, [Next]_vars
  PROVE  Counted'
<1>0. /\ Held /\ MainHolds /\ LoopHolds /\ Counted /\ Len(q.out) \in Nat /\ base.count \in Nat
      /\ base.stale \in Nat /\ frames \in Nat /\ MaxFrames \in Nat /\ q.out \in Seq(Bufs)
      /\ loop.tb \in Bufs \cup {NoBuf} /\ NoBuf \notin Bufs
  BY InvHeld, Fields, LenProperties, BufTypes DEF IppInv, Held, Shapes
<1>n. /\ InPass \in 0 .. 1 /\ InDsp \in 0 .. 1 /\ InMain \in 0 .. 1
      /\ InPass' \in 0 .. 1 /\ InDsp' \in 0 .. 1 /\ InMain' \in 0 .. 1
      /\ InHand \in Nat
  <2>1. /\ InPass \in 0 .. 1 /\ InDsp \in 0 .. 1 /\ InMain \in 0 .. 1
        /\ InPass' \in 0 .. 1 /\ InDsp' \in 0 .. 1 /\ InMain' \in 0 .. 1
    BY DEF InPass, InDsp, InMain
  <2> QED
    BY <1>0, <2>1 DEF InHand
<1>1. CASE SetCaps
  <2>1. /\ q'.out = <<>> /\ loop'.tb = NoBuf /\ dspq' = <<>> /\ main'.otb = NoBuf
        /\ main'.at = "send" /\ UNCHANGED <<base, frames>>
    BY <1>1, <1>0, SetCapsParts DEF QIs, MainIs, MainHolds, LoopHolds, IppInv, Stopping
  <2>r. /\ Len(q'.out) = 0 /\ InPass' = 0
        /\ InDsp' = 0 /\ InMain' = 0
    BY <1>0, <2>1, NoneWaitsNext, EmptySeq DEF InPass, InDsp, InMain
  <2>2. InHand' = 0
    BY <1>0, <1>n, <2>r DEF InHand
  <2> QED
    BY <1>0, <1>n, <2>1, <2>2 DEF Counted
<1>2. CASE SendMsg
  <2>1. /\ UNCHANGED <<q, loop, base, frames>> /\ main.at = "send" /\ main'.at = "send"
        /\ AtDsp' <=> AtDsp \/ Head(main.todo) = queue_buffer
        /\ main'.otb = (IF Head(main.todo) = queue_buffer THEN NoBuf ELSE main.otb)
        /\ Head(main.todo) = queue_buffer => ~AtDsp /\ main.otb \in Bufs
    BY <1>2, <1>0, SendMsgParts, SendMsgIs, QueueingNext DEF MainIs
  <2>r. /\ Len(q'.out) = Len(q.out) /\ InPass' = InPass
        /\ \/ InDsp' = InDsp /\ InMain' = InMain
           \/ InDsp = 0 /\ InDsp' = 1 /\ InMain = 1 /\ InMain' = 0
    BY <1>0, <2>1 DEF InPass, InDsp, InMain
  <2>2. InHand' = InHand
    <3>1. CASE InDsp' = InDsp /\ InMain' = InMain
      BY <1>0, <1>n, <2>r, <3>1 DEF InHand
    <3>2. CASE InDsp = 0 /\ InDsp' = 1 /\ InMain = 1 /\ InMain' = 0
      BY <1>0, <1>n, <2>r, <3>2 DEF InHand
    <3> QED
      BY <2>r, <3>1, <3>2
  <2> QED
    BY <1>0, <1>n, <2>1, <2>2 DEF Counted
<1>3. CASE SendTimesOut \/ SentTimesOut
  <2>1. /\ q'.out = q.out /\ loop'.tb = loop.tb /\ AtDsp' = AtDsp /\ UNCHANGED <<base, frames>>
        /\ main'.otb = NoBuf /\ main'.at \notin {"buffer", "otb", "pop", "check"}
    BY <1>3, <1>0, TimeoutParts, AtDspKept, Fields DEF Held, MainIs, MainHolds, Modes, GivenUp
  <2>r. /\ Len(q'.out) = Len(q.out) /\ InPass' = InPass
        /\ InDsp' = InDsp /\ InMain' = 0
    BY <1>0, <2>1 DEF InPass, InDsp, InMain
  <2>2. InHand' <= InHand /\ InHand' \in Nat
    BY <1>0, <1>n, <2>r DEF InHand
  <2> QED
    BY <1>0, <1>n, <2>1, <2>2 DEF Counted
<1>4. CASE SendFails
  <2>1. /\ q'.out = q.out /\ loop'.tb = loop.tb /\ AtDsp' = AtDsp /\ UNCHANGED <<base, frames>>
        /\ main'.otb = NoBuf /\ main'.at \notin {"buffer", "otb", "pop", "check"}
    BY <1>4, <1>0, SendFailsParts, AtDspKept, Fields DEF Held, MainIs, MainHolds, Modes, GivenUp
  <2>r. /\ Len(q'.out) = Len(q.out) /\ InPass' = InPass
        /\ InDsp' = InDsp /\ InMain' = 0
    BY <1>0, <2>1 DEF InPass, InDsp, InMain
  <2>2. InHand' <= InHand /\ InHand' \in Nat
    BY <1>0, <1>n, <2>r DEF InHand
  <2> QED
    BY <1>0, <1>n, <2>1, <2>2 DEF Counted
<1>5. CASE Sent
  <2>1. /\ UNCHANGED <<q, loop, base, frames>> /\ AtDsp' = AtDsp /\ main'.otb = main.otb
        /\ main.at = "send" /\ main'.at \in {"idle", "stopped"}
    BY <1>5, <1>0, SentParts, AtDspKept DEF MainIs
  <2>r. /\ Len(q'.out) = Len(q.out) /\ InPass' = InPass
        /\ InDsp' = InDsp /\ InMain' = InMain
    BY <1>0, <2>1 DEF InPass, InDsp, InMain
  <2>2. InHand' = InHand
    BY <1>0, <1>n, <2>r DEF InHand
  <2> QED
    BY <1>0, <1>n, <2>1, <2>2 DEF Counted
<1>6. CASE ChainPop
  <2>1. /\ q'.out = q.out /\ UNCHANGED <<loop, base, frames>> /\ AtDsp' = AtDsp
        /\ main'.otb = main.otb /\ main.at \in {"idle", "pop"} /\ main'.at \in {"pop", "check"}
        /\ main.at = "idle" => frames < MaxFrames
    BY <1>6, <1>0, ChainPopParts, AtDspKept DEF MainIs, QIs
  <2>r. /\ Len(q'.out) = Len(q.out) /\ InPass' = InPass
        /\ InDsp' = InDsp /\ InMain' = InMain
    BY <1>0, <2>1 DEF InPass, InDsp, InMain
  <2>2. InHand' = InHand
    BY <1>0, <1>n, <2>r DEF InHand
  <2> QED
    BY <1>0, <1>n, <2>1, <2>2 DEF Counted
<1>7. CASE ChainCheck
  <2>1. /\ q'.out = q.out /\ loop' = loop /\ AtDsp' = AtDsp
        /\ main'.otb = NoBuf /\ main.otb = NoBuf /\ main.at = "check"
        /\ \/ main'.at = "idle" /\ UNCHANGED <<base, frames>>
           \/ /\ main'.at = "buffer" /\ frames' = frames + 1
              /\ base'.count = base.count + 1 /\ base'.stale = base.stale
    BY <1>7, <1>0, ChainCheckParts, AtDspKept DEF MainIs, MainHolds, QIs, BaseIs
  <2>r. /\ Len(q'.out) = Len(q.out) /\ InPass' = InPass
        /\ InDsp' = InDsp /\ InMain = 0
        /\ InMain' = (IF main'.at = "buffer" THEN 1 ELSE 0)
    BY <1>0, <2>1 DEF InPass, InDsp, InMain
  <2>2. InHand' = (IF main'.at = "buffer" THEN InHand + 1 ELSE InHand)
    <3>1. CASE main'.at = "buffer"
      BY <1>0, <1>n, <2>r, <3>1 DEF InHand
    <3>2. CASE main'.at # "buffer"
      BY <1>0, <1>n, <2>r, <3>2 DEF InHand
    <3> QED
      BY <3>1, <3>2
  <2> QED
    BY <1>0, <1>n, <2>1, <2>2 DEF Counted
<1>8. CASE SendBuffer
  <2>1. /\ q'.out = q.out /\ AtDsp' = AtDsp /\ UNCHANGED <<loop, base, frames>>
        /\ main.at \in {"buffer", "otb"} /\ main'.at \in {"send", "idle", "otb"}
    BY <1>8, <1>0, SendBufferParts, AtDspKept DEF MainIs, QIs
  <2>r. /\ Len(q'.out) = Len(q.out) /\ InPass' = InPass
        /\ InDsp' = InDsp /\ InMain = 1
    BY <1>0, <2>1 DEF InPass, InDsp, InMain
  <2>2. InHand' <= InHand /\ InHand' \in Nat
    BY <1>0, <1>n, <2>r DEF InHand
  <2> QED
    BY <1>0, <1>n, <2>1, <2>2 DEF Counted
<1>9. CASE SendBufferError
  <2>1. /\ q'.out = q.out /\ loop'.tb = loop.tb /\ AtDsp' = AtDsp /\ UNCHANGED <<base, frames>>
        /\ main'.otb = NoBuf /\ main'.at \notin {"buffer", "otb", "pop", "check"}
    BY <1>9, <1>0, SendBufferErrorParts, AtDspKept, Fields DEF Held, MainIs, MainHolds, Modes
  <2>r. /\ Len(q'.out) = Len(q.out) /\ InPass' = InPass
        /\ InDsp' = InDsp /\ InMain' = 0
    BY <1>0, <2>1 DEF InPass, InDsp, InMain
  <2>2. InHand' <= InHand /\ InHand' \in Nat
    BY <1>0, <1>n, <2>r DEF InHand
  <2> QED
    BY <1>0, <1>n, <2>1, <2>2 DEF Counted
<1>10. CASE Answer
  <2>1. /\ UNCHANGED <<main, loop, base, frames>>
        /\ \/ q'.out = q.out /\ (AtDsp' <=> AtDsp)
           \/ AtDsp /\ ~AtDsp' /\ out_buf_ptr \in Bufs /\ q'.out = Append(q.out, out_buf_ptr)
    BY <1>10, AnswerIs DEF QIs
  <2>2. \/ Len(q'.out) = Len(q.out) /\ (AtDsp' <=> AtDsp)
        \/ AtDsp /\ ~AtDsp' /\ Len(q'.out) = Len(q.out) + 1
    BY <1>0, <2>1, AppendRange
  <2>r. /\ InPass' = InPass /\ InMain' = InMain
        /\ \/ Len(q'.out) = Len(q.out) /\ InDsp' = InDsp
           \/ InDsp = 1 /\ InDsp' = 0 /\ Len(q'.out) = Len(q.out) + 1
    BY <1>0, <2>1, <2>2 DEF InPass, InDsp, InMain
  <2>3. InHand' = InHand
    BY <1>0, <1>n, <2>r DEF InHand
  <2> QED
    BY <1>0, <1>n, <2>1, <2>2, <2>3 DEF Counted
<1>11. CASE AnswerError \/ EventError
  <2>1. /\ q'.out = q.out /\ loop'.tb = loop.tb /\ main'.otb = main.otb /\ main'.at = main.at
        /\ AtDsp' => AtDsp
        /\ base'.count = base.count /\ base'.stale = base.stale /\ frames' = frames
    BY <1>11, <1>0, ErrorParts, ErrorIs DEF QIs, MainKept, MainIs, LoopKept, LoopIs, BaseIs
  <2>r. /\ Len(q'.out) = Len(q.out) /\ InPass' = InPass
        /\ InDsp' <= InDsp /\ InMain' = InMain
    BY <1>0, <2>1 DEF InPass, InDsp, InMain
  <2>2. InHand' <= InHand /\ InHand' \in Nat
    BY <1>0, <1>n, <2>r DEF InHand
  <2> QED
    BY <1>0, <1>n, <2>1, <2>2 DEF Counted
<1>12. CASE LoopPop
  <2>1. /\ UNCHANGED <<main, base, frames>> /\ AtDsp' = AtDsp /\ loop.tb = NoBuf
        /\ \/ q.out # <<>> /\ q'.out = Tail(q.out)
           \/ q'.out = q.out /\ loop'.tb = NoBuf
    BY <1>12, <1>0, LoopPopParts, AtDspKept DEF QIs, LoopIs, LoopHolds
  <2>2. /\ Len(q'.out) \in Nat
        /\ \/ Len(q'.out) = Len(q.out) - 1
           \/ Len(q'.out) = Len(q.out) /\ loop'.tb = NoBuf
    <3>1. CASE q.out # <<>> /\ q'.out = Tail(q.out)
      BY <1>0, <3>1, TailRange, LenProperties
    <3>2. CASE q'.out = q.out /\ loop'.tb = NoBuf
      BY <1>0, <3>2
    <3> QED
      BY <2>1, <3>1, <3>2
  <2>r. /\ InMain' = InMain /\ InDsp' = InDsp /\ InPass = 0 /\ Len(q'.out) \in Nat
        /\ \/ Len(q'.out) = Len(q.out) - 1
           \/ Len(q'.out) = Len(q.out) /\ InPass' = 0
    <3>1. /\ InMain' = InMain /\ InDsp' = InDsp /\ InPass = 0
      BY <1>0, <2>1 DEF InPass, InDsp, InMain
    <3>2. loop'.tb = NoBuf => InPass' = 0
      BY DEF InPass
    <3> QED
      BY <2>2, <3>1, <3>2
  <2>3. InHand' <= InHand /\ InHand' \in Nat
    BY <1>0, <1>n, <2>r DEF InHand
  <2> QED
    BY <1>0, <1>n, <2>1, <2>2, <2>3 DEF Counted
<1>13. CASE LoopCheck
  <2>1. /\ main'.at = main.at /\ main'.otb = main.otb /\ AtDsp' = AtDsp
        /\ base'.count = base.count /\ base'.stale = base.stale /\ frames' = frames
    BY <1>13, <1>0, LoopCheckParts, AtDspKept DEF BaseIs, MainKept, MainIs
  <2>2. \/ q'.out = q.out /\ (loop'.tb = loop.tb \/ loop'.tb = NoBuf)
        \/ loop.tb # NoBuf /\ loop'.tb = NoBuf /\ q'.out = Append(q.out, loop.tb)
    BY <1>13, <1>0, LoopCheckParts DEF QIs, LoopIs
  <2>3. \/ Len(q'.out) = Len(q.out) /\ (loop'.tb = loop.tb \/ loop'.tb = NoBuf)
        \/ Len(q'.out) = Len(q.out) + 1 /\ loop.tb # NoBuf /\ loop'.tb = NoBuf
    BY <1>0, <2>2, AppendRange
  <2>r. /\ InMain' = InMain /\ InDsp' = InDsp
        /\ \/ Len(q'.out) = Len(q.out) /\ (InPass' = InPass \/ InPass' = 0)
           \/ Len(q'.out) = Len(q.out) + 1 /\ InPass = 1 /\ InPass' = 0
    BY <1>0, <2>1, <2>3 DEF InPass, InDsp, InMain
  <2>4. InHand' <= InHand /\ InHand' \in Nat
    <3>1. CASE Len(q'.out) = Len(q.out) /\ (InPass' = InPass \/ InPass' = 0)
      BY <1>0, <1>n, <2>r, <3>1 DEF InHand
    <3>2. CASE Len(q'.out) = Len(q.out) + 1 /\ InPass = 1 /\ InPass' = 0
      BY <1>0, <1>n, <2>r, <3>2 DEF InHand
    <3> QED
      BY <2>r, <3>1, <3>2
  <2> QED
    BY <1>0, <1>n, <2>1, <2>3, <2>4 DEF Counted
<1>14. CASE LoopDrop
  <2>1. /\ main'.at = main.at /\ main'.otb = main.otb /\ AtDsp' = AtDsp
        /\ q'.out = q.out /\ loop.tb \in Bufs /\ loop'.tb = NoBuf
        /\ base'.count = base.count - 1 /\ base'.stale = base.stale - 1 /\ base.stale > 0
        /\ frames' = frames
    BY <1>14, <1>0, LoopDropIs, AtDspKept DEF QIs, BaseIs, LoopIs, MainKept, MainIs
  <2>r. /\ Len(q'.out) = Len(q.out) /\ InPass = 1 /\ InPass' = 0
        /\ InDsp' = InDsp /\ InMain' = InMain
    BY <1>0, <2>1 DEF InPass, InDsp, InMain
  <2>2. InHand' = InHand - 1 /\ InHand >= 1
    BY <1>0, <1>n, <2>r DEF InHand
  <2> QED
    BY <1>0, <1>n, <2>1, <2>2 DEF Counted
<1>15. CASE LoopPush
  <2>1. /\ main'.at = main.at /\ main'.otb = main.otb /\ AtDsp' = AtDsp
        /\ q'.out = q.out /\ loop.tb \in Bufs /\ loop'.tb = NoBuf
        /\ base'.count = base.count - 1 /\ base'.stale = base.stale /\ base.stale = 0
        /\ frames' = frames
    BY <1>15, <1>0, LoopPushIs, AtDspKept DEF QIs, BaseIs, LoopIs, MainKept, MainIs
  <2>r. /\ Len(q'.out) = Len(q.out) /\ InPass = 1 /\ InPass' = 0
        /\ InDsp' = InDsp /\ InMain' = InMain
    BY <1>0, <2>1 DEF InPass, InDsp, InMain
  <2>2. InHand' = InHand - 1 /\ InHand >= 1
    BY <1>0, <1>n, <2>r DEF InHand
  <2> QED
    BY <1>0, <1>n, <2>1, <2>2 DEF Counted
<1>16. CASE FlushStop
  <2>1. /\ UNCHANGED <<main, loop, frames>> /\ main'.at = main.at /\ AtDsp' = AtDsp
        /\ q'.out = q.out
        /\ base'.count = base.count /\ base'.stale = base.count
    BY <1>16, <1>0, FlushStopParts, AtDspKept DEF QIs, BaseIs
  <2>r. /\ Len(q'.out) = Len(q.out) /\ InPass' = InPass
        /\ InDsp' = InDsp /\ InMain' = InMain
    BY <1>0, <2>1 DEF InPass, InDsp, InMain
  <2>2. InHand' = InHand
    BY <1>0, <1>n, <2>r DEF InHand
  <2>3. base'.stale <= base'.count /\ base'.count <= frames'
    BY <1>0, <2>1 DEF Counted
  <2> QED
    BY <1>0, <1>n, <2>1, <2>2, <2>3 DEF Counted
<1>17. CASE StopMessage
  <2>1. /\ q'.out = q.out /\ loop'.tb = loop.tb /\ AtDsp' = AtDsp /\ UNCHANGED <<base, frames>>
        /\ main'.otb = NoBuf /\ main'.at \notin {"buffer", "otb", "pop", "check"}
    BY <1>17, <1>0, StopMessageParts, AtDspKept, Fields DEF Held, MainIs, MainHolds, Modes
  <2>r. /\ Len(q'.out) = Len(q.out) /\ InPass' = InPass
        /\ InDsp' = InDsp /\ InMain' = 0
    BY <1>0, <2>1 DEF InPass, InDsp, InMain
  <2>2. InHand' <= InHand /\ InHand' \in Nat
    BY <1>0, <1>n, <2>r DEF InHand
  <2> QED
    BY <1>0, <1>n, <2>1, <2>2 DEF Counted
<1>18. CASE Reset
  <2>1. /\ q'.out = <<>> /\ loop'.tb = NoBuf /\ dspq' = <<>> /\ main'.otb = NoBuf
        /\ main'.at = "ready" /\ base'.count = 0 /\ base'.stale = 0 /\ frames' = frames
    BY <1>18, <1>0, ResetIs DEF QIs, BaseIs, MainIs, MainHolds, LoopHolds, IppInv, Stopping
  <2>r. /\ Len(q'.out) = 0 /\ InPass' = 0
        /\ InDsp' = 0 /\ InMain' = 0
    BY <1>0, <2>1, NoneWaitsNext, EmptySeq DEF InPass, InDsp, InMain
  <2>2. InHand' = 0
    BY <1>0, <1>n, <2>r DEF InHand
  <2> QED
    BY <1>0, <1>n, <2>1, <2>2 DEF Counted
<1>19. CASE ~(SetCaps \/ SendMsg \/ SendTimesOut \/ SentTimesOut \/ SendFails \/ Sent \/ ChainPop
              \/ ChainCheck \/ SendBuffer \/ SendBufferError \/ Answer \/ AnswerError
              \/ EventError \/ LoopPop \/ LoopCheck \/ LoopDrop \/ LoopPush \/ FlushStop
              \/ StopMessage \/ Reset)
  <2>1. /\ q'.out = q.out /\ loop'.tb = loop.tb /\ AtDsp' = AtDsp
        /\ base'.count = base.count /\ base'.stale = base.stale /\ frames' = frames
        /\ main'.at = main.at /\ main'.otb = main.otb
    BY <1>19, <1>0, OutKept, LoopTbKept, DspKept, AtDspKept, CountKept, FramesKept, MainSame
    DEF MainKept, MainIs
  <2>r. /\ Len(q'.out) = Len(q.out) /\ InPass' = InPass
        /\ InDsp' = InDsp /\ InMain' = InMain
    BY <1>0, <2>1 DEF InPass, InDsp, InMain
  <2>2. InHand' = InHand
    BY <1>0, <1>n, <2>r DEF InHand
  <2> QED
    BY <1>0, <1>n, <2>1, <2>2 DEF Counted
<1> QED
  BY <1>1, <1>2, <1>3, <1>4, <1>5, <1>6, <1>7, <1>8, <1>9, <1>10, <1>11, <1>12, <1>13, <1>14, <1>15,
     <1>16, <1>17, <1>18, <1>19

(* Only these touch user_data of the input buffer.                         *)
LEMMA InUdKept ==
  ASSUME IppInv, [Next]_vars,
         ~(SetCaps \/ ChainCheck \/ SendBuffer \/ Answer)
  PROVE  inUd' = inUd
<1>0. Held
  BY InvHeld
<1>1. CASE SendMsg \/ SendTimesOut \/ SentTimesOut \/ SendFails \/ Sent
  BY <1>1, <1>0, SendMsgParts, TimeoutParts, SendFailsParts, SentParts
<1>2. CASE ChainPop \/ SendBufferError
  BY <1>2, <1>0, ChainPopParts, SendBufferErrorParts
<1>3. CASE AnswerError \/ EventError \/ ThreadEnds
  BY <1>3, <1>0, ErrorParts, ThreadEndsParts
<1>4. CASE LoopPop \/ LoopCheck \/ LoopDrop \/ LoopPush
  BY <1>4, <1>0, LoopPopParts, LoopCheckParts, LoopDropIs, LoopPushIs
<1>5. CASE (\E b \in Bufs : Finalize(b)) \/ CapsRefused \/ FlushStart \/ FlushUnlock \/ StopUnlock
           \/ FlushPause \/ FlushStop
  BY <1>5, <1>0, FinalizeParts, FlushStartParts, UnlockedParts,
     CapsRefusedParts, FlushPauseParts, FlushStopParts
<1>6. CASE StopMessage \/ StopDone \/ Reset \/ Restart
  BY <1>6, <1>0, StopMessageParts, StopDoneParts, ResetIs, RestartParts
<1>7. CASE UNCHANGED vars
  BY <1>7, <1>0
  DEF vars, bufVars, dspVars, padVars, histVars, counters
<1> QED
  BY <1>1, <1>2, <1>3, <1>4, <1>5, <1>6, <1>7
  DEF Next, Main, Dsp, Loop, App

(* Only these touch an output buffer's.                                    *)
LEMMA UdKept ==
  ASSUME IppInv, [Next]_vars,
         ~(SetCaps \/ Answer \/ LoopPush)
  PROVE  ud' = ud /\ pinned' = pinned
<1>0. Held
  BY InvHeld
<1>1. CASE SendMsg \/ SendTimesOut \/ SentTimesOut \/ SendFails \/ Sent
  BY <1>1, <1>0, SendMsgParts, TimeoutParts, SendFailsParts, SentParts
<1>2. CASE ChainPop \/ ChainCheck \/ SendBuffer \/ SendBufferError
  BY <1>2, <1>0, ChainPopParts, ChainCheckParts, SendBufferParts, SendBufferErrorParts
<1>3. CASE AnswerError \/ EventError \/ ThreadEnds
  BY <1>3, <1>0, ErrorParts, ThreadEndsParts
<1>4. CASE LoopPop \/ LoopCheck \/ LoopDrop
  BY <1>4, <1>0, LoopPopParts, LoopCheckParts, LoopDropIs
<1>5. CASE (\E b \in Bufs : Finalize(b)) \/ CapsRefused \/ FlushStart \/ FlushUnlock \/ StopUnlock
           \/ FlushPause \/ FlushStop
  BY <1>5, <1>0, FinalizeParts, FlushStartParts, UnlockedParts,
     CapsRefusedParts, FlushPauseParts, FlushStopParts
<1>6. CASE StopMessage \/ StopDone \/ Reset \/ Restart
  BY <1>6, <1>0, StopMessageParts, StopDoneParts, ResetIs, RestartParts
<1>7. CASE UNCHANGED vars
  BY <1>7, <1>0
  DEF vars, bufVars, dspVars, padVars, histVars, counters
<1> QED
  BY <1>1, <1>2, <1>3, <1>4, <1>5, <1>6, <1>7
  DEF Next, Main, Dsp, Loop, App

(* Only an answer is looked at.                                            *)
LEMMA AbortKept ==
  ASSUME IppInv, [Next]_vars,
         ~(Answer)
  PROVE  abort' = abort
<1>0. Held
  BY InvHeld
<1>1. CASE SetCaps \/ SendMsg \/ SendTimesOut \/ SentTimesOut \/ SendFails \/ Sent
  BY <1>1, <1>0, SetCapsParts, SendMsgParts, TimeoutParts, SendFailsParts, SentParts
<1>2. CASE ChainPop \/ ChainCheck \/ SendBuffer \/ SendBufferError
  BY <1>2, <1>0, ChainPopParts, ChainCheckParts, SendBufferParts, SendBufferErrorParts
<1>3. CASE AnswerError \/ EventError \/ ThreadEnds
  BY <1>3, <1>0, ErrorParts, ThreadEndsParts
<1>4. CASE LoopPop \/ LoopCheck \/ LoopDrop \/ LoopPush
  BY <1>4, <1>0, LoopPopParts, LoopCheckParts, LoopDropIs, LoopPushIs
<1>5. CASE (\E b \in Bufs : Finalize(b)) \/ CapsRefused \/ FlushStart \/ FlushUnlock \/ StopUnlock
           \/ FlushPause \/ FlushStop
  BY <1>5, <1>0, FinalizeParts, FlushStartParts, UnlockedParts,
     CapsRefusedParts, FlushPauseParts, FlushStopParts
<1>6. CASE StopMessage \/ StopDone \/ Reset \/ Restart
  BY <1>6, <1>0, StopMessageParts, StopDoneParts, ResetIs, RestartParts
<1>7. CASE UNCHANGED vars
  BY <1>7, <1>0
  DEF vars, bufVars, dspVars, padVars, histVars, counters
<1> QED
  BY <1>1, <1>2, <1>3, <1>4, <1>5, <1>6, <1>7
  DEF Next, Main, Dsp, Loop, App

(* A frame that is filled, and one the DSP has, are never there at once.   *)
LEMMA OneFrame ==
  ASSUME IppInv, AtDsp
  PROVE  /\ ~main.tb /\ main.at \notin {"buffer", "otb", "ready"} /\ main.otb = NoBuf
         /\ out_buf_ptr \in Bufs /\ loop.tb # out_buf_ptr /\ out_buf_ptr \notin Range(q.out)
<1>1. q.in \in Nat /\ main.tb \in BOOLEAN
  BY InvHeld, Fields DEF Held
<1>2. ~main.tb
  BY <1>1 DEF IppInv, InputKept, Inputs
<1>3. main.at \notin {"buffer", "otb"} /\ main.otb = NoBuf
  BY <1>2 DEF IppInv, MainHolds
<1>4. dspq # <<>>
  BY NoneWaits
<1>5. main.at # "ready"
  BY <1>4 DEF IppInv, Stopping
<1>6. out_buf_ptr \in Bufs
  BY DEF IppInv, Turns
<1>7. loop.tb # out_buf_ptr /\ out_buf_ptr \notin Range(q.out)
  BY <1>6, SpotsApart DEF IppInv, OutputsKept, Apart, AtD
<1> QED
  BY <1>2, <1>3, <1>5, <1>6, <1>7

(* The input buffer has its reference until the DSP has answered.          *)
LEMMA InputMarkedKept ==
  ASSUME IppInv, [Next]_vars
  PROVE  ~spoiled' => InputMarked'
<1> SUFFICES ASSUME ~spoiled'
             PROVE  InputMarked'
  OBVIOUS
<1>0. /\ Held /\ MainHolds /\ ~spoiled /\ InputMarked /\ NoBuf \notin Bufs
  BY InvHeld, SpoiledKept, BufTypes DEF IppInv, Held, Referenced
<1>1. CASE SetCaps
  <2>1. ~AtDsp' /\ main'.at = "send" /\ main'.otb = NoBuf
    BY <1>1, <1>0, SetCapsParts, NoneWaitsNext DEF MainIs, MainHolds, IppInv, Stopping
  <2> QED
    BY <1>0, <2>1 DEF InputMarked
<1>2. CASE SendMsg
  <2>1. /\ inUd' = inUd /\ (AtDsp' <=> AtDsp \/ Head(main.todo) = queue_buffer)
        /\ main'.otb = (IF Head(main.todo) = queue_buffer THEN NoBuf ELSE main.otb)
        /\ main.at = "send" /\ main'.at = "send"
        /\ Head(main.todo) = queue_buffer => main.otb \in Bufs
    BY <1>2, <1>0, SendMsgParts, SendMsgIs, QueueingNext DEF MainIs
  <2> QED
    BY <1>0, <2>1 DEF InputMarked
<1>3. CASE SendTimesOut \/ SentTimesOut
  <2>1. /\ AtDsp' = AtDsp /\ inUd' = inUd /\ main'.otb = NoBuf
        /\ main'.at \notin {"buffer", "otb"}
    BY <1>3, <1>0, TimeoutParts, AtDspKept, Fields DEF Held, MainIs, MainHolds, Modes, GivenUp
  <2> QED
    BY <1>0, <2>1 DEF InputMarked
<1>4. CASE SendFails
  <2>1. /\ AtDsp' = AtDsp /\ inUd' = inUd /\ main'.otb = NoBuf
        /\ main'.at \notin {"buffer", "otb"}
    BY <1>4, <1>0, SendFailsParts, AtDspKept, Fields DEF Held, MainIs, MainHolds, Modes, GivenUp
  <2> QED
    BY <1>0, <2>1 DEF InputMarked
<1>5. CASE Sent
  <2>1. /\ AtDsp' = AtDsp /\ inUd' = inUd /\ main'.otb = main.otb
        /\ main'.at \notin {"buffer", "otb"}
    BY <1>5, <1>0, SentParts, AtDspKept DEF MainIs
  <2> QED
    BY <1>0, <2>1 DEF InputMarked
<1>6. CASE ChainPop
  <2>1. /\ AtDsp' = AtDsp /\ inUd' = inUd /\ main'.otb = main.otb
        /\ main'.at \notin {"buffer", "otb"}
    BY <1>6, <1>0, ChainPopParts, AtDspKept DEF MainIs
  <2> QED
    BY <1>0, <2>1 DEF InputMarked
<1>7. CASE ChainCheck
  <2>1. /\ AtDsp' = AtDsp /\ main'.otb = main.otb
        /\ (inUd' = inUd /\ main'.at = "idle") \/ (~spoiled' => inUd')
    BY <1>7, <1>0, ChainCheckParts, AtDspKept DEF MainIs
  <2> QED
    BY <1>0, <2>1 DEF InputMarked
<1>8. CASE SendBuffer
  <2>1. /\ AtDsp' = AtDsp /\ ~AtDsp /\ main.at \in {"buffer", "otb"} /\ main.otb = NoBuf
        /\ \/ inUd' = inUd
           \/ main'.at = "idle" /\ main'.otb = main.otb
    BY <1>8, <1>0, SendBufferParts, AtDspKept, OneFrame DEF MainIs, MainHolds
  <2> QED
    BY <1>0, <2>1 DEF InputMarked
<1>9. CASE SendBufferError
  <2>1. /\ AtDsp' = AtDsp /\ inUd' = inUd /\ main'.otb = NoBuf
        /\ main'.at \notin {"buffer", "otb"}
    BY <1>9, <1>0, SendBufferErrorParts, AtDspKept, Fields DEF Held, MainIs, MainHolds, Modes
  <2> QED
    BY <1>0, <2>1 DEF InputMarked
<1>10. CASE Answer
  <2>1. CASE Head(dspq) = queue_buffer
    <3>1. AtDsp /\ ~AtDsp' /\ main' = main
      BY <1>10, <2>1, AnswerIs
    <3> QED
      BY <3>1, OneFrame DEF InputMarked
  <2>2. CASE Head(dspq) # queue_buffer
    <3>1. (AtDsp <=> AtDsp') /\ main' = main /\ inUd' = inUd
      BY <1>10, <2>2, AnswerIs
    <3> QED
      BY <1>0, <3>1 DEF InputMarked
  <2> QED
    BY <2>1, <2>2
<1>11. CASE AnswerError \/ EventError
  <2>1. /\ (AtDsp' => AtDsp) /\ inUd' = inUd /\ main'.at = main.at /\ main'.otb = main.otb
    BY <1>11, <1>0, ErrorParts, ErrorIs DEF MainKept, MainIs
  <2> QED
    BY <1>0, <2>1 DEF InputMarked
<1>12. CASE StopMessage
  <2>1. /\ AtDsp' = AtDsp /\ inUd' = inUd /\ main'.otb = NoBuf
        /\ main'.at \notin {"buffer", "otb"}
    BY <1>12, <1>0, StopMessageParts, AtDspKept, Fields DEF Held, MainIs, MainHolds, Modes
  <2> QED
    BY <1>0, <2>1 DEF InputMarked
<1>13. CASE Reset
  <2>1. ~AtDsp' /\ main'.at = "ready" /\ main'.otb = NoBuf
    BY <1>13, <1>0, ResetIs, NoneWaitsNext DEF MainIs, MainHolds, IppInv, Stopping
  <2> QED
    BY <1>0, <2>1 DEF InputMarked
<1>14. CASE ~(SetCaps \/ SendMsg \/ SendTimesOut \/ SentTimesOut \/ SendFails \/ Sent \/ ChainPop
              \/ ChainCheck \/ SendBuffer \/ SendBufferError \/ Answer \/ AnswerError
              \/ EventError \/ StopMessage \/ Reset)
  <2>1. AtDsp' = AtDsp /\ inUd' = inUd /\ main'.at = main.at /\ main'.otb = main.otb
    BY <1>14, <1>0, InUdKept, DspKept, AtDspKept, MainSame DEF MainKept, MainIs
  <2> QED
    BY <1>0, <2>1 DEF InputMarked
<1> QED
  BY <1>1, <1>2, <1>3, <1>4, <1>5, <1>6, <1>7, <1>8, <1>9, <1>10, <1>11, <1>12, <1>13, <1>14

(* got_message finds an output buffer without user_data.                   *)
LEMMA OutputsBareKept ==
  ASSUME IppInv, [Next]_vars
  PROVE  ~spoiled' => OutputsBare'
<1> SUFFICES ASSUME ~spoiled', main'.at # "ready"
             PROVE  \A x \in Bufs : ud'[x] => ~pinned'[x] /\ (x \in Range(q'.out) \/ loop'.tb = x)
  BY DEF OutputsBare
<1>0. /\ Held /\ LoopHolds /\ ~spoiled /\ OutputsBare /\ NoBuf \notin Bufs
      /\ q.out \in Seq(Bufs) /\ loop.tb \in Bufs \cup {NoBuf}
  BY InvHeld, Fields, SpoiledKept, BufTypes DEF IppInv, Held, Referenced
<1>s. ~SetCaps => main.at # "ready"
  BY ReadyLeft
<1>1. CASE SetCaps
  BY <1>1, <1>0, SetCapsParts
<1>2. CASE Answer
  <2>1. CASE Head(dspq) = queue_buffer
    <3>1. /\ AtDsp /\ main' = main /\ loop' = loop /\ q'.out = Append(q.out, out_buf_ptr)
          /\ \A x \in Bufs : x # out_buf_ptr => ud'[x] = ud[x] /\ pinned'[x] = pinned[x]
          /\ ud'[out_buf_ptr] => ud[out_buf_ptr] \/ ~pinned'[out_buf_ptr]
      BY <1>2, <2>1, AnswerIs DEF QIs
    <3>2. /\ main.at # "ready" /\ out_buf_ptr \in Bufs /\ loop.tb # out_buf_ptr
          /\ out_buf_ptr \notin Range(q.out)
      BY <3>1, OneFrame
    <3>3. ~ud[out_buf_ptr]
      BY <1>0, <3>2 DEF OutputsBare
    <3>4. Range(q'.out) = Range(q.out) \cup {out_buf_ptr}
      BY <1>0, <3>1, <3>2, AppendRange
    <3>5. ASSUME NEW x \in Bufs, ud'[x]
          PROVE  ~pinned'[x] /\ (x \in Range(q'.out) \/ loop'.tb = x)
      <4>1. CASE x = out_buf_ptr
        BY <3>1, <3>3, <3>4, <3>5, <4>1
      <4>2. CASE x # out_buf_ptr
        BY <1>0, <3>1, <3>4, <3>5, <4>2 DEF OutputsBare
      <4> QED
        BY <4>1, <4>2
    <3> QED
      BY <3>5
  <2>2. CASE Head(dspq) # queue_buffer
    <3>1. UNCHANGED <<main, q, loop, ud, pinned>>
      BY <1>2, <2>2, AnswerIs
    <3> QED
      BY <1>0, <3>1 DEF OutputsBare
  <2> QED
    BY <2>1, <2>2
<1>3. CASE LoopPop
  <2>1. UNCHANGED <<main, ud, pinned>> /\ loop.tb = NoBuf
    BY <1>3, <1>0, LoopPopParts DEF LoopHolds
  <2>2. CASE q.out # <<>> /\ q'.out = Tail(q.out) /\ loop'.tb = Head(q.out)
    <3>1. Range(q.out) = Range(q'.out) \cup {loop'.tb}
      BY <1>0, <2>2, TailRange
    <3> QED
      BY <1>0, <2>1, <3>1 DEF OutputsBare
  <2>3. CASE q' = q
    BY <1>0, <2>1, <2>3 DEF OutputsBare
  <2> QED
    BY <1>3, <1>0, <2>2, <2>3, LoopPopParts DEF QIs, LoopIs
<1>4. CASE LoopCheck
  <2>1. UNCHANGED <<ud, pinned>> /\ main.at # "ready"
    BY <1>4, <1>0, LoopCheckParts DEF MainKept, MainIs
  <2>2. CASE loop.tb # NoBuf /\ loop'.tb = NoBuf /\ q'.out = Append(q.out, loop.tb)
    <3>1. Range(q'.out) = Range(q.out) \cup {loop.tb}
      BY <1>0, <2>2, AppendRange
    <3> QED
      BY <1>0, <2>1, <3>1 DEF OutputsBare
  <2>3. CASE q'.out = q.out /\ (loop'.tb = loop.tb \/ loop.tb = NoBuf)
    BY <1>0, <2>1, <2>3 DEF OutputsBare
  <2> QED
    BY <1>4, <1>0, <2>2, <2>3, LoopCheckParts DEF QIs, LoopIs, LoopHolds
<1>5. CASE LoopDrop
  <2>1. /\ UNCHANGED <<main, ud, pinned>> /\ q'.out = q.out /\ loop'.tb = NoBuf
        /\ ~ud[loop.tb]
    BY <1>5, <1>0, LoopDropIs DEF QIs, LoopIs
  <2> QED
    BY <1>0, <2>1 DEF OutputsBare
<1>6. CASE LoopPush
  <2>1. /\ q'.out = q.out /\ loop'.tb = NoBuf /\ pinned' = pinned /\ loop.tb \in Bufs
        /\ ud'[loop.tb] => ud[loop.tb] /\ pinned[loop.tb]
        /\ \A x \in Bufs : x # loop.tb => ud'[x] = ud[x]
        /\ main'.at = main.at
    BY <1>6, <1>0, LoopPushIs DEF QIs, LoopIs, MainKept, MainIs
  <2> QED
    BY <1>0, <2>1 DEF OutputsBare
<1>7. CASE Reset
  BY <1>7, ResetIs DEF MainIs
<1>8. CASE ~(SetCaps \/ Answer \/ LoopPop \/ LoopCheck \/ LoopDrop \/ LoopPush \/ Reset)
  <2>1. main.at # "ready" /\ ud' = ud /\ pinned' = pinned /\ q'.out = q.out /\ loop'.tb = loop.tb
    BY <1>8, <1>s, UdKept, OutKept, LoopTbKept
  <2> QED
    BY <1>0, <2>1 DEF OutputsBare
<1> QED
  BY <1>1, <1>2, <1>3, <1>4, <1>5, <1>6, <1>7, <1>8

(* Both together                                                           *)
LEMMA ReferencedKept ==
  ASSUME IppInv, [Next]_vars
  PROVE  Referenced'
BY InputMarkedKept, OutputsBareKept DEF Referenced

(* got_message finds what it asserts.                                      *)
LEMMA AssertsButKept ==
  ASSUME IppInv, [Next]_vars
  PROVE  AssertsBut'
<1>1. CASE Answer
  <2>1. CASE Head(dspq) = queue_buffer
    <3>1. AtDsp /\ (abort' => ~inUd \/ ud[out_buf_ptr]) /\ spoiled' = spoiled
      BY <1>1, <2>1, AnswerIs
    <3>2. ~spoiled => inUd /\ ~ud[out_buf_ptr]
      BY <3>1, OneFrame DEF IppInv, Referenced, InputMarked, OutputsBare
    <3> QED
      BY <3>1, <3>2 DEF AssertsBut
  <2>2. CASE Head(dspq) # queue_buffer
    BY <1>1, <2>2, AnswerIs DEF IppInv, AssertsBut
  <2> QED
    BY <2>1, <2>2
<1>2. CASE ~Answer
  BY <1>2, AbortKept, SpoiledKept DEF IppInv, AssertsBut
<1> QED
  BY <1>1, <1>2

-----------------------------------------------------------------------------
(* The invariant, and the theorems                                         *)

(* The invariant holds at first,                                           *)
LEMMA InitInv ==
  ASSUME Init
  PROVE  IppInv
<1>1. /\ base = [status |-> "OK", done |-> FALSE, error |-> FALSE, count |-> 0, stale |-> 0]
      /\ sem = [msg |-> 1, sync |-> 0] /\ q = [in |-> 0, ipp |-> <<>>, out |-> <<>>, on |-> TRUE]
      /\ ud = [b \in Bufs |-> FALSE] /\ pinned = [b \in Bufs |-> FALSE]
      /\ inUd = FALSE /\ out_buf_ptr = NoBuf /\ lent = {} /\ fmt \in Formats
      /\ args = {} /\ dspq = <<>> /\ pipe = "none" /\ thread = "none"
      /\ task = "none" /\ srcFlush = FALSE
      /\ main = [at |-> "ready", mode |-> "init", todo |-> <<>>, otb |-> NoBuf,
                 tb |-> FALSE, woken |-> FALSE]
      /\ loop = [at |-> "out", tb |-> NoBuf, woken |-> FALSE] /\ app = "idle"
      /\ abort = FALSE /\ failed = FALSE /\ spoiled = FALSE /\ surplus = FALSE /\ frames = 0
  BY DEF Init
<1>2. ~AtDsp /\ Len(dspq) = 0
  BY <1>1, NoneWaits
<1>3. <<>> \in Seq(Bufs) /\ <<>> \in Seq(Messages) /\ NoBuf \notin Bufs /\ MaxFrames \in Nat
  BY BufTypes
<1>4. Shapes
  <2>1. base \in BaseRecords /\ sem \in SemRecords /\ q \in QRecords
    BY <1>1, <1>3 DEF BaseRecords, SemRecords, QRecords
  <2>2. main \in MainRecords /\ loop \in LoopRecords
    BY <1>1, <1>3 DEF MainRecords, MainAt, Modes, LoopRecords
  <2>3. /\ fmt \in Formats /\ ud \in [Bufs -> BOOLEAN] /\ pinned \in [Bufs -> BOOLEAN]
        /\ inUd \in BOOLEAN /\ out_buf_ptr \in Bufs \cup {NoBuf} /\ lent \subseteq Bufs
        /\ args \subseteq 0 .. 2 /\ dspq \in Seq(Messages) /\ pipe \in PipeStates
    BY <1>1, <1>3 DEF PipeStates
  <2>4. {abort, failed, spoiled, surplus} \subseteq BOOLEAN /\ frames \in Nat
      /\ srcFlush \in BOOLEAN
    BY <1>1
  <2> QED
    BY <1>1, <2>1, <2>2, <2>3, <2>4 DEF Shapes
<1>5. MainHolds /\ LoopHolds
  BY <1>1 DEF MainHolds, LoopHolds
<1>6. Stopping
  BY <1>1 DEF Stopping
<1>7. Semaphores
  BY <1>1, <1>2 DEF Semaphores
<1>8. Turns
  BY <1>1, <1>2 DEF Turns
<1>9. Arguments /\ AllThere /\ AssertsBut
  BY <1>1 DEF Arguments, AllThere, AssertsBut
<1>10. InputKept
  BY <1>1, <1>2 DEF InputKept, Inputs
<1>11. OutputsKept
  <2>1. IsInjective(<<>>) /\ Range(<<>>) = {}
    BY DEF IsInjective, Range
  <2>2. Apart
    BY <1>1, <1>2, <1>3, <2>1 DEF Apart, AtD
  <2> QED
    BY <2>2, SpotsApart DEF OutputsKept
<1>12. Protocol
  BY <1>1 DEF Protocol, Reached
<1>13. Counted
  <2>1. InHand = 0
    BY <1>1, <1>2 DEF InHand, InPass, InDsp, InMain
  <2> QED
    BY <1>1, <1>3, <2>1 DEF Counted
<1>14. Referenced
  BY <1>1, <1>2 DEF Referenced, InputMarked, OutputsBare
<1> QED
  BY <1>4, <1>5, <1>6, <1>7, <1>8, <1>9, <1>10, <1>11, <1>12, <1>13, <1>14 DEF IppInv

(* and every step keeps it.                                                *)
LEMMA StepInv ==
  ASSUME IppInv, [Next]_vars
  PROVE  IppInv'
BY ShapesKept, MainHoldsKept, LoopHoldsKept, StoppingKept, SemaphoresKept, TurnsKept,
   ArgumentsKept, InputMoved, NoneTwiceKept, AllThereKept, ProtocolKept, CountedKept,
   ReferencedKept, AssertsButKept DEF IppInv

(* The inductive invariant of the image processor: the places of the       *)
(* buffers, the semaphores, the messages, the counters and the references. *)
THEOREM IppInvariant == Spec => []IppInv
<1>1. Init => IppInv
  BY InitInv
<1>2. IppInv /\ [Next]_vars => IppInv'
  BY StepInv
<1> QED
  BY <1>1, <1>2, PTL DEF Spec

(* Every variable keeps its type; no more than one input buffer is queued, *)
(* the semaphores count no more than one message, two after an error       *)
(* event, and no more frames are counted than came.                        *)
THEOREM IppTypeCorrect == Spec => []TypeOK
<1>1. ASSUME IppInv
      PROVE  TypeOK
  <2>1. /\ Shapes /\ base.count \in Nat /\ base.stale \in Nat /\ sem.msg \in Nat /\ sem.sync \in Nat
        /\ q.in \in Nat /\ main.tb \in BOOLEAN /\ Len(dspq) \in Nat /\ frames \in Nat
        /\ MaxFrames \in Nat
    BY <1>1, InvHeld, Fields, LenProperties, BufTypes DEF Held, Shapes
  <2>2. base.count \in 0 .. MaxFrames /\ base.stale \in 0 .. MaxFrames
    <3>1. base.stale <= base.count /\ base.count <= frames /\ frames <= MaxFrames
      BY <1>1 DEF IppInv, Counted
    <3> QED
      BY <2>1, <3>1
  <2>3. sem.msg \in 0 .. 2 /\ sem.sync \in 0 .. 1
    BY <1>1, <2>1 DEF IppInv, Semaphores
  <2>4. q.in \in 0 .. 1
    BY <1>1, <2>1 DEF IppInv, InputKept, Inputs
  <2>5. base \in [status : {"OK", "WRONG_STATE", "ERROR"}, done : BOOLEAN, error : BOOLEAN,
                  count : 0 .. MaxFrames, stale : 0 .. MaxFrames]
    BY <2>1, <2>2 DEF Shapes, BaseRecords
  <2>6. sem \in [msg : 0 .. 2, sync : 0 .. 1]
    BY <2>1, <2>3 DEF Shapes, SemRecords
  <2>7. /\ q.ipp \in Seq(Bufs) /\ q.out \in Seq(Bufs) /\ q.on \in BOOLEAN
        /\ main.todo \in Seq(Messages) /\ main.otb \in Bufs \cup {NoBuf}
        /\ loop.tb \in Bufs \cup {NoBuf}
    BY <2>1, Fields
  <2> QED
    BY <2>1, <2>4, <2>5, <2>6, <2>7 DEF Shapes, TypeOK
<1> QED
  BY <1>1, IppInvariant, PTL

(* No buffer is ever in two places, and none gets lost without a message   *)
(* that failed (gstdspipp.c: ipp_queue, ports[], got_message,              *)
(* release_buffer).                                                        *)
THEOREM IppBuffersKept == Spec => []BuffersKept
<1>1. IppInv => BuffersKept
  BY DEF IppInv, InputKept, OutputsKept, AllThere, BuffersKept
<1> QED
  BY <1>1, IppInvariant, PTL

(* msg_sem keeps the DSP to one message, whose arguments stay in msg_ptr   *)
(* until it is answered, as long as no error event has counted msg_sem up  *)
(* without being an answer.                                                *)
THEOREM IppOneMessage == Spec => []OneMessage
<1>1. IppInv => OneMessage
  BY DEF IppInv, Semaphores, Arguments, OneMessage
<1> QED
  BY <1>1, IppInvariant, PTL

(* DFGM gets its messages in the order it asks for, and a stop without a   *)
(* failure takes down all of the pipe.                                     *)
THEOREM IppCleanStop == Spec => []CleanStop
<1>1. IppInv => CleanStop
  BY DEF IppInv, Protocol, Stopping, CleanStop
<1> QED
  BY <1>1, IppInvariant, PTL

(* The assertions of got_message hold until a frame was dropped that had   *)
(* overwritten its input, or came short.                                   *)
THEOREM IppAssertsBut == Spec => []AssertsBut
<1>1. IppInv => AssertsBut
  BY DEF IppInv
<1> QED
  BY <1>1, IppInvariant, PTL

-----------------------------------------------------------------------------
(* The pipe and the list of contents                                       *)

(* setup_ipp_params appends the first conversion, or nothing, to the star. *)
LEMMA ConcatNone ==
  ASSUME NEW a
  PROVE  <<a>> \o <<>> = <<a>>
<1> DEFINE x == <<a>> \o <<>>
           y == <<a>>
<1>1. x \in Seq({a}) /\ Len(x) = 1 /\ x[1] = a
  OBVIOUS
<1>2. y \in Seq({a}) /\ Len(y) = 1 /\ y[1] = a
  OBVIOUS
<1>3. \A i \in 1 .. 1 : i = 1
  OBVIOUS
<1> HIDE DEF x, y
<1>4. x = y
  BY <1>1, <1>2, <1>3, SeqEqual
<1> QED
  BY <1>4 DEF x, y

(* The same with a conversion                                              *)
LEMMA ConcatPair ==
  ASSUME NEW a, NEW b
  PROVE  <<a>> \o <<b>> = <<a, b>>
<1> DEFINE x == <<a>> \o <<b>>
           y == <<a, b>>
<1>1. x \in Seq({a, b}) /\ Len(x) = 2 /\ x[1] = a /\ x[2] = b
  OBVIOUS
<1>2. y \in Seq({a, b}) /\ Len(y) = 2 /\ y[1] = a /\ y[2] = b
  OBVIOUS
<1>3. \A i \in 1 .. 2 : i = 1 \/ i = 2
  OBVIOUS
<1> HIDE DEF x, y
<1>4. x = y
  BY <1>1, <1>2, <1>3, SeqEqual
<1> QED
  BY <1>4 DEF x, y

(* The pipe of each format, written out (setup_ipp_params)                 *)
LEMMA PipeTuples ==
  /\ algos("YUV_420P") = <<star, crcbs, eenf, yuvc("YUV_420P", "YUV_422ILE")>>
  /\ algos("YUV_422ILE") =
       <<star, yuvc("YUV_422ILE", "YUV_420P"), crcbs, eenf, yuvc("YUV_420P", "YUV_422ILE")>>
<1>1. ASSUME NEW a, NEW b, NEW c, NEW e, NEW y
      PROVE  /\ (<<a>> \o <<>>) \o <<c, e, y>> = <<a, c, e, y>>
             /\ (<<a>> \o <<b>>) \o <<c, e, y>> = <<a, b, c, e, y>>
  <2>1. <<a>> \o <<c, e, y>> = <<a, c, e, y>> /\ <<a, b>> \o <<c, e, y>> = <<a, b, c, e, y>>
    BY ConcatOne, ConcatTwo
  <2> QED
    BY <2>1, ConcatNone, ConcatPair, Zenon
<1>2. /\ algos("YUV_420P") =
           (<<star>> \o <<>>) \o <<crcbs, eenf, yuvc("YUV_420P", "YUV_422ILE")>>
      /\ algos("YUV_422ILE") =
           (<<star>> \o <<yuvc("YUV_422ILE", "YUV_420P")>>)
             \o <<crcbs, eenf, yuvc("YUV_420P", "YUV_422ILE")>>
  <2> "YUV_420P" # "YUV_422ILE"
    OBVIOUS
  <2> QED
    BY Zenon DEF algos, INTERNAL_FORMAT
<1>3. (<<star>> \o <<>>) \o <<crcbs, eenf, yuvc("YUV_420P", "YUV_422ILE")>>
      = <<star, crcbs, eenf, yuvc("YUV_420P", "YUV_422ILE")>>
  BY <1>1
<1>4. (<<star>> \o <<yuvc("YUV_422ILE", "YUV_420P")>>)
        \o <<crcbs, eenf, yuvc("YUV_420P", "YUV_422ILE")>>
      = <<star, yuvc("YUV_422ILE", "YUV_420P"), crcbs, eenf, yuvc("YUV_420P", "YUV_422ILE")>>
  BY <1>1
<1> QED
  BY <1>2, <1>3, <1>4, Zenon

(* The elements of three lists after each other                            *)
LEMMA ConcatThree ==
  ASSUME NEW S, NEW a \in Seq(S), NEW b \in Seq(S), NEW c \in Seq(S),
         NEW x, x = (a \o b) \o c
  PROVE  /\ Len(x) = Len(a) + Len(b) + Len(c)
         /\ \A i \in 1 .. Len(x) :
              x[i] = IF i <= Len(a) THEN a[i]
                     ELSE IF i <= Len(a) + Len(b) THEN b[i - Len(a)]
                     ELSE c[i - Len(a) - Len(b)]
<1>1. ASSUME NEW u \in Seq(S), NEW v \in Seq(S)
      PROVE  /\ u \o v \in Seq(S) /\ Len(u \o v) = Len(u) + Len(v)
             /\ \A i \in 1 .. Len(u) + Len(v) :
                  (u \o v)[i] = IF i <= Len(u) THEN u[i] ELSE v[i - Len(u)]
  OBVIOUS
<1> DEFINE y == a \o b
<1>2. /\ y \in Seq(S) /\ Len(y) = Len(a) + Len(b)
      /\ \A i \in 1 .. Len(a) + Len(b) : y[i] = IF i <= Len(a) THEN a[i] ELSE b[i - Len(a)]
  BY <1>1
<1> HIDE DEF y
<1>3. /\ Len(y \o c) = Len(y) + Len(c)
      /\ \A i \in 1 .. Len(y) + Len(c) : (y \o c)[i] = IF i <= Len(y) THEN y[i] ELSE c[i - Len(y)]
  BY <1>1, <1>2
<1>4. Len(a) \in Nat /\ Len(b) \in Nat /\ Len(c) \in Nat
  OBVIOUS
<1>5. x = y \o c
  BY DEF y
<1>6. /\ Len(x) = Len(a) + Len(b) + Len(c)
      /\ \A i \in 1 .. Len(x) :
           x[i] = IF i <= Len(a) THEN a[i]
                  ELSE IF i <= Len(a) + Len(b) THEN b[i - Len(a)]
                  ELSE c[i - Len(a) - Len(b)]
  <2>1. Len(x) = Len(a) + Len(b) + Len(c)
    BY <1>2, <1>3, <1>4, <1>5
  <2>2. ASSUME NEW i \in 1 .. Len(x)
        PROVE x[i] = IF i <= Len(a) THEN a[i]
                     ELSE IF i <= Len(a) + Len(b) THEN b[i - Len(a)]
                     ELSE c[i - Len(a) - Len(b)]
    <3>1. CASE i <= Len(a) + Len(b)
      BY <1>2, <1>3, <1>4, <1>5, <2>1, <3>1
    <3>2. CASE i > Len(a) + Len(b)
      <4>1. x[i] = c[i - (Len(a) + Len(b))]
        BY <1>2, <1>3, <1>4, <1>5, <2>1, <3>2
      <4>2. i - (Len(a) + Len(b)) = i - Len(a) - Len(b)
        BY <1>4
      <4>3. ~(i <= Len(a)) /\ ~(i <= Len(a) + Len(b))
        BY <1>4, <3>2, <2>1
      <4> QED
        BY <4>1, <4>2, <4>3
    <3> QED
      BY <3>1, <3>2, <1>4, <2>1
  <2> QED
    BY <2>1, <2>2
<1> QED
  BY <1>6

(* A table of n entries is a list of them.                                 *)
LEMMA TableSeq ==
  ASSUME NEW S, NEW n \in Nat, NEW t \in [1 .. n -> S]
  PROVE  t \in Seq(S) /\ Len(t) = n
OBVIOUS

(* queue_buffer: the list of contents has two buffers and the arguments of *)
(* every algorithm, and each element points to the next one.  The element  *)
(* that points nowhere is known by what it is, the last algorithm's        *)
(* arguments out: nothing before the end of the list is that.              *)
LEMMA ContentsEnd ==
  ASSUME NEW f, NEW n \in Nat \ {0}, nr_algos(f) = n
  PROVE  /\ Len(contents(f)) = 2 + n + n
         /\ \A i \in 1 .. Len(contents(f)) :
              next_content(f, i) = (IF i = Len(contents(f)) THEN 0 ELSE i + 1)
<1> DEFINE Elems == [type : {"BUFFER", "IN_ARGS", "OUT_ARGS"}, of : Int]
           bufs == [i \in 1 .. 2 |-> [type |-> "BUFFER", of |-> i - 1]]
           ins == [i \in 1 .. n |-> [type |-> "IN_ARGS", of |-> i - 1]]
           outs == [i \in 1 .. n |-> [type |-> "OUT_ARGS", of |-> i - 1]]
           list == (bufs \o ins) \o outs
<1>1. contents(f) = list
  BY DEF contents
<1>2. /\ \A i \in 1 .. 2 : bufs[i] = [type |-> "BUFFER", of |-> i - 1]
      /\ \A i \in 1 .. n : ins[i] = [type |-> "IN_ARGS", of |-> i - 1]
      /\ \A i \in 1 .. n : outs[i] = [type |-> "OUT_ARGS", of |-> i - 1]
  OBVIOUS
<1>3. bufs \in [1 .. 2 -> Elems] /\ ins \in [1 .. n -> Elems] /\ outs \in [1 .. n -> Elems]
  <2>1. \A i \in 1 .. 2 : [type |-> "BUFFER", of |-> i - 1] \in Elems
    OBVIOUS
  <2>2. \A i \in 1 .. n : /\ [type |-> "IN_ARGS", of |-> i - 1] \in Elems
                          /\ [type |-> "OUT_ARGS", of |-> i - 1] \in Elems
    OBVIOUS
  <2> HIDE DEF Elems
  <2> QED
    BY <2>1, <2>2
<1> HIDE DEF bufs, ins, outs, Elems
<1>4. bufs \in Seq(Elems) /\ ins \in Seq(Elems) /\ outs \in Seq(Elems)
  BY <1>3, TableSeq
<1>5. Len(bufs) = 2 /\ Len(ins) = n /\ Len(outs) = n
  BY <1>3, TableSeq
<1>6. /\ Len(list) = 2 + n + n
      /\ \A i \in 1 .. Len(list) :
           list[i] = IF i <= 2 THEN bufs[i]
                     ELSE IF i <= 2 + n THEN ins[i - 2] ELSE outs[i - 2 - n]
  <2>1. ASSUME NEW x, x = (bufs \o ins) \o outs
        PROVE  /\ Len(x) = Len(bufs) + Len(ins) + Len(outs)
               /\ \A i \in 1 .. Len(x) :
                    x[i] = IF i <= Len(bufs) THEN bufs[i]
                           ELSE IF i <= Len(bufs) + Len(ins) THEN ins[i - Len(bufs)]
                           ELSE outs[i - Len(bufs) - Len(ins)]
    BY <1>4, <2>1, ConcatThree
  <2>2. list = (bufs \o ins) \o outs
    OBVIOUS
  <2> HIDE DEF list
  <2> QED
    BY <1>5, <2>1, <2>2
<1> HIDE DEF list
<1>7. ASSUME NEW i \in 1 .. 2 + n + n
      PROVE  list[i] = [type |-> "OUT_ARGS", of |-> n - 1] <=> i = 2 + n + n
  <2>1. CASE i <= 2
    <3>1. list[i] = [type |-> "BUFFER", of |-> i - 1]
      BY <1>2, <1>6, <2>1
    <3> QED
      BY <3>1, <2>1
  <2>2. CASE i > 2 /\ i <= 2 + n
    <3>1. i - 2 \in 1 .. n /\ list[i] = ins[i - 2]
      BY <1>6, <2>2
    <3>2. list[i] = [type |-> "IN_ARGS", of |-> (i - 2) - 1]
      BY <1>2, <3>1
    <3>3. i # 2 + n + n
      BY <2>2
    <3> QED
      BY <3>2, <3>3
  <2>3. CASE i > 2 + n
    <3>1. i - 2 - n \in 1 .. n /\ list[i] = outs[i - 2 - n]
      BY <1>6, <2>3
    <3>2. list[i] = [type |-> "OUT_ARGS", of |-> (i - 2 - n) - 1]
      BY <1>2, <3>1
    <3>3. list[i] = [type |-> "OUT_ARGS", of |-> n - 1] <=> (i - 2 - n) - 1 = n - 1
      BY <3>2
    <3> QED
      BY <3>3
  <2> QED
    BY <2>1, <2>2, <2>3
<1>8. Len(contents(f)) = 2 + n + n
  BY <1>1, <1>6
<1>9. ASSUME NEW i \in 1 .. 2 + n + n
      PROVE  next_content(f, i) = (IF i = 2 + n + n THEN 0 ELSE i + 1)
  BY <1>1, <1>7 DEF next_content
<1> QED
  BY <1>8, <1>9

(* What a format has to be for PipeFits: the parity that got_message looks *)
(* at and the port that prepare_filter_graph gives the last algorithm      *)
(* agree for any number of algorithms; the rest is about these ones.       *)
LEMMA FitsOf ==
  ASSUME NEW f \in Formats, NEW n \in {4, 5}, nr_algos(f) = n,
         n = 4 <=> f = "YUV_420P",
         \A i \in 2 .. n - 1 : algos(f)[i].to = algos(f)[i + 1].from,
         algos(f)[eenf_idx(f) + 1] = eenf,
         algos(f)[2].from = f, algos(f)[n].to = "YUV_422ILE"
  PROVE  FitsFormat[f]
<1>1. Overwrites(f) <=> output_buf_distribution(f)[n - 1] = 0
  BY DEF Overwrites, output_buf_distribution
<1>2. ASSUME NEW e \in graph_connection(f), e[1] > 0
      PROVE  algos(f)[e[1] + 1].to = algos(f)[e[2] + 1].from
  <2>1. PICK i \in 0 .. n - 2 : e = <<i, i + 1>>
    BY <1>2 DEF graph_connection
  <2>2. e[1] = i /\ e[2] = i + 1 /\ i + 1 \in 2 .. n - 1
    BY <1>2, <2>1
  <2> QED
    BY <2>2
<1>3. \A i \in 1 .. Len(contents(f)) :
        next_content(f, i) = (IF i = Len(contents(f)) THEN 0 ELSE i + 1)
  BY ContentsEnd
<1> QED
  BY <1>1, <1>2, <1>3 DEF FitsFormat

(* The pipe that setup_ipp_params, prepare_filter_graph and queue_buffer   *)
(* build is the one that got_message and control_pipe assume: the output   *)
(* is looked for where the last algorithm writes it, each algorithm reads  *)
(* the format it is given, the list of contents reaches all of it.         *)
THEOREM IppPipeFits == Spec => []PipeFits
<1>1. FitsFormat["YUV_420P"]
  <2> DEFINE f == "YUV_420P"
             p == algos(f)
  <2>1. /\ Len(p) = 4 /\ p[1] = star /\ p[2] = crcbs /\ p[3] = eenf
        /\ p[4] = yuvc("YUV_420P", "YUV_422ILE")
    BY PipeTuples
  <2> HIDE DEF p
  <2>2. /\ p[2].from = f /\ p[2].to = f /\ p[3].from = f /\ p[3].to = f
        /\ p[4].from = f /\ p[4].to = "YUV_422ILE"
    BY <2>1 DEF crcbs, eenf, yuvc, INTERNAL_FORMAT
  <2>3. \A i \in 2 .. 3 : p[i].to = p[i + 1].from
    <3>1. \A i \in 2 .. 3 : i = 2 \/ i = 3
      OBVIOUS
    <3> QED
      BY <2>2, <3>1
  <2>4. p[eenf_idx(f) + 1] = eenf
    BY <2>1 DEF eenf_idx, INTERNAL_FORMAT
  <2>5. nr_algos(f) = 4 /\ f \in Formats
    BY <2>1 DEF nr_algos, Formats, p
  <2> USE DEF p
  <2> QED
    BY <2>1, <2>2, <2>3, <2>4, <2>5, FitsOf
<1>2. FitsFormat["YUV_422ILE"]
  <2> DEFINE f == "YUV_422ILE"
             g == "YUV_420P"
             p == algos(f)
  <2>1. /\ Len(p) = 5 /\ p[1] = star /\ p[2] = yuvc(f, g) /\ p[3] = crcbs /\ p[4] = eenf
        /\ p[5] = yuvc(g, f)
    BY PipeTuples
  <2> HIDE DEF p
  <2>2. /\ p[2].from = f /\ p[2].to = g /\ p[3].from = g /\ p[3].to = g
        /\ p[4].from = g /\ p[4].to = g /\ p[5].from = g /\ p[5].to = f
    BY <2>1 DEF crcbs, eenf, yuvc, INTERNAL_FORMAT
  <2>3. \A i \in 2 .. 4 : p[i].to = p[i + 1].from
    <3>1. \A i \in 2 .. 4 : i = 2 \/ i = 3 \/ i = 4
      OBVIOUS
    <3> QED
      BY <2>2, <3>1
  <2>4. p[eenf_idx(f) + 1] = eenf
    BY <2>1 DEF eenf_idx, INTERNAL_FORMAT
  <2>5. nr_algos(f) = 5 /\ f \in Formats
    BY <2>1 DEF nr_algos, Formats, p
  <2> USE DEF p
  <2> QED
    BY <2>1, <2>2, <2>3, <2>4, <2>5, FitsOf
<1>3. TypeOK => PipeFits
  <2>1. TypeOK => fmt \in {"YUV_420P", "YUV_422ILE"}
    BY DEF TypeOK, Formats
  <2> QED
    BY <1>1, <1>2, <2>1 DEF PipeFits
<1> QED
  BY <1>3, IppTypeCorrect, PTL
=============================================================================
