------------------------------ MODULE IppPipe ------------------------------
(***************************************************************************)
(* What the image processor tells the DSP (gstdspipp.c): the pipe of       *)
(* algorithms for an input format, its graph, the list of contents of a    *)
(* frame, and the messages of the DFGM protocol with the order they are    *)
(* sent in.                                                                *)
(***************************************************************************)
EXTENDS Integers, Sequences, FiniteSets, SequencesExt

Formats == {"YUV_422ILE", "YUV_420P"}   \* UYVY and I420 caps
INTERNAL_FORMAT == "YUV_420P"           \* as of SN_API 1

(* An algorithm with the format it reads and the format it writes.  The    *)
(* star only distributes the buffers and has no dma function.              *)
star == [fxn |-> "STAR_ALG", dma |-> FALSE, from |-> "any", to |-> "any"]
yuvc(f, g) == [fxn |-> "YUVCONVERT", dma |-> TRUE, from |-> f, to |-> g]
crcbs == [fxn |-> "CRCBS", dma |-> TRUE, from |-> INTERNAL_FORMAT, to |-> INTERNAL_FORMAT]
eenf == [fxn |-> "EENF", dma |-> TRUE, from |-> INTERNAL_FORMAT, to |-> INTERNAL_FORMAT]

(* setup_ipp_params *)
Wrong_algos(f) ==   \* a conversion whatever the format is
  <<star, yuvc("YUV_422ILE", INTERNAL_FORMAT), crcbs, eenf,
    yuvc(INTERNAL_FORMAT, "YUV_422ILE")>>
algos(f) ==
  <<star>>
  \o (IF f # INTERNAL_FORMAT THEN <<yuvc("YUV_422ILE", INTERNAL_FORMAT)>> ELSE <<>>)
  \o <<crcbs, eenf, yuvc(INTERNAL_FORMAT, "YUV_422ILE")>>
nr_algos(f) == Len(algos(f))

(* control_pipe: the place of the noise filter; the tables count from 0 *)
eenf_idx(f) == IF f = INTERNAL_FORMAT THEN 2 ELSE 3

(* prepare_filter_graph: algorithm i feeds i + 1, and algorithm i > 0      *)
(* writes to a star port (0 input, 1 output); the ports alternate.         *)
graph_connection(f) == {<<i, i + 1>> : i \in 0 .. nr_algos(f) - 2}
output_buf_distribution(f) == [i \in 1 .. nr_algos(f) - 1 |-> i % 2]

(* got_message: nr_algos & 0x01 *)
Overwrites(f) == nr_algos(f) % 2 = 1

(* queue_buffer: two buffers, then the arguments of every algorithm in and *)
(* out, in an array whose elements point to their next (0: none).          *)
contents(f) ==
  [i \in 1 .. 2 |-> [type |-> "BUFFER", of |-> i - 1]]
  \o [i \in 1 .. nr_algos(f) |-> [type |-> "IN_ARGS", of |-> i - 1]]
  \o [i \in 1 .. nr_algos(f) |-> [type |-> "OUT_ARGS", of |-> i - 1]]
next_content(f, i) ==
  IF contents(f)[i] = [type |-> "OUT_ARGS", of |-> nr_algos(f) - 1] THEN 0 ELSE i + 1

-----------------------------------------------------------------------------
(* The messages: which of the three pointers of msg_ptr each of them sets. *)
(* The DSP gets the first two, and writes an error code to the second.     *)

Message(id, args) == [id |-> id, args |-> args]

create_xbf       == Message("CREATE_XBF", {0, 1, 2})
set_algorithm    == Message("SET_XBF_ALGS", {0, 1})
create_pipe      == Message("CREATE_XBF_PIPE", {0, 1, 2})
start_processing == Message("START_PROCESSING", {1})
control_pipe     == Message("CONTROL_PIPE", {0, 1})
queue_buffer     == Message("QUEUE_BUFF", {0})
flush_pipe       == Message("FLUSH_PIPE", {0, 1})
stop_processing  == Message("STOP_PROCESSING", {0, 1})
destroy_pipe     == Message("DESTROY_XBF_PIPE", {1})
clear_algorithm  == Message("CLEAR_XBF_ALGS", {1})
destroy_xbf      == Message("DESTROY_XBF", {0, 1})

(* The contents, the arguments in and the arguments out are flushed apart. *)
flush_queue_buffer == <<flush_pipe, flush_pipe, flush_pipe>>

init_pipe    == <<create_xbf, set_algorithm, create_pipe, start_processing>>
send_frame   == <<control_pipe, queue_buffer>> \o flush_queue_buffer
send_stop    == <<stop_processing, destroy_pipe, clear_algorithm, destroy_xbf>>
Messages == Range(init_pipe) \cup Range(send_frame) \cup Range(send_stop)

(* What DFGM makes of a message: the state it asks for, and the next one.  *)
(* Any other use of it breaks the protocol.                                *)
Transition == [
  CREATE_XBF |-> <<"none", "xbf">>,        DESTROY_XBF |-> <<"xbf", "none">>,
  SET_XBF_ALGS |-> <<"xbf", "algs">>,      CLEAR_XBF_ALGS |-> <<"algs", "xbf">>,
  CREATE_XBF_PIPE |-> <<"algs", "pipe">>,  DESTROY_XBF_PIPE |-> <<"pipe", "algs">>,
  START_PROCESSING |-> <<"pipe", "running">>, STOP_PROCESSING |-> <<"running", "pipe">>,
  CONTROL_PIPE |-> <<"running", "running">>,  QUEUE_BUFF |-> <<"running", "running">>,
  FLUSH_PIPE |-> <<"running", "running">>]
PipeStates == {"none", "xbf", "algs", "pipe", "running", "broken"}
=============================================================================
