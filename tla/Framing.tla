------------------------------ MODULE Framing -------------------------------
(***************************************************************************)
(* The multipart messages between the threads of a process and between     *)
(* processes: who writes which frames, and how message_iterator reads them *)
(* back.  A socket is a stream of frames; only the flag "more" of a frame  *)
(* separates messages, so a writer that forgets it, or a reader that reads *)
(* one frame too many, damages the message after.                          *)
(*                                                                         *)
(* Abstractions: a frame has a size and a value; a value is what memcpy()  *)
(* put there, never its bytes.                                             *)
(***************************************************************************)
EXTENDS Naturals, Sequences, SequencesExt

Frame(size, val, more) == [size |-> size, val |-> val, more |-> more]

SNDMORE == TRUE

\* send_empty_message(), send_char(), send_uint64(), send_pointer(), send_string()
send_empty_message(flags) == <<Frame(0, "", flags)>>
send_char(ch, flags)      == <<Frame(1, ch, flags)>>
send_uint64(n, flags)     == <<Frame(8, n, flags)>>
send_pointer(p, flags)    == <<Frame(8, p, flags)>>
send_string(s, flags)     == <<Frame(s.length, s, flags)>>

\* write_vector_to_socket(): every message but the last has the flag.
write_vector_to_socket(data) ==
    [i \in DOMAIN data |-> Frame(data[i].length, data[i], i < Len(data))]

WriteSenderAlways(info, flags) ==
    send_char(info.is_router, SNDMORE) \o send_uint64(info.index, SNDMORE)
    \o send_string(info.sender, flags)

\* write_connection_info(): a DEALER connection has no sender frame.
write_connection_info(info, flags) ==
    send_char(info.is_router, SNDMORE) \o
    (IF info.is_router
       THEN send_uint64(info.index, SNDMORE) \o send_string(info.sender, flags)
       ELSE send_uint64(info.index, flags))

-----------------------------------------------------------------------------
(* Commands to the broker                                                  *)

Command(ch, flags) == send_empty_message(SNDMORE) \o send_char(ch, flags)

\* connect(), manager::bind() and manager::unbind(); manager::add();
\* manager::join_threads()
EndpointCommand(ch, ep) == Command(ch, SNDMORE) \o send_string(ep, FALSE)
RunClosureCommand(p)    == Command("kRunClosure", SNDMORE) \o send_pointer(p, FALSE)
QuitCommand             == Command("kQuit", FALSE)

\* connection::request(message_vector&, rpc_controller*)
RequestCommand(info, ctrl, data) ==
    Command("kRequest", SNDMORE) \o write_connection_info(info, SNDMORE)
    \o send_pointer(ctrl, SNDMORE) \o write_vector_to_socket(data)

\* connection::reply(message_vector&)
ReplyCommand(info, data) ==
    Command("kReply", SNDMORE) \o write_connection_info(info, SNDMORE)
    \o write_vector_to_socket(data)

\* connection::register_service()
RegisterCommand(info, name, svc) ==
    Command("kRegisterSvc", SNDMORE) \o write_connection_info(info, SNDMORE)
    \o send_string(name, SNDMORE) \o send_pointer(svc, FALSE)

Written(c) ==
    CASE c.cmd \in {"kConnect", "kBind", "kUnbind"} -> EndpointCommand(c.cmd, c.endpoint)
      [] c.cmd = "kRunClosure"  -> RunClosureCommand(c.ptr)
      [] c.cmd = "kQuit"        -> QuitCommand
      [] c.cmd = "kRequest"     -> RequestCommand(c.info, c.ptr, c.data)
      [] c.cmd = "kReply"       -> ReplyCommand(c.info, c.data)
      [] c.cmd = "kRegisterSvc" -> RegisterCommand(c.info, c.name, c.ptr)

\* A ROUTER socket puts the identity of the sender before each message.
AddIdentity(id, m) == send_string(id, SNDMORE) \o m

-----------------------------------------------------------------------------
(* Reading                                                                 *)

\* message_iterator: rest of the stream, has_more_, what was read; ok is FALSE
\* after a failed assertion, or a recv() that took a frame of the next
\* message or waits for one that nobody sends.
message_iterator(stream) == [rest |-> stream, has_more |-> TRUE, got |-> <<>>, ok |-> TRUE]

next(it) ==
    IF it.rest = <<>> \/ ~it.has_more THEN [it EXCEPT !.ok = FALSE]
    ELSE [it EXCEPT !.rest = Tail(@), !.has_more = Head(it.rest).more,
                    !.got = Append(@, Head(it.rest).val)]

NextSize(it) == IF it.rest = <<>> THEN 0 ELSE Head(it.rest).size

\* interpret_message<T>() asserts the size; message_to_string() takes any.
interpret(it, size) == LET n == next(it) IN [n EXCEPT !.ok = @ /\ NextSize(it) = size]
AssertMore(it)   == [it EXCEPT !.ok = @ /\ it.has_more]
AssertNoMore(it) == [it EXCEPT !.ok = @ /\ ~it.has_more]

\* ~message_iterator() reads the rest of the message.
Drained(it) ==
    IF ~it.has_more THEN it.rest
    ELSE LET last == SelectInSeq(it.rest, LAMBDA f : ~f.more) IN
         IF last = 0 THEN <<>> ELSE SubSeq(it.rest, last + 1, Len(it.rest))

\* read_connection_info()
read_connection_info(it) ==
    LET a == interpret(AssertMore(it), 1)
        b == interpret(AssertMore(a), 8)
    IN IF ~a.ok \/ ~Last(a.got) THEN b ELSE next(AssertMore(b))

\* forward_messages(): what is left of the message goes to another socket.
forward_messages(it) ==
    LET left == SelectInSeq(it.rest, LAMBDA f : ~f.more) IN
    IF it.has_more THEN SubSeq(it.rest, 1, left) ELSE <<>>

\* forward_to()
forward_to(info, it) ==
    (IF info.is_router THEN send_string(info.sender, SNDMORE) ELSE <<>>)
    \o send_empty_message(SNDMORE) \o forward_messages(it)

\* handle_frontend_socket() and the handlers of the commands, up to where they
\* forward what is left or are done.
handle_frontend_socket(stream) ==
    LET start == interpret(interpret(next(message_iterator(stream)), 0), 1)
        cmd   == IF start.ok THEN start.got[3] ELSE "none"
    IN CASE cmd \in {"kConnect", "kBind", "kUnbind"} -> next(start)
         [] cmd = "kRunClosure"  -> interpret(start, 8)
         [] cmd = "kRequest"     -> interpret(AssertMore(read_connection_info(AssertMore(start))), 8)
         [] cmd = "kReply"       -> read_connection_info(AssertMore(start))
         [] cmd = "kRegisterSvc" ->
               AssertNoMore(interpret(AssertMore(next(AssertMore(
                   read_connection_info(AssertMore(start))))), 8))
         [] OTHER -> start

\* handle_socket(): header and payload of a message from outside, or nothing;
\* what is read is the return value's "data".
handle_socket(it) ==
    LET empty  == next(it)
        header == next(empty)
        both   == next(header)
    IN IF NextSize(it) # 0 \/ ~empty.has_more THEN [it |-> empty, data |-> <<>>]
       ELSE IF ~header.has_more THEN [it |-> header, data |-> <<Last(header.got)>>]
       ELSE [it |-> both, data |-> SubSeq(both.got, Len(both.got) - 1, Len(both.got))]

\* handle_router_socket(): the sender first.
handle_router_socket(stream) ==
    LET sender == next(message_iterator(stream)) IN
    IF sender.has_more THEN handle_socket(sender) ELSE [it |-> sender, data |-> <<>>]

\* handle_dealer_socket()
handle_dealer_socket(stream) == handle_socket(message_iterator(stream))

\* The answers to kConnect and kBind, and to kUnbind, as the thread's DEALER
\* socket delivers them, and how they are read: connect() and unbind() take two
\* frames, bind() checks them.
IndexAnswer(i) == send_empty_message(SNDMORE) \o send_uint64(i, FALSE)
UnbindAnswer   == send_empty_message(SNDMORE) \o send_empty_message(FALSE)
ReadTwo(stream) == next(next(message_iterator(stream)))
ReadBindAnswer(stream) ==
    AssertNoMore(interpret(AssertMore(interpret(message_iterator(stream), 0)), 8))
=============================================================================
