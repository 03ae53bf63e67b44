---------------------------- MODULE HttpSession ----------------------------
(***************************************************************************)
(* The server side of one HTTP connection: HttpSession::recvRequest       *)
(* (http_session.cc) and the loop of HttpServer::handleClient              *)
(* (http_server.cc) that calls it, as operators over what the network     *)
(* delivers.  The bytes the client sends are tokens: a header byte, the   *)
(* byte that ends a header (it carries the request's content-length and  *)
(* whether it asks to close), a malformed byte, and body bytes, each      *)
(* tagged with its request.  The network delivers them in segments; a     *)
(* recv returns at most one segment and at most the free buffer space.    *)
(* After the last segment the peer either waits, closes (recv returns 0) *)
(* or resets (recv returns -1).                                            *)
(*                                                                         *)
(* The ragel parser behind HttpRequestParser::execute is not part of the  *)
(* repository; it is taken to parse a request line and header only once  *)
(* its last byte is in the buffer, leaving a partial header unparsed, and *)
(* to fail on a malformed byte.                                            *)
(***************************************************************************)
EXTENDS Integers, Sequences

CONSTANT BuffSize   \* HttpRequestParser::GetHttpRequestBufferSize()

HdrByte(r)          == [k |-> "h", r |-> r]
HdrEnd(r, len, cls) == [k |-> "end", r |-> r, len |-> len, close |-> cls]
BadByte(r)          == [k |-> "bad", r |-> r]
BodyByte(r, i)      == [k |-> "b", r |-> r, i |-> i]

\* What the network holds for the server: the bytes not yet received, cut
\* into segments, and what the peer does once they are all received.
Net(bytes, segs, fin) == [bytes |-> bytes, segs |-> segs, fin |-> fin]

Lo(a, b) == IF a < b THEN a ELSE b

\* Socket::recv(buffer, space) through the hook: the bytes of the first
\* segment that fit; 0 once the peer has closed and -1 once it has reset;
\* "wait" while it sends nothing more (the fiber parks on READ).
Recv(net, space) ==
    IF net.bytes = <<>>
    THEN [wait |-> net.fin = "wait", n |-> IF net.fin = "close" THEN 0 ELSE -1,
          data |-> <<>>, net |-> net]
    ELSE LET n == Lo(Head(net.segs), space)
         IN  [wait |-> FALSE,
              n    |-> n,
              data |-> SubSeq(net.bytes, 1, n),
              net  |-> [net EXCEPT !.bytes = SubSeq(@, n + 1, Len(@)),
                                   !.segs  = IF n = Head(@) THEN Tail(@)
                                             ELSE <<Head(@) - n>> \o Tail(@)]]

\* HttpRequestParser::execute(data, len): the bytes parsed, then the
\* unparsed rest moved to the front of the buffer; hasError, isFinished,
\* and the content-length and close flag the parsed header gave.
Execute(data) ==
    LET ends == {j \in DOMAIN data : data[j].k = "end"}
        bad  == {j \in DOMAIN data : data[j].k = "bad"}
        e    == IF ends = {} THEN 0 ELSE CHOOSE j \in ends : \A i \in ends : j <= i
    IN  [error    |-> \E j \in bad : e = 0 \/ j < e,
         finished |-> e > 0,
         nparser  |-> e,
         clen     |-> IF e > 0 THEN data[e].len ELSE 0,
         close    |-> e > 0 /\ data[e].close]

\* Stream::readFixSize(buffer, length): recv until length bytes are read;
\* a recv that returns 0 or less ends it with that result.
RECURSIVE ReadFixSize(_, _, _)
ReadFixSize(net, length, got) ==
    IF length = 0 THEN [ok |-> "done", data |-> got, net |-> net]
    ELSE LET rv == Recv(net, length)
         IN  CASE rv.wait -> [ok |-> "wait", data |-> got, net |-> net]
               [] rv.n <= 0     -> [ok |-> "fail", data |-> got, net |-> rv.net]
               [] OTHER         -> ReadFixSize(rv.net, length - rv.n, got \o rv.data)

\* recvRequest's outcomes: a request, or no request with end "close" for
\* a nullptr after close(), "wait" for a recv parked for ever and "spin"
\* for the loop repeating a step.
Got(body, cls, net) == [end |-> "req", req |-> [body |-> body, close |-> cls], net |-> net]
NoReq(what, net)    == [end |-> what, req |-> "none", net |-> net]

\* RecvBody with the bytes already buffered not subtracted from those
\* still to be read.
RecvBodyFullRead(h, data, offset, net) ==
    LET rf == ReadFixSize(net, h.clen, <<>>)
    IN  CASE h.clen = 0     -> Got(<<>>, h.close, net)
          [] rf.ok = "wait" -> NoReq("wait", net)
          [] rf.ok = "fail"  -> NoReq("close", rf.net)
          [] OTHER -> Got(SubSeq(data, 1, Lo(offset, h.clen)) \o rf.data, h.close, rf.net)

\* The content part of recvRequest, after the header: take what of the
\* body is already buffered, read the rest with readFixSize.
RecvBody(h, data, offset, net) ==
    LET length == h.clen
        len    == IF length >= offset THEN offset ELSE 0
        first  == IF length >= offset THEN SubSeq(data, 1, offset)
                  ELSE SubSeq(data, 1, length)
        rest   == length - offset
        rf     == ReadFixSize(net, rest, <<>>)
    IN  CASE length = 0            -> Got(<<>>, h.close, net)
          [] rest <= 0             -> Got(first, h.close, net)
          [] rf.ok = "wait"        -> NoReq("wait", net)
          [] rf.ok = "fail"         -> NoReq("close", rf.net)
          [] OTHER -> Got(SubSeq(first, 1, len) \o rf.data, h.close, rf.net)

\* The do-while loop of recvRequest: read after the unparsed bytes,
\* parse, keep the unparsed rest, give up on a full buffer.  A read of 0
\* leaves the buffer and the parser as they were, so the next pass does
\* the same: the loop has nothing else that ends it.
RECURSIVE RecvLoop(_, _, _)
RecvLoop(data, offset, net) ==
    LET rv == Recv(net, BuffSize - offset)
    IN  CASE rv.wait -> NoReq("wait", net)
          [] rv.n < 0      -> NoReq("close", rv.net)
          [] rv.n = 0      -> NoReq("spin", rv.net)
          [] OTHER ->
             LET buf == data \o rv.data
                 h   == Execute(buf)
                 off == Len(buf) - h.nparser
                 rem == SubSeq(buf, h.nparser + 1, Len(buf))
             IN  CASE h.error         -> NoReq("close", rv.net)
                   [] off = BuffSize  -> NoReq("close", rv.net)
                   [] h.finished      -> RecvBody(h, rem, off, rv.net)
                   [] OTHER           -> RecvLoop(rem, off, rv.net)

RecvRequest(net) == RecvLoop(<<>>, 0, net)

\* HttpServer::handleClient: answer requests until recvRequest fails, or
\* after the first one unless keep-alive is on and the request did not
\* ask to close.  The result lists the bodies answered and how it ended.
RECURSIVE HandleClient(_, _, _)
HandleClient(net, keepalive, served) ==
    LET rr == RecvRequest(net)
    IN  IF rr.end # "req"
        THEN [served |-> served, end |-> rr.end]
        ELSE IF ~keepalive \/ rr.req.close
             THEN [served |-> Append(served, rr.req.body), end |-> "close"]
             ELSE HandleClient(rr.net, keepalive, Append(served, rr.req.body))
=============================================================================
