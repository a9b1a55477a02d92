-------------------------- MODULE HttpConnection ---------------------------
(***************************************************************************)
(* One HTTP connection: the client's stream of requests, cut into segments *)
(* by the network, onmessage and writecallback of reactor/Connection.cpp,  *)
(* with the parser and the response between them.                          *)
(*                                                                         *)
(* All of it but the client runs on the IO thread of the connection, so a  *)
(* handler is one step.  How connections end and time out is in TcpServer. *)
(***************************************************************************)
EXTENDS HttpRequest, HttpResponse

CONSTANTS
    Menu,           \* requests a client may send, [line, headers, fields, body],
                    \* where the fields, [key, value], are those of a form
    MaxRequests,    \* bound: requests on the connection
    Segmented,      \* may the network deliver a part of a request?
    Pipelined       \* may the client send a request before the last response?

----------------------------------------------------------------------------
(* The client.                                                             *)

\* The body of a form, as the URLSearchParams of login.html makes it.
Escaped(c) ==
    IF c = " " THEN <<"+">>
    ELSE IF c \in {"&", "=", "+", "%"}
    THEN <<"%", HexDigits[(CodeOf[c] \div 16) + 1], HexDigits[(CodeOf[c] % 16) + 1]>>
    ELSE <<c>>

Encoded(str) == FlattenSeq([i \in DOMAIN str |-> Escaped(str[i])])

FormBody(fields) ==
    Tail(FlattenSeq([i \in DOMAIN fields |->
        <<"&">> \o Encoded(fields[i].key) \o <<"=">> \o Encoded(fields[i].value)]))

Body(r) == IF r.fields = <<>> THEN r.body ELSE FormBody(r.fields)

\* A request on the wire.
Wire(r) ==
    <<r.line, CR, LF>>
        \o FlattenSeq([i \in DOMAIN r.headers |-> <<r.headers[i], CR, LF>>])
        \o <<CR, LF>> \o Body(r)

\* The headers of a request that count: the last of each name.
Effective(r) ==
    {r.headers[i] : i \in {i \in DOMAIN r.headers : \A j \in DOMAIN r.headers :
        j > i => Headers[r.headers[j]] # Headers[r.headers[i]]}}

\* What a client sends: each part of a request fits into what the server counts
\* and stores it with, and a form is sent as login.html sends it.
ASSUME MenuAssumption ==
    \A r \in Menu :
        /\ r.line \in DOMAIN Lines
        /\ r.headers \in Seq(DOMAIN Headers)
        /\ r.body \in Seq(ToSet(r.body))
        /\ r.fields \in Seq([key : Seq(DOMAIN CodeOf), value : Seq(DOMAIN CodeOf)])
        /\ Len(Wire(r)) < SizeMod
        /\ Len(Body(r)) <= MaxString
        /\ r.fields # <<>> =>
              /\ Lines[r.line].method = "POST"
              /\ Form \in Effective(r)
              /\ ParsePath_(Lines[r.line].path) # "/download"
              /\ \A i, j \in DOMAIN r.fields : r.fields[i].key = r.fields[j].key => i = j

ASSUME RequestsAssumption == MaxRequests \in Nat

VARIABLES
    requests,       \* what the client is going to send
    delivered,      \* the number of bytes of it delivered to onmessage
    received,       \* the number of responses the client has received
    inputbuffer_, request_,
    outputbuffer_,  \* responses made and not written completely
    response_,
    mapped,         \* what the connection has mapped, [file, length]
    srcFds,         \* descriptors of files left open
    handled,        \* history: the requests responses were made for
    status          \* "open", "closed" by the server, or how parse() broke

vars == <<requests, delivered, received, inputbuffer_, request_, outputbuffer_,
          response_, mapped, srcFds, handled, status>>

Stream(n) == FlattenSeq([i \in 1 .. n |-> Wire(requests[i])])

\* What the client has put on the wire by now.
Sent ==
    IF Pipelined THEN Stream(Len(requests))
    ELSE Stream(Lesser(received + 1, Len(requests)))

\* Where segments may end.
Cuts ==
    IF Segmented THEN 1 .. Len(Sent)
    ELSE {Len(Stream(n)) : n \in 1 .. Len(requests)}

Init ==
    /\ requests \in UNION {[1 .. n -> Menu] : n \in 1 .. MaxRequests}
    /\ delivered = 0
    /\ received = 0
    /\ inputbuffer_ = Empty
    /\ request_ = Fresh
    /\ outputbuffer_ = <<>>
    /\ response_ = NoResponse
    /\ mapped = {}
    /\ srcFds = <<>>
    /\ handled = <<>>
    /\ status = "open"

----------------------------------------------------------------------------
(* The server.                                                             *)

\* A bug for comparison: request_ keeps what the last message put there.
request_not_Init == [request_ EXCEPT !.state_ = "REQUEST_LINE"]

\* What request_.Init() leaves for parse() to start from.
request_Init == Fresh

\* The file a request is answered with.
Target(request) ==
    IF ForDownload(request) /\ Method(request) = "POST" THEN request.file_ ELSE request.path_

\* Make the response to a request: its flags go to the parameters of Init in the
\* order of the call, which is not theirs.  The system grants the file or not.
respond(request, granted) ==
    LET made == Made(InitResponse(response_, Target(request), request.return_js_,
                                  request.is_success_js_, request.is_download_,
                                  IsKeepAlive(request), granted))
        kept == UnmapFile(response_, mapped)
    IN  /\ response_' = made
        /\ mapped' = IF Maps(made) THEN kept \union {[file |-> made.mmFile_, length |-> made.mmFileStat_]}
                     ELSE kept
        /\ srcFds' = srcFds \o LeftOpen(made)
        /\ outputbuffer_' = Append(outputbuffer_, Written(made))

\* onmessage: read all that has arrived, start over with an empty request_ and
\* parse; make a response if parse() says the request is complete.
onmessage(upto) ==
    LET segment == SubSeq(Sent, delivered + 1, upto)
        p == parse(append(inputbuffer_, segment), request_Init)
    IN  /\ status = "open"
        /\ delivered < upto /\ upto <= Len(Sent)
        /\ delivered' = upto
        /\ inputbuffer_' = p.buf
        /\ \E success \in HandleUserCommand(p.request) :
              request_' = [p.request EXCEPT !.is_success_js_ = success]
        /\ IF p.result = "true"
           THEN /\ handled' = Append(handled, request_')
                /\ \E granted \in BOOLEAN : respond(request_', granted)
           ELSE UNCHANGED <<handled, outputbuffer_, response_, mapped, srcFds>>
        /\ status' = IF p.result \in {"throws", "overrun"} THEN p.result ELSE "open"
        /\ UNCHANGED <<requests, received>>

\* writecallback, when the last byte is written: the connection stays open if the
\* request_ there is now says so.  A partial write changes nothing that is
\* modelled here, see Buffer.
writecallback ==
    /\ status = "open"
    /\ outputbuffer_ # <<>>
    /\ received' = received + Len(outputbuffer_)
    /\ outputbuffer_' = <<>>
    /\ status' = IF IsKeepAlive(request_) THEN "open" ELSE "closed"
    /\ UNCHANGED <<requests, delivered, inputbuffer_, request_, response_, mapped, srcFds,
                   handled>>

Next ==
    \/ \E upto \in Cuts : onmessage(upto)
    \/ writecallback

Spec == Init /\ [][Next]_vars

----------------------------------------------------------------------------
(* Properties.                                                             *)

\* The headers and the body are those of one request of the client.
Matches(h, r) ==
    /\ h.line_ = <<r.line>>
    /\ h.header_ = Effective(r)
    /\ h.body_ = Body(r)

\* The server answers the requests of the client as they were sent, one after
\* the other: none twice, none in part (Connection.cpp:158).
HandledAsSent ==
    /\ Len(handled) <= Len(requests)
    /\ \A i \in DOMAIN handled : Matches(handled[i], requests[i])

\* What a user enters into the login page is what Register and Login are called
\* with, whatever characters it holds and wherever its body was cut into blocks.
FieldsAsEntered ==
    \A i \in DOMAIN handled :
        \A j \in DOMAIN requests[i].fields :
            LET field == requests[i].fields[j]
            IN  field.key \in DOMAIN handled[i].post_ /\ handled[i].post_[field.key] = field.value

\* Between requests the input buffer is empty, so that the next one is parsed
\* from its beginning; and a request that has arrived was handled.
EachIsAnswered ==
    status = "open" /\ delivered = Len(Sent) =>
        /\ Len(handled) = Lesser(received + 1, Len(requests))
        /\ Content(inputbuffer_) = <<>>

\* Does the client ask to close the connection after r?  The last header of the
\* name decides, and version 1.0 without one.
AsksToClose(r) ==
    \/ Close \in Effective(r)
    \/ KeepAlive \notin Effective(r) /\ Lines[r.line].version # "1.1"

\* The server closes the connection after a request that asks for it
\* (httprequest.cpp:151) and after no other (httprequest.cpp:153).
KeepAliveKept ==
    /\ status = "closed" => AsksToClose(requests[received])
    /\ status = "open" => \A i \in 1 .. received : ~AsksToClose(requests[i])

\* A response states the length of the bytes that follow it, so that the client
\* finds the next one (httpresponse.cpp:181, Connection.cpp:152).
Framed == \A i \in DOMAIN outputbuffer_ : outputbuffer_[i].body = <<outputbuffer_[i].stated>>

\* The code a request for a path is due, and the file that goes with it.
Missing(path) == path \notin DOMAIN Files \/ Files[path].dir
CodeFor(path) == IF Missing(path) THEN 404 ELSE IF ~Files[path].others THEN 403 ELSE 200
SentFor(path) == IF CodeFor(path) = 200 THEN path ELSE CODE_PATH(CodeFor(path))

\* A request for a file is answered with the code 200 and the file, if others may
\* read it, and otherwise with the code and the page of the error
\* (httpresponse.cpp:82), whatever the requests before it were.  The code stays
\* when the file turns out to be empty or the system does not let it be opened:
\* the body is a message then (httpresponse.cpp:174).
AnswersTheFile ==
    outputbuffer_ # <<>> /\ ~Last(handled).return_js_ =>
        LET asked == Target(Last(handled))
            answer == Last(outputbuffer_)
        IN  /\ answer.code = CodeFor(asked)
            /\ answer.body = IF ~response_.granted THEN <<"FileFound!">>
                             ELSE IF Files[SentFor(asked)].size = 0 THEN <<"File NotFound!">>
                             ELSE <<SentFor(asked)>>

\* A connection keeps no more than the file of its last response mapped, and a
\* descriptor only of an empty file, which cannot be mapped.
FilesReturned ==
    /\ mapped = IF response_.mmFile_ = NoFile THEN {}
                ELSE {[file |-> response_.mmFile_, length |-> response_.mmFileStat_]}
    /\ \A i \in DOMAIN srcFds : Files[srcFds[i]].size = 0
=============================================================================
