---------------------------- MODULE HttpRequest ----------------------------
(***************************************************************************)
(* The parser of http/httprequest.cpp as an operator on the buffer it      *)
(* reads from.  A byte is CR, LF or a token that stands for the rest of a  *)
(* line (a request line, a header) or for a character of a body.  JSON is  *)
(* left to the library that reads it.                                      *)
(***************************************************************************)
EXTENDS BufferBlock, FormData

CONSTANTS
    Lines,              \* Lines[l]: the [method, path, version] of a request line
    Headers,            \* Headers[h]: the name of a well-formed header
    KeepAlive, Close,   \* the headers "Connection: keep-alive" and "close"
    Form, Json,         \* the headers "Content-Type" of a form and of JSON
    Username, Password, \* the names of the fields of login.html
    Named,              \* Named[body]: the path /<folder>/<fileName> of a JSON body
    MaxString           \* longest std::string

CR == "\r"
LF == "\n"

\* The rest of a line has no CR in it.
ASSUME TokensAssumption == CR \notin DOMAIN Lines \union DOMAIN Headers /\ MaxString \in Nat

ASSUME NamesAssumption ==
    /\ {KeepAlive, Close, Form, Json} \subseteq DOMAIN Headers
    /\ Headers[KeepAlive] = Headers[Close] /\ KeepAlive # Close

\* HttpRequest::Init; line_ is what method_ and version_ are read from, and file_
\* what the fields of a JSON body, which post_ holds too, say of a file.
Fresh ==
    [state_ |-> "REQUEST_LINE", line_ |-> <<>>, path_ |-> "", header_ |-> {}, body_ |-> <<>>,
     post_ |-> <<>>, file_ |-> "//",
     return_js_ |-> FALSE, is_success_js_ |-> FALSE, is_download_ |-> FALSE]

Method(request) == Lines[request.line_[1]].method

----------------------------------------------------------------------------
(* readLine                                                                *)

\* What readLine has found when it has read c, the i-th byte.
ReadByte(found, c, i) ==
    IF found.consumed # 0 THEN found
    ELSE IF found.state = "READING" /\ c = CR THEN [found EXCEPT !.state = "FOUND_CR"]
    ELSE IF found.state = "FOUND_CR" /\ c = LF THEN [found EXCEPT !.consumed = i]
    ELSE [state |-> "READING", line |-> Append(found.line, c), consumed |-> 0]

\* The line up to the first LF that follows a CR, and the number of bytes it
\* takes with its end, 0 if it has none.  A CR inside it is dropped.
readLine(s) ==
    LET after[i \in 0 .. Len(s)] ==
          IF i = 0 THEN [state |-> "READING", line |-> <<>>, consumed |-> 0]
          ELSE ReadByte(after[i - 1], s[i], i)
    IN  after[Len(s)]

\* read_pos_ is beyond the first block: what is read there is not the buffer's.
Overrun(b) == b.blocks_ # <<>> /\ b.read_pos_ > Size(b.blocks_[1])

----------------------------------------------------------------------------
(* parse                                                                   *)

ParseRequestLine_(line) == Len(line) = 1 /\ line[1] \in DOMAIN Lines

DEFAULT_HTML == {"/index", "/register", "/login", "/welcome", "/video", "/picture"}

ParsePath_(path) ==
    IF path = "/" THEN "/welcome.html"
    ELSE IF path \in DEFAULT_HTML THEN path \o ".html" ELSE path

\* What the request line changes.
WithLine(request, line) ==
    [request EXCEPT !.state_ = "HEADERS", !.line_ = line, !.path_ = ParsePath_(Lines[line[1]].path)]

\* header_[name] = value takes the place of an earlier header of the same name.
Replaces(header_, x) == {h \in header_ : Headers[h] # Headers[x]} \union {x}

\* A header is stored, any other line ends the headers.
ParseHeader_(request, line) ==
    IF Len(line) = 1 /\ line[1] \in DOMAIN Headers
    THEN [request EXCEPT !.header_ = Replaces(@, line[1])]
    ELSE [request EXCEPT !.state_ = "BODY"]

\* Does the path contain "/download"?
ForDownload(request) == request.path_ = "/download"

ParseDownload_(request, line) ==
    IF line \in DOMAIN Named THEN [request EXCEPT !.file_ = Named[line]] ELSE request

\* post_[key] adds a field that is asked for and is not there.
Asked(fields) ==
    [key \in DOMAIN fields \union {Username, Password} |->
        IF key \in DOMAIN fields THEN fields[key] ELSE <<>>]

\* Any form is decoded; that of the login or the register page goes to
\* HandleUserCommand, which asks for two fields.
ParsePost_(request) ==
    LET fields == ParseFromUrlencoded_(request.body_)
    IN  IF Method(request) # "POST" \/ Form \notin request.header_ THEN request
        ELSE IF request.path_ \notin {"/register.html", "/login.html"}
        THEN [request EXCEPT !.post_ = fields]
        ELSE [request EXCEPT !.post_ = Asked(fields),
                             !.return_js_ = TRUE]

\* All that is readable is the body.
ParseBody_(request, line) ==
    LET parsed == [request EXCEPT !.body_ = line, !.state_ = "FINISH"]
    IN  IF ForDownload(request) /\ Json \in request.header_
        THEN ParseDownload_(parsed, line)
        ELSE ParsePost_(parsed)

\* What is_success_js_ may become: UserDao decides.
HandleUserCommand(request) == IF request.return_js_ THEN BOOLEAN ELSE {FALSE}

\* A bug for comparison: a line that is no header always ends the request.
AfterHeaderEager(request, line, readable) ==
    LET parsed == ParseHeader_(request, line)
    IN  IF parsed.state_ = "BODY" THEN [parsed EXCEPT !.state_ = "FINISH"] ELSE parsed

\* The request is taken for complete if the line being parsed is all there is, or
\* no more than a blank line is.
AfterHeader(request, line, readable) ==
    LET parsed == ParseHeader_(request, line)
    IN  IF readable <= 2 THEN [parsed EXCEPT !.state_ = "FINISH"] ELSE parsed

\* A bug for comparison: the version is forgotten.
IsKeepAliveHeader(request) == KeepAlive \in request.header_

\* The header Connection decides, without it the version does; a request_ that
\* was just initialised has neither.
IsKeepAlive(request) ==
    /\ Close \notin request.header_
    /\ \/ KeepAlive \in request.header_
       \/ request.line_ # <<>> /\ Lines[request.line_[1]].version = "1.1"

\* The loop of parse(), and what it ends with once "result" says how.
Loop(result, buf, request) == [result |-> result, buf |-> buf, request |-> request]

\* One round; start_pos is read_pos_ when parse() was called.
ParseRound(loop, start_pos) ==
    LET buf == loop.buf
        request == loop.request
        found == readLine(Content(buf))
        goOn(r) == Loop("going", consumeBytes(buf, found.consumed), r)
    IN  IF loop.result # "going" THEN loop
        ELSE IF readableBytes(buf) = 0 \/ request.state_ = "FINISH"
        THEN Loop("true", buf, request)
        ELSE IF Overrun(buf)
        THEN Loop("overrun", buf, request)
        ELSE IF request.state_ = "BODY"
        THEN \* bufferToString(), as long as readableBytes() says
             IF readableBytes(buf) > MaxString
             THEN Loop("throws", buf, request)
             ELSE Loop("going", consumeBytes(buf, readableBytes(buf)),
                       ParseBody_(request, peekFromBlock(buf, readableBytes(buf))))
        ELSE IF found.consumed = 0
        THEN Loop("false", [buf EXCEPT !.read_pos_ = start_pos], request)
        ELSE IF request.state_ = "REQUEST_LINE"
        THEN IF ParseRequestLine_(found.line)
             THEN goOn(WithLine(request, found.line))
             ELSE Loop("false", buf, request)
        ELSE goOn(AfterHeader(request, found.line, readableBytes(buf)))

\* Every round but the last consumes something.
parse(buf, request) ==
    LET after[k \in 0 .. readableBytes(buf) + 1] ==
          IF k = 0 THEN Loop("going", buf, request) ELSE ParseRound(after[k - 1], buf.read_pos_)
    IN  IF readableBytes(buf) = 0 THEN Loop("false", buf, request)
        ELSE after[readableBytes(buf) + 1]
=============================================================================
