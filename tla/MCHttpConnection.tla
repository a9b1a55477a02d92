------------------------- MODULE MCHttpConnection --------------------------
(* Instances of HttpConnection: requests with and without a body, that ask *)
(* to keep the connection or to close it, with a header or by the version, *)
(* for a file, a page that logs in, a file to download, and files that are *)
(* missing, empty or not for others.                                       *)
EXTENDS HttpConnection

MCLine(method, path, version) == [method |-> method, path |-> path, version |-> version]

MCLines ==
    [l \in {"page", "old page", "empty", "secret", "missing", "login", "download"} |->
        CASE l = "page"     -> MCLine("GET", "/", "1.1")
          [] l = "old page" -> MCLine("GET", "/login", "1.0")
          [] l = "empty"    -> MCLine("GET", "/empty.txt", "1.1")
          [] l = "secret"   -> MCLine("GET", "/secret.txt", "1.1")
          [] l = "missing"  -> MCLine("GET", "/missing.txt", "1.1")
          [] l = "login"    -> MCLine("POST", "/login", "1.1")
          [] l = "download" -> MCLine("POST", "/download", "1.1")]

\* Headers with their names.
MCHeaders ==
    [h \in {"keep-alive", "close", "Host", "form", "json"} |->
        IF h \in {"keep-alive", "close"} THEN "Connection"
        ELSE IF h \in {"form", "json"} THEN "Content-Type" ELSE h]

MCNamed == [body \in {<<"x">>} |-> "/images/a.png"]

File(others, size) == [dir |-> FALSE, others |-> others, size |-> size]

MCFiles ==
    [path \in {"/welcome.html", "/login.html", "/403.html", "/404.html", "/images/a.png"} |->
        File(TRUE, 2)]
    @@ [path \in {"/empty.txt"} |-> File(TRUE, 0)]
    @@ [path \in {"/secret.txt"} |-> File(FALSE, 2)]
    @@ [path \in {"//"} |-> [dir |-> TRUE, others |-> TRUE, size |-> 1]]

\* The characters fields are made of, with their ASCII codes.
MCCode ==
    [c \in {" ", "%", "&", "+", "=", "2", "p", "u"} |->
        CASE c = " " -> 32 [] c = "%" -> 37 [] c = "&" -> 38 [] c = "+" -> 43
          [] c = "=" -> 61 [] c = "2" -> 50
          [] c = "p" -> 112 [] c = "u" -> 117]

MCUsername == <<"u">>
MCPassword == <<"p">>

Request(line, headers, body) ==
    [line |-> line, headers |-> headers, fields |-> <<>>, body |-> body]

Field(key, value) == [key |-> key, value |-> value]

LoginForm(headers, username, password) ==
    [line |-> "login", headers |-> headers, body |-> <<>>,
     fields |-> <<Field(MCUsername, username), Field(MCPassword, password)>>]

MCMenu ==
    {Request("page", <<"Host">>, <<>>), Request("page", <<"keep-alive", "close">>, <<>>),
     Request("old page", <<"Host">>, <<>>), Request("old page", <<"close", "keep-alive">>, <<>>),
     Request("empty", <<"Host">>, <<>>), Request("secret", <<"Host">>, <<>>),
     Request("missing", <<"Host">>, <<>>),
     LoginForm(<<"form", "keep-alive">>, <<"%", "2", " ", "+">>, <<"&", "=">>),
     Request("login", <<"form", "close">>, <<"y">>),
     Request("download", <<"form", "json">>, <<"x">>), Request("download", <<"Host">>, <<"y">>)}

MCShortMenu ==
    {Request("page", <<"keep-alive">>, <<>>), Request("login", <<"form", "keep-alive">>, <<"x">>)}
=============================================================================
