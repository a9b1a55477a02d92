--------------------------- MODULE HttpResponse ----------------------------
(***************************************************************************)
(* http/httpresponse.cpp: which file or message answers a request, and     *)
(* what becomes of the mapping and the descriptor of the file.  A body is  *)
(* a sequence of parts, each a file's path or the name of a message, and   *)
(* Content-length is the part whose length it states.                      *)
(***************************************************************************)
EXTENDS Integers, Sequences

CONSTANT Files      \* Files[path]: [dir, others (S_IROTH), size]; external

NoFile == ""

\* The pages of the errors are there.
ASSUME FilesAssumption ==
    /\ NoFile \notin DOMAIN Files
    /\ \A path \in DOMAIN Files : Files[path].size \in Nat
    /\ \A path \in {"/403.html", "/404.html"} : path \in DOMAIN Files /\ Files[path].size > 0

CODE_PATH(code) ==
    CASE code = 400 -> "/400.html" [] code = 403 -> "/403.html" [] code = 404 -> "/404.html"

\* The members; mmFileStat_ is the path it was read from.  granted says whether
\* the system lets the server open the file: it may have no descriptor left, or no
\* permission.
NoResponse ==
    [code_ |-> -1, path_ |-> NoFile, isKeepAlive_ |-> FALSE,
     mmFile_ |-> NoFile, mmFileStat_ |-> NoFile,
     is_js_ |-> FALSE, is_js_success_ |-> FALSE, is_download_ |-> FALSE, granted |-> FALSE]

Unset == -1

----------------------------------------------------------------------------
(* Init.                                                                   *)

\* Bugs for comparison: the code, or the file, of the last response stays.
Init_keeps_code(r, path, isKeepAlive, is_js, is_js_success, is_download, granted) ==
    [r EXCEPT !.path_ = path, !.isKeepAlive_ = isKeepAlive, !.granted = granted,
              !.mmFile_ = NoFile, !.mmFileStat_ = NoFile,
              !.is_js_ = is_js, !.is_js_success_ = is_js_success, !.is_download_ = is_download]

Init_keeps_file(r, path, isKeepAlive, is_js, is_js_success, is_download, granted) ==
    [r EXCEPT !.path_ = path, !.isKeepAlive_ = isKeepAlive, !.granted = granted,
              !.code_ = Unset, !.mmFileStat_ = NoFile,
              !.is_js_ = is_js, !.is_js_success_ = is_js_success, !.is_download_ = is_download]

InitResponse(r, path, isKeepAlive, is_js, is_js_success, is_download, granted) ==
    [code_ |-> Unset, path_ |-> path, isKeepAlive_ |-> isKeepAlive,
     mmFile_ |-> NoFile, mmFileStat_ |-> NoFile,
     is_js_ |-> is_js, is_js_success_ |-> is_js_success, is_download_ |-> is_download,
     granted |-> granted]

\* A bug for comparison: Init clears the length before UnmapFile uses it.
UnmapFile_late(r, mapped) == mapped

\* UnmapFile, called by Init before it clears mmFileStat_, which has the length.
UnmapFile(r, mapped) ==
    IF r.mmFile_ = NoFile THEN mapped ELSE mapped \ {[file |-> r.mmFile_, length |-> r.mmFileStat_]}

----------------------------------------------------------------------------
(* MakeResponse.                                                           *)

Stat(path, before) == IF path \in DOMAIN Files THEN path ELSE before

\* stat() of the file asked for decides the code.
Judged(r) ==
    LET known == r.path_ \in DOMAIN Files IN
    [r EXCEPT !.mmFileStat_ = Stat(r.path_, @),
              !.code_ = IF ~known \/ (known /\ Files[r.path_].dir) THEN 404
                        ELSE IF ~Files[r.path_].others THEN 403
                        ELSE IF @ = Unset THEN 200 ELSE @]

\* An error is answered with its page.
ErrorHtml_(r) ==
    IF r.code_ \in {400, 403, 404}
    THEN [r EXCEPT !.path_ = CODE_PATH(r.code_),
                   !.mmFileStat_ = Stat(CODE_PATH(r.code_), @)]
    ELSE r

\* AddContent_: is the file opened, and is it mapped?  An empty one cannot be, and
\* neither can a length that is not known.
Opens(r) == ~r.is_js_ /\ r.path_ \in DOMAIN Files /\ r.granted
Maps(r) == Opens(r) /\ r.mmFileStat_ # NoFile /\ Files[r.mmFileStat_].size > 0

\* The members after MakeResponse.
Made(r) ==
    LET e == ErrorHtml_(Judged(r)) IN [e EXCEPT !.mmFile_ = IF Maps(e) THEN e.path_ ELSE @]

\* The message MakeResponse puts into the body itself, and whose length it states.
Message(r) ==
    IF r.is_js_ THEN (IF r.is_js_success_ THEN "success: true" ELSE "success: false")
    ELSE IF Opens(r) THEN "File NotFound!" ELSE "FileFound!"

\* What is written for the response r, made: onmessage adds the mapped file.
Written(r) ==
    [code |-> r.code_,
     says_keep_alive |-> r.isKeepAlive_,
     typed |-> r.is_js_ \/ ~r.is_download_,     \* "/r/n" hides the next header
     stated |-> IF Maps(r) THEN r.mmFileStat_ ELSE Message(r),
     body |-> (IF Maps(r) THEN <<>> ELSE <<Message(r)>>)
                  \o (IF r.mmFile_ # NoFile THEN <<r.mmFile_>> ELSE <<>>)]

\* A descriptor that AddContent_ opens and does not close: mmap has failed.
LeftOpen(r) == IF Opens(r) /\ ~Maps(r) THEN <<r.path_>> ELSE <<>>
=============================================================================
