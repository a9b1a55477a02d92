----------------------------- MODULE FormData -----------------------------
(***************************************************************************)
(* The decoding of a form in http/httprequest.cpp: a body of the type      *)
(* application/x-www-form-urlencoded becomes the map post_.  Strings are   *)
(* sequences of characters.                                                *)
(***************************************************************************)
EXTENDS Integers, Sequences, FiniteSetsExt

CONSTANT CodeOf     \* CodeOf[c]: the code of a character a field may hold

ASSUME CodesAssumption ==
    /\ \A c \in DOMAIN CodeOf : CodeOf[c] \in 0 .. 255
    /\ \A c, d \in DOMAIN CodeOf : CodeOf[c] = CodeOf[d] => c = d

HexDigits == <<"0", "1", "2", "3", "4", "5", "6", "7", "8", "9", "A", "B", "C", "D", "E", "F">>

IsHex(c) == \E i \in DOMAIN HexDigits : HexDigits[i] = c

Digit(c) == (CHOOSE i \in DOMAIN HexDigits : HexDigits[i] = c) - 1

\* sscanf with %x on the two characters after a percent sign: it is content with
\* one digit.  No client of this model sends lower-case digits or a sign.
Scanned(c, d) == IF IsHex(d) THEN 16 * Digit(c) + Digit(d) ELSE Digit(c)

Decoded(c, d) == CHOOSE ch \in DOMAIN CodeOf : CodeOf[ch] = Scanned(c, d)

\* One round of the loop of urlDecode; "ahead" characters must follow a percent sign.
DecodeRound(str, loop, ahead) ==
    LET i == loop.i IN
    IF i > Len(str) THEN loop
    ELSE IF str[i] = "%" /\ i + ahead <= Len(str) /\ IsHex(str[i + 1])
    THEN [i |-> i + 3, result |-> Append(loop.result, Decoded(str[i + 1], str[i + 2]))]
    ELSE [i |-> i + 1, result |-> Append(loop.result, IF str[i] = "+" THEN " " ELSE str[i])]

Decode(str, ahead) ==
    LET after[k \in 0 .. Len(str)] ==
          IF k = 0 THEN [i |-> 1, result |-> <<>>] ELSE DecodeRound(str, after[k - 1], ahead)
    IN  after[Len(str)].result

\* A bug for comparison: an escape at the end of the string is not seen.
urlDecode_short(str) == Decode(str, 3)

urlDecode(str) == Decode(str, 2)

\* The place of the first c from start on, or one past the end.
Find(str, c, start) ==
    LET places == {i \in start .. Len(str) : str[i] = c}
    IN  IF places = {} THEN Len(str) + 1 ELSE Min(places)

\* post_[key] = value
With(post, key, value) ==
    [k \in DOMAIN post \union {key} |-> IF k = key THEN value ELSE post[k]]

\* One round of the loop over the fields.  A segment without an equals sign is
\* skipped; of two equal keys the last counts.
FieldRound(body, loop) ==
    LET start == loop.start
        end == Find(body, "&", start)
        equal == Find(body, "=", start)
        key == urlDecode(SubSeq(body, start, equal - 1))
        value == urlDecode(SubSeq(body, equal + 1, end - 1))
    IN  IF start > Len(body) THEN loop
        ELSE [start |-> end + 1,
              post |-> IF equal >= end THEN loop.post ELSE With(loop.post, key, value)]

ParseFromUrlencoded_(body) ==
    LET after[k \in 0 .. Len(body)] ==
          IF k = 0 THEN [start |-> 1, post |-> <<>>] ELSE FieldRound(body, after[k - 1])
    IN  after[Len(body)].post
=============================================================================
