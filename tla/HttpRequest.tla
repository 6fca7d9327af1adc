---------------------------- MODULE HttpRequest ----------------------------
(***************************************************************************)
(* How the gateway reads a request (httplib.h): the buffered stream above  *)
(* the socket, lines, request line, headers and content, and the handler   *)
(* that the request goes to.  The network delivers the bytes of a request  *)
(* in pieces of any size, and no read knows where the next part begins.    *)
(*                                                                         *)
(* A text is a sequence of characters; a name in which nothing is looked   *)
(* for counts as one character.  Not in here, since the Qt client never    *)
(* asks for it: chunked, compressed and multipart contents, contents       *)
(* without length, ranges, "Expect", "%u" and "+" as escapes, and the      *)
(* limits on the length of a header and of a target.                       *)
(***************************************************************************)
EXTENDS Integers, SequencesExt

CONSTANTS
    Requests,    \* what clients ask for: [op, id, token, body]
    ReadBuffer,  \* read_buff_size_
    RecvBuffer,  \* CPPHTTPLIB_RECV_BUFSIZ
    MaxLine,     \* CPPHTTPLIB_MAX_LINE_LENGTH
    MaxHeaders   \* CPPHTTPLIB_HEADER_MAX_COUNT

ASSUME BuffersAssumption == {ReadBuffer, RecvBuffer} \subseteq Nat \ {0}
ASSUME LimitsAssumption == {MaxLine, MaxHeaders} \subseteq Nat

CR == "\r"
LF == "\n"
Space == " "
Crlf == <<CR, LF>>

Least(a, b) == IF a < b THEN a ELSE b

\* From character i on.
From(text, i) == SubSeq(text, i, Len(text))

\* A loop of so many rounds, which leave what they find when there is nothing to do.
Loop(start, Round(_), rounds) ==
    LET after[n \in 0 .. rounds] == IF n = 0 THEN start ELSE Round(after[n - 1])
    IN  after[rounds]

-----------------------------------------------------------------------------
(***************************************************************************)
(* Texts.                                                                  *)
(***************************************************************************)
HexDigits == <<"0", "1", "2", "3", "4", "5", "6", "7", "8", "9", "A", "B", "C", "D", "E", "F">>
LowerDigits == <<"a", "b", "c", "d", "e", "f">>
DecimalDigits == {HexDigits[v] : v \in 1 .. 10}

\* The characters that requests have escaped, by code.
Character == [code \in {32, 37, 47, 58} |->
    CASE code = 32 -> Space [] code = 37 -> "%" [] code = 47 -> "/" [] code = 58 -> ":"]

IsHex(c) == c \in Range(HexDigits) \union Range(LowerDigits)

HexValue(c) ==
    CHOOSE v \in 0 .. 15 : HexDigits[v + 1] = c \/ (v > 9 /\ LowerDigits[v - 9] = c)

\* A "%" with two digits behind it, at character i.
Escaped(text, i) ==
    /\ text[i] = "%" /\ i + 2 <= Len(text)
    /\ IsHex(text[i + 1]) /\ IsHex(text[i + 2])

\* from_hex_to_i
FromHex(text, i) == 16 * HexValue(text[i]) + HexValue(text[i + 1])

\* decode_path_component, decode_query_component: once, from left to right.
DecodeNext(r) ==
    IF r.at > Len(r.text) THEN r
    ELSE IF Escaped(r.text, r.at)
    THEN [text |-> r.text, at |-> r.at + 3, done |-> Append(r.done, Character[FromHex(r.text, r.at + 1)])]
    ELSE [text |-> r.text, at |-> r.at + 1, done |-> Append(r.done, r.text[r.at])]

Decode(text) == Loop([text |-> text, at |-> 1, done |-> <<>>], DecodeNext, Len(text)).done

\* With one more part; an empty one may not count.
Added(parts, part, empty) == IF part = <<>> /\ ~empty THEN parts ELSE Append(parts, part)

\* A separator ends a part.
PartsNext(r, c, sep, empty) ==
    IF c = sep THEN [done |-> Added(r.done, r.part, empty), part |-> <<>>]
    ELSE [done |-> r.done, part |-> Append(r.part, c)]

\* The texts between the separators.
Parts(text, sep, empty) ==
    LET first[n \in 0 .. Len(text)] ==
            IF n = 0 THEN [done |-> <<>>, part |-> <<>>]
            ELSE PartsNext(first[n - 1], text[n], sep, empty)
    IN  Added(first[Len(text)].done, first[Len(text)].part, empty)

Fields(text, sep) == Parts(text, sep, TRUE)

\* split: the ones that are not empty.
Split(text, sep) == Parts(text, sep, FALSE)

\* divide: before the first separator and after it.
Divide(text, sep) ==
    LET i == SelectInSeq(text, LAMBDA c : c = sep)
    IN  IF i = 0 THEN <<text, <<>>>> ELSE <<SubSeq(text, 1, i - 1), From(text, i + 1)>>

Number(text) ==
    LET first[k \in 0 .. Len(text)] ==
            IF k = 0 THEN 0 ELSE 10 * first[k - 1] + HexValue(text[k])
    IN  first[Len(text)]

-----------------------------------------------------------------------------
(***************************************************************************)
(* The stream: what was read ahead, and the pieces that arrive.  No answer *)
(* to a read is to wait until the time is over.                            *)
(***************************************************************************)
\* read_socket: some of the piece that has arrived.
Arrived(net, size) == SubSeq(Head(net), 1, Least(size, Len(Head(net))))

Behind(net, size) ==
    IF size >= Len(Head(net)) THEN Tail(net) ELSE <<From(Head(net), size + 1)>> \o Tail(net)

\* SocketStream::read: nothing is received as long as something was read ahead.
Filled(s, size) ==
    LET room == IF size < ReadBuffer THEN ReadBuffer ELSE size
    IN  IF s.buf # <<>> \/ s.net = <<>> THEN s
        ELSE [buf |-> Arrived(s.net, room), net |-> Behind(s.net, room)]

Recv(s, size) ==
    LET f == Filled(s, size)
    IN  [got |-> SubSeq(f.buf, 1, Least(size, Len(f.buf))),
         s |-> [buf |-> From(f.buf, size + 1), net |-> f.net]]

\* stream_line_reader: one character after the other, on as long as the line is open.
EndsWithCrlf(text) == Len(text) >= 2 /\ From(text, Len(text) - 1) = Crlf

ReadCharacter(r) ==
    LET one == Recv(r.s, 1)
        text == r.text \o one.got
    IN  IF ~r.on THEN r
        ELSE [s |-> one.s, text |-> text, on |-> one.got # <<>> /\ ~EndsWithCrlf(text)]

GetLine(s) ==
    LET r == Loop([s |-> s, text |-> <<>>, on |-> TRUE], ReadCharacter, MaxLine)
    IN  [s |-> r.s, text |-> r.text, ok |-> EndsWithCrlf(r.text)]

\* Without its end.
Line(text) == SubSeq(text, 1, Len(text) - 2)

-----------------------------------------------------------------------------
(***************************************************************************)
(* The parts of a request.                                                 *)
(***************************************************************************)
Methods == {"GET", "HEAD", "POST", "PUT", "DELETE", "CONNECT", "OPTIONS", "TRACE", "PATCH", "PRI"}
Versions == {"HTTP/1.1", "HTTP/1.0"}

Params(query) ==
    {<<Decode(Divide(kv, "=")[1]), Decode(Divide(kv, "=")[2])>> :
         kv \in {f \in Range(Split(query, "&")) : Divide(f, "=")[1] # <<>>}}

\* parse_request_line: three words; the path ends at a "?" and is decoded then.
ParseRequestLine(line) ==
    LET words == Split(Line(line), Space)
        target == Divide(words[2], "#")[1]
    IN  IF Len(words) = 3 /\ words[1][1] \in Methods /\ words[3][1] \in Versions
        THEN [ok |-> TRUE, method |-> words[1][1], path |-> Decode(Divide(target, "?")[1]),
              params |-> Params(Divide(target, "?")[2])]
        ELSE [ok |-> FALSE]

\* Without the spaces before it.
Unspaced(text) ==
    LET i == SelectInSeq(text, LAMBDA c : c # Space)
    IN  IF i = 0 THEN <<>> ELSE From(text, i)

Verbatim == {<<"Location">>, <<"Referer">>}

\* parse_header: the name ends at the first ":".
ParseHeader(text) ==
    LET name == Divide(text, ":")[1]
        value == Unspaced(Divide(text, ":")[2])
    IN  [ok |-> name # <<>> /\ name # text, name |-> name,
         value |-> IF name \in Verbatim THEN value ELSE Decode(value)]

\* read_headers: lines up to a blank one, which is the line after the last header
\* at the latest.
ReadHeader(r) ==
    LET line == GetLine(r.s)
        header == ParseHeader(Line(line.text))
        blank == line.ok /\ line.text = Crlf
        more == line.ok /\ ~blank /\ header.ok
    IN  IF ~r.on THEN r
        ELSE [s |-> line.s, on |-> more, ok |-> blank,
              headers |-> IF more THEN Append(r.headers, header) ELSE r.headers]

ReadHeaders(s) ==
    Loop([s |-> s, on |-> TRUE, ok |-> FALSE, headers |-> <<>>], ReadHeader, MaxHeaders + 1)

HasHeader(headers, name) == \E h \in Range(headers) : h.name = <<name>>

\* The first of that name.
HeaderValue(headers, name) ==
    LET i == SelectInSeq(headers, LAMBDA h : h.name = <<name>>)
    IN  IF i = 0 THEN <<>> ELSE headers[i].value

ContentLength(headers) == Number(HeaderValue(headers, "Content-Length"))

\* Mutant: what a read returns is taken for all that was asked for.
ReadAssumed(r) ==
    LET size == Least(r.left, RecvBuffer)
        some == Recv(r.s, size)
    IN  IF r.left = 0 \/ some.got = <<>> THEN r
        ELSE [s |-> some.s, left |-> r.left - size, body |-> r.body \o some.got]

\* read_content_with_length: some of the characters that are missing.
ReadSome(r) ==
    LET some == Recv(r.s, Least(r.left, RecvBuffer))
    IN  IF r.left = 0 \/ some.got = <<>> THEN r
        ELSE [s |-> some.s, left |-> r.left - Len(some.got), body |-> r.body \o some.got]

Content(s, len) ==
    LET r == Loop([s |-> s, left |-> len, body |-> <<>>], ReadSome, len)
    IN  [ok |-> r.left = 0, body |-> r.body, s |-> r.s]

ExpectContent(method, headers) ==
    \/ method \in {"POST", "PUT", "PATCH", "DELETE"}
    \/ ContentLength(headers) > 0

\* detail::read_content: the length must be a number.
ReadContent(s, headers) ==
    LET length == HeaderValue(headers, "Content-Length")
    IN  IF length # <<>> /\ length \in Seq(DecimalDigits)
        THEN Content(s, Number(length))
        ELSE [ok |-> FALSE, body |-> <<>>, s |-> s]

\* Server::read_content: a DELETE without a length has no content.
RequestContent(s, method, headers) ==
    IF ~ExpectContent(method, headers) \/ (method = "DELETE" /\ ~HasHeader(headers, "Content-Length"))
    THEN [ok |-> TRUE, body |-> <<>>, s |-> s]
    ELSE ReadContent(s, headers)

-----------------------------------------------------------------------------
(***************************************************************************)
(* The gateway's handlers.  A pattern is what its parts between slashes    *)
(* must be.                                                                *)
(***************************************************************************)
Word(w) == [kind |-> "word", word |-> w]
Digits == [kind |-> "digits", word |-> ""]      \* (\d+)
NoSlash == [kind |-> "noslash", word |-> ""]            \* ([^/]+)

Route(method, pattern, op) == [method |-> method, pattern |-> pattern, op |-> op]

\* In the order in which main registers them.
Routes == <<
    Route("GET", <<Word("health")>>, "health"),
    Route("GET", <<Word("me")>>, "me"),
    Route("GET", <<Word("users")>>, "users"),
    Route("DELETE", <<Word("users"), Digits>>, "deleteUser"),
    Route("POST", <<Word("login")>>, "login"),
    Route("POST", <<Word("refresh")>>, "refresh"),
    Route("POST", <<Word("logout")>>, "logout"),
    Route("POST", <<Word("register")>>, "register"),
    Route("GET", <<Word("conversations")>>, "conversations"),
    Route("GET", <<Word("conversations"), NoSlash, Word("messages")>>, "history"),
    Route("POST", <<Word("conversations"), NoSlash, Word("messages")>>, "send"),
    Route("GET", <<Word("rooms")>>, "rooms"),
    Route("POST", <<Word("rooms")>>, "createRoom"),
    Route("DELETE", <<Word("rooms"), NoSlash>>, "deleteRoom")>>

Fits(part, p) ==
    /\ part # <<>>
    /\ p.kind = "word" => part = <<p.word>>
    /\ p.kind = "digits" => Range(part) \subseteq DecimalDigits

\* regex_match: the whole path.
Matches(path, pattern) ==
    LET parts == Fields(path, "/")
    IN  /\ parts[1] = <<>> /\ Len(parts) = Len(pattern) + 1
        /\ \A i \in DOMAIN pattern : Fits(parts[i + 1], pattern[i])

\* req.matches[1]
Captured(path, pattern) ==
    LET i == SelectInSeq(pattern, LAMBDA p : p.kind # "word")
    IN  IF i = 0 THEN <<>> ELSE Fields(path, "/")[i + 1]

\* dispatch_request: the first one.  0 is none.
Dispatch(method, path) ==
    SelectInSeq(Routes, LAMBDA r :
        r.method = (IF method = "HEAD" THEN "GET" ELSE method) /\ Matches(path, r.pattern))

\* get_bearer_token
BearerToken(headers) ==
    LET value == HeaderValue(headers, "Authorization")
    IN  IF Len(value) > 2 /\ SubSeq(value, 1, 2) = <<"Bearer", Space>> THEN From(value, 3) ELSE <<>>

Limit(params) ==
    IF \E kv \in params : kv[1] = <<"limit">>
    THEN LET n == Number((CHOOSE kv \in params : kv[1] = <<"limit">>)[2])
         IN  IF n < 1 THEN 1 ELSE Least(n, 500)
    ELSE 50

Failed == [ok |-> FALSE]

\* process_request on a stream of its own: what the handler sees, and whether
\* something is left in the stream behind the request.
Serve(pieces) ==
    LET line == GetLine([buf |-> <<>>, net |-> pieces])
        first == ParseRequestLine(line.text)
        head == ReadHeaders(line.s)
        content == RequestContent(head.s, first.method, head.headers)
        i == Dispatch(first.method, first.path)
    IN  IF line.ok /\ first.ok /\ head.ok /\ content.ok /\ i # 0
        THEN [ok |-> TRUE, op |-> Routes[i].op, id |-> Captured(first.path, Routes[i].pattern),
              token |-> BearerToken(head.headers), limit |-> Limit(first.params),
              body |-> content.body, unread |-> content.s.buf # <<>> \/ content.s.net # <<>>]
        ELSE Failed

-----------------------------------------------------------------------------
(***************************************************************************)
(* What the client's QNetworkAccessManager writes: an id as it is or with  *)
(* its characters escaped, a length with every POST, and with a DELETE or  *)
(* not.                                                                    *)
(***************************************************************************)
Spelled(n) ==
    LET spelled[m \in 0 .. n] ==
            IF m < 10 THEN <<HexDigits[m + 1]>> ELSE Append(spelled[m \div 10], HexDigits[(m % 10) + 1])
    IN  spelled[n]

Method(op) ==
    CASE op \in {"me", "users", "history", "rooms"} -> "GET"
      [] op \in {"deleteUser", "deleteRoom"} -> "DELETE"
      [] OTHER -> "POST"

Target(op, id) ==
    CASE op = "deleteUser" -> <<"/", "users", "/">> \o id
      [] op = "deleteRoom" -> <<"/", "rooms", "/">> \o id
      [] op = "send" -> <<"/", "conversations", "/">> \o id \o <<"/", "messages">>
      [] op = "history" ->
            <<"/", "conversations", "/">> \o id \o <<"/", "messages", "?", "limit", "=", "2", "0", "0">>
      [] op = "createRoom" -> <<"/", "rooms">>
      [] OTHER -> <<"/", op>>

\* A colon may be escaped.
Spelling(c) == IF c = ":" THEN {<<":">>, <<"%", "3", "A">>, <<"%", "3", "a">>} ELSE {<<c>>}

Spelt(texts, c) == {text \o x : text \in texts, x \in Spelling(c)}

Spellings(id) ==
    LET first[n \in 0 .. Len(id)] == IF n = 0 THEN {<<>>} ELSE Spelt(first[n - 1], id[n])
    IN  first[Len(id)]

Header(name, value) == <<name, ":", Space>> \o value \o Crlf

Written(r, id, sized) ==
    <<Method(r.op), Space>> \o Target(r.op, id) \o <<Space, "HTTP/1.1">> \o Crlf
        \o Header("Host", <<"gateway", ":", "8080">>)
        \o Header("Content-Type", <<"application/json">>)
        \o (IF r.token = <<>> THEN <<>> ELSE Header("Authorization", <<"Bearer", Space>> \o r.token))
        \o (IF sized THEN Header("Content-Length", Spelled(Len(r.body))) ELSE <<>>)
        \o Crlf \o r.body

\* GET without, POST with a length.
Sized(op) ==
    CASE Method(op) = "GET" -> {FALSE} [] Method(op) = "POST" -> {TRUE} [] OTHER -> BOOLEAN

WireTexts(r) == {Written(r, id, sized) : id \in Spellings(r.id), sized \in Sized(r.op)}

\* The client's requests: an id of the server's where the operation has one, a token and
\* an id in which nothing separates, and within the limits on lines and headers.
Sendable(r) ==
    /\ r.op \in {"me", "users", "history", "rooms", "deleteUser", "deleteRoom", "send", "createRoom",
                 "login", "refresh", "logout", "register"}
    /\ {r.id, r.token, r.body} \subseteq Seq(STRING)
    /\ r.id # <<>> <=> r.op \in {"history", "send", "deleteUser", "deleteRoom"}
    /\ Range(r.id) \intersect {"/", "?", "#", "%", Space, LF} = {}
    /\ r.op = "deleteUser" => Range(r.id) \subseteq DecimalDigits
    /\ Range(r.token) \intersect {"%", LF} = {}
    /\ Method(r.op) # "POST" => r.body = <<>>
    /\ \A id \in Spellings(r.id) : Len(Target(r.op, id)) + 6 <= MaxLine
    /\ MaxLine >= 8 /\ MaxHeaders >= 4
    /\ Len(r.token) + 7 <= MaxLine /\ Len(Spelled(Len(r.body))) + 5 <= MaxLine

ASSUME RequestsAssumption == \A r \in Requests : Sendable(r)

\* The pieces it may arrive in: up to three, or of the same size.
Pieces(text) ==
    LET n == Len(text)
        Part(i, j) == IF i < j THEN <<SubSeq(text, i + 1, j)>> ELSE <<>>
    IN  (UNION {{Part(0, i) \o Part(i, j) \o Part(j, n) : i \in 0 .. j} : j \in 0 .. n})
        \union {[k \in 1 .. (n + size - 1) \div size |->
                     SubSeq(text, size * (k - 1) + 1, Least(size * k, n))] : size \in 1 .. n}

\* What the client means.
Meant(r) ==
    [ok |-> TRUE, op |-> r.op, id |-> r.id, token |-> r.token,
     limit |-> IF r.op = "history" THEN 200 ELSE 50, body |-> r.body, unread |-> FALSE]

\* However it is spelled and cut into pieces.
ServedAsMeant ==
    \A r \in Requests : \A text \in WireTexts(r) : \A pieces \in Pieces(text) : Serve(pieces) = Meant(r)

=============================================================================
