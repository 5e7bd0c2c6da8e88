---------------------------- MODULE MCHttpRequest ---------------------------
(***************************************************************************)
(* Instances of HttpRequest for TLC.                                       *)
(***************************************************************************)
EXTENDS HttpRequest

Ask(method, path, query) ==
    [is |-> "request", method |-> method, path |-> path, query |-> query]
Length(sign, digits) == [is |-> "content-length", sign |-> sign, digits |-> digits]
Accept(ranges) == [is |-> "accept", ranges |-> ranges]
Other == [is |-> "text"]
Byte(i) == [is |-> "byte", i |-> i]

Param(name, value) == [name |-> name, value |-> value]
Queries == {<<>>, <<Param("other", <<>>)>>, <<Param("sessionId", <<>>)>>,
            <<Param("other", <<1>>), Param("sessionId", <<1>>)>>,
            <<Param("sessionId", <<1, 2, 3>>), Param("sessionId", <<2>>)>>}

Requests ==
    {Ask(m, q, <<>>) : m \in {"GET", "POST", "OPTIONS", "other"},
                       q \in {"/", "/mcp", "/sse", "/message", "other"}}
    \cup {Ask("POST", "/message", query) : query \in Queries}
    \cup {Other}

Line(text) == <<text, CR, LF>>

Lengths ==
    {Length("+", 2), Length("+", 1), Length("+", 0), Length("+", 3),
     Length("+", 9), Length("-", 7), Length("+", NoDigits)}
Accepts == {Accept(<<"sse">>), Accept(<<"json", "sse">>), Accept(<<"sse", "json">>),
            Accept(<<"*", "json", "sse">>)}
HeaderTexts == {Line(text) : text \in Lengths \cup Accepts \cup {Other}}

(* Lines with a CR or an LF by itself in them: at a CR that no LF follows  *)
(* the code stops looking at lines; an LF is a character like any other.   *)
OddTexts == {<<Other, CR>>, <<CR, Other>>, <<Length("+", 2), CR>>,
             <<Length("+", 1), LF>>, <<LF, Length("+", 1)>>}
OddLines == {text \o <<CR, LF>> : text \in OddTexts}

Body(n) == [i \in 1..n |-> Byte(i)]

(* Every request with few headers, and a POST with every two headers, of   *)
(* which one may be odd.                                                   *)
Routed ==
    {Line(r) \o Line(h) \o <<CR, LF>> \o Body(2) :
        r \in Requests, h \in {Length("+", 2), Length("+", 3), Accept(<<"sse">>), Other}}
Headers ==
    {h1 \o h2 : h1 \in HeaderTexts, h2 \in HeaderTexts \cup OddLines \cup {<<>>}}
    \cup {h1 \o Line(text) : h1 \in OddLines,
                              text \in {Length("+", 2), Accept(<<"sse">>)}}
Posted ==
    {Line(Ask("POST", "/mcp", <<>>)) \o h \o <<CR, LF>> \o Body(n) :
        h \in Headers, n \in 0..3}

(* One that does not fit, one whose header fills the buffer exactly, and   *)
(* some that are no requests.                                              *)
Odd == {Line(Ask("POST", "/mcp", <<>>)) \o Line(Other) \o Line(Other) \o
            Line(Length("+", 1)) \o <<CR, LF>> \o Body(1),
        Line(Ask("POST", "/mcp", <<>>)) \o Line(Length("+", 1)) \o
            <<Other, Other, CR, LF>> \o <<CR, LF>> \o Body(1),
        <<CR, LF, CR, LF>>, <<CR>> \o Line(Other) \o <<CR, LF>>,
        Line(Ask("GET", "/sse", <<>>)) \o Line(Other),
        Line(Ask("POST", "/mcp", <<>>)) \o Line(Length("+", 2)) \o
            <<Other, CR, CR, LF>> \o Body(2)}

Requested == Routed \cup Posted \cup Odd
=============================================================================
