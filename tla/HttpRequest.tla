----------------------------- MODULE HttpRequest ----------------------------
(***************************************************************************)
(* One request on one connection, as handle_connection of src/mcp_http.c   *)
(* takes it in: recv by recv, line by line, to its handler or to a reply.  *)
(* HttpServer has this as the choices of read_request, read_refused and    *)
(* read_nothing; here it is shown which request meets which.               *)
(*                                                                         *)
(* What the client sends is a sequence of bytes.  CR, LF and the bytes of  *)
(* the body stand for themselves; a text without either, which no step     *)
(* looks into, is one byte, with what the code finds in it in fields.      *)
(***************************************************************************)
EXTENDS Integers, Sequences, FiniteSetsExt, TLC

CONSTANTS
    Inputs,             \* what clients may send, each a sequence of bytes
    HTTP_MAX_HEADER,    \* the size of the header buffer
    HTTP_MAX_BODY,
    AcceptMax,          \* media ranges kept of an Accept header
    IdMax,              \* characters kept of a session's id
    ULONG_MAX           \* the largest unsigned long

CR == [is |-> "cr"]
LF == [is |-> "lf"]

ASSUME Sizes ==
    /\ HTTP_MAX_HEADER \in Nat \ {0}
    /\ {HTTP_MAX_BODY, AcceptMax, IdMax, ULONG_MAX} \subseteq Nat
    /\ HTTP_MAX_BODY < ULONG_MAX

Chars == UNION {{in[i] : i \in DOMAIN in} : in \in Inputs}

(* A Content-Length with no digit after its blanks.                        *)
NoDigits == -1

ASSUME InputsAreSequences == Inputs \subseteq Seq(Chars)
ASSUME Fields ==
    \A c \in Chars :
        /\ c.is = "content-length" => c.digits \in Nat \cup {NoDigits}
        /\ c.is = "accept" => c.ranges \in Seq(STRING)
        /\ c.is = "request" => c.query \in Seq([name : STRING, value : Seq(Nat)])

PostHandlers == {"handle_mcp_post", "handle_legacy_post_message"}
GetHandlers == {"handle_mcp_get_stream", "handle_legacy_sse_get"}
Finished == PostHandlers \cup GetHandlers \cup {"answered", "closed"}
Places == {"headers", "request", "lines", "route", "body", "reply"} \cup Finished

VARIABLES
    input,              \* what the client sends in all
    peer,               \* whether it is still there
    at,                 \* what the thread does next
    taken,              \* how many bytes recv has returned
    hdr, scan_from, hdr_end,    \* read_headers
    request,            \* the text of the request line
    p, content_length, have_length, accept,     \* the header lines
    body,               \* the body, as far as it was read
    sid,                \* the session named to handle_legacy_post_message
    reply, sent, heard  \* a response, how much is sent, what the client got

recvVars == <<taken, hdr, scan_from, hdr_end>>
lineVars == <<request, p, content_length, have_length, accept>>
sendVars == <<reply, sent, heard>>
vars == <<input, peer, at, recvVars, lineVars, body, sid, sendVars>>

Init ==
    /\ input \in Inputs
    /\ peer = "open"
    /\ at = "headers"
    /\ taken = 0 /\ hdr = <<>> /\ scan_from = 0 /\ hdr_end = 0
    /\ request = LF /\ p = 1
    /\ content_length = 0 /\ have_length = FALSE /\ accept = <<>>
    /\ body = <<>> /\ sid = <<>>
    /\ reply = <<>> /\ sent = 0 /\ heard = <<>>

(* Variant: it is copied whole.                                            *)
cut_whole(s, n) == s

(* What fits of s in a buffer for n.                                       *)
cut(s, n) == SubSeq(s, 1, Min({n, Len(s)}))

(* The next k bytes of the input, of which there is room for n.            *)
Arrives(k, n) == k \in 1..n /\ taken + k <= Len(input)
Bytes(k) == SubSeq(input, taken + 1, taken + k)

----------------------------------------------------------------------------
(* read_headers.                                                           *)

(* CR LF CR LF in b, at the index the code counts from 0.                  *)
BlankAt(b, i) ==
    /\ i + 4 <= Len(b)
    /\ b[i + 1] = CR /\ b[i + 2] = LF /\ b[i + 3] = CR /\ b[i + 4] = LF

(* Variant: the search goes on from the last chunk.                        *)
Start_chunk(from) == from

Start(from) == IF from >= 3 THEN from - 3 ELSE 0

recv_headers ==
    /\ at = "headers"
    /\ \E k \in 1..HTTP_MAX_HEADER :
          /\ Arrives(k, HTTP_MAX_HEADER - Len(hdr))
          /\ hdr' = hdr \o Bytes(k)
          /\ taken' = taken + k
    /\ LET found == {i \in Start(scan_from)..Len(hdr') : BlankAt(hdr', i)}
       IN  IF found # {}
           THEN hdr_end' = Min(found) + 4 /\ at' = "request" /\ UNCHANGED scan_from
           ELSE /\ scan_from' = Len(hdr')
                /\ at' = IF Len(hdr') < HTTP_MAX_HEADER THEN "headers" ELSE "closed"
                /\ UNCHANGED hdr_end
    /\ UNCHANGED <<input, peer, lineVars, body, sid, sendVars>>

(* recv, here or in read_full, returns 0 or an error.                      *)
recv_ends ==
    /\ \/ at = "headers"
       \/ at = "body" /\ Len(body) < content_length
    /\ peer = "closed"
    /\ at' = "closed"
    /\ UNCHANGED <<input, peer, recvVars, lineVars, body, sid, sendVars>>

----------------------------------------------------------------------------
(* The request line and the header lines.                                  *)

(* memchr(from, '\r', to - from), 0 if there is none.                      *)
CrIn(from, to) ==
    LET crs == {i \in from..to : hdr[i] = CR} IN IF crs = {} THEN 0 ELSE Min(crs)

(* Variant: a CR that LF does not follow is passed over.                   *)
EolOf_seeks(i, to) ==
    LET ends == {j \in i..to - 1 : hdr[j] = CR /\ hdr[j + 1] = LF}
    IN  IF ends = {} THEN 0 ELSE Min(ends)

(* Where the line from i ends, 0 if it is not one.                         *)
EolOf(i, to) ==
    LET cr == CrIn(i, to)
    IN  IF cr # 0 /\ cr < to /\ hdr[cr + 1] = LF THEN cr ELSE 0

(* A line that is not a method, a path and a version gets no answer.       *)
request_line ==
    /\ at = "request"
    /\ LET eol == EolOf(1, Len(hdr))
       IN  IF eol > 1 /\ hdr[1].is = "request"
           THEN request' = hdr[1] /\ p' = eol + 2 /\ at' = "lines"
           ELSE at' = "closed" /\ UNCHANGED <<request, p>>
    /\ UNCHANGED <<input, peer, recvVars, content_length, have_length, accept,
                   body, sid, sendVars>>

(* Variant: the digits are taken modulo the width.                         *)
strtoul_wraps(sign, n) == (IF sign = "-" THEN -n ELSE n) % (ULONG_MAX + 1)

(* strtoul of a sign and digits: it saturates, and negates what does not.  *)
strtoul(sign, n) ==
    IF n > ULONG_MAX THEN ULONG_MAX
    ELSE IF sign = "-" /\ n > 0 THEN ULONG_MAX + 1 - n ELSE n

header_line ==
    /\ at = "lines"
    /\ LET eol == IF p <= hdr_end THEN EolOf(p, hdr_end) ELSE 0
           line == hdr[p]
       IN  IF eol \in {0, p}
           THEN at' = "route" /\ UNCHANGED <<p, content_length, have_length, accept>>
           ELSE /\ p' = eol + 2
                /\ IF line.is = "content-length" /\ line.digits # NoDigits
                   THEN /\ content_length' = strtoul(line.sign, line.digits)
                        /\ have_length' = TRUE
                   ELSE UNCHANGED <<content_length, have_length>>
                /\ accept' = IF line.is = "accept" THEN cut(line.ranges, AcceptMax)
                             ELSE accept
                /\ UNCHANGED at
    /\ UNCHANGED <<input, peer, recvVars, request, body, sid, sendVars>>

----------------------------------------------------------------------------
(* Routing.                                                                *)

(* send_response makes two writes: the head, and the body if there is one. *)
HeadOf(status) == <<<<status, 1>>, <<status, 2>>>>
BodyOf(status) == IF status = 204 THEN <<>> ELSE <<<<status, 3>>, <<status, 4>>>>

answer(status) ==
    /\ reply' = HeadOf(status) \o BodyOf(status)
    /\ at' = "reply"
    /\ UNCHANGED <<body, sid, sent, heard>>

hand_to(handler) == at' = handler /\ UNCHANGED <<body, sid, sendVars>>

AsksForStream == \E i \in DOMAIN accept : accept[i] = "sse"

(* Whatever is asked of OPTIONS, and then what has no body to wait for.    *)
route_get ==
    LET method == request.method  path == request.path
    IN  \/ method = "OPTIONS" /\ answer(204)
        \/ method = "GET" /\
              \/ path = "/" /\ answer(200)
              \/ path = "/mcp" /\ AsksForStream /\ hand_to("handle_mcp_get_stream")
              \/ path = "/mcp" /\ ~AsksForStream /\ answer(405)
              \/ path = "/sse" /\ hand_to("handle_legacy_sse_get")
              \/ path = "/message" /\ answer(405)
        \/ method = "other" /\ path \in {"/mcp", "/sse", "/message"} /\ answer(405)
        \/ method = "POST" /\ path = "/sse" /\ answer(405)
        \/ method # "OPTIONS" /\ path = "other" /\ answer(404)
        \/ method \in {"POST", "other"} /\ path = "/" /\ answer(404)

LengthRefused ==
    ~have_length \/ content_length = 0 \/ content_length > HTTP_MAX_BODY

(* Variant: all that is in the header buffer goes to the body.             *)
Already_uncapped == Len(hdr) - hdr_end

(* Variant: the whole body is read from the connection.                    *)
Already_forgotten == 0

(* What of the body came with the header.                                  *)
Already == Min({Len(hdr) - hdr_end, content_length})

route_post ==
    /\ request.method = "POST" /\ request.path \in {"/mcp", "/message"}
    /\ \/ LengthRefused /\ answer(400)
       \/ ~LengthRefused /\ answer(500)        \* malloc fails
       \/ /\ ~LengthRefused
          /\ body' = SubSeq(hdr, hdr_end + 1, hdr_end + Already)
          /\ at' = "body"
          /\ UNCHANGED <<sid, sendVars>>

route ==
    /\ at = "route"
    /\ route_get \/ route_post
    /\ UNCHANGED <<input, peer, recvVars, lineVars>>

----------------------------------------------------------------------------
(* The body, and the handler of a POST.                                    *)

(* read_full.                                                              *)
recv_body ==
    /\ at = "body"
    /\ \E k \in 1..HTTP_MAX_BODY :
          /\ Arrives(k, content_length - Len(body))
          /\ body' = body \o Bytes(k)
          /\ taken' = taken + k
    /\ UNCHANGED <<input, peer, at, hdr, scan_from, hdr_end, lineVars, sid, sendVars>>

(* extract_session_id: the first parameter of that name, cut to IdMax.     *)
extract_session_id(query) ==
    LET named == {i \in DOMAIN query : query[i].name = "sessionId"}
    IN  IF named = {} THEN <<>> ELSE cut(query[Min(named)].value, IdMax)

handle_post ==
    /\ at = "body"
    /\ Len(body) >= content_length
    /\ LET id == extract_session_id(request.query)
       IN  \/ request.path = "/mcp" /\ hand_to("handle_mcp_post")
           \/ request.path = "/message" /\ id = <<>> /\ answer(400)
           \/ /\ request.path = "/message" /\ id # <<>>
              /\ sid' = id
              /\ at' = "handle_legacy_post_message"
              /\ UNCHANGED <<body, sendVars>>
    /\ UNCHANGED <<input, peer, recvVars, lineVars>>

(* Variant: where the ranges are in the header does not matter.            *)
accept_prefers_sse_any(a) == \E i \in DOMAIN a : a[i] = "sse"

(* The format in which handle_mcp_post is to answer.                       *)
accept_prefers_sse(a) ==
    LET sse  == {i \in DOMAIN a : a[i] = "sse"}
        json == {i \in DOMAIN a : a[i] = "json"}
    IN  sse # {} /\ (json = {} \/ Min(sse) < Min(json))

----------------------------------------------------------------------------
(* write_full, within the head or the body of a response.                  *)

(* Variant: every send begins at the start of the buffer.                  *)
Unsent_restarts(k) == SubSeq(reply, 1, k)

Unsent(k) == SubSeq(reply, sent + 1, sent + k)

send ==
    /\ at = "reply"
    /\ \E k \in 1..(IF sent < 2 THEN 2 ELSE Len(reply)) - sent :
          /\ heard' = heard \o Unsent(k)
          /\ sent' = sent + k
    /\ at' = IF sent' = Len(reply) THEN "answered" ELSE "reply"
    /\ UNCHANGED <<input, peer, recvVars, lineVars, body, sid, reply>>

(* Variant: a response that could not be sent whole is sent again.         *)
send_fails_retries ==
    /\ at = "reply"
    /\ peer = "closed"
    /\ sent > 0
    /\ sent' = 0 /\ heard' = <<>>
    /\ UNCHANGED <<input, peer, at, recvVars, lineVars, body, sid, reply>>

send_fails ==
    /\ at = "reply"
    /\ peer = "closed"
    /\ at' = "closed"
    /\ UNCHANGED <<input, peer, recvVars, lineVars, body, sid, sendVars>>

peer_leaves ==
    /\ peer = "open"
    /\ peer' = "closed"
    /\ UNCHANGED <<input, at, recvVars, lineVars, body, sid, sendVars>>

----------------------------------------------------------------------------
ThreadStep ==
    \/ recv_headers \/ recv_ends \/ request_line \/ header_line \/ route
    \/ recv_body \/ handle_post \/ send \/ send_fails

(* The thread is done with the request, and the client is gone.            *)
Terminated == at \in Finished /\ peer = "closed" /\ UNCHANGED vars

Next == ThreadStep \/ peer_leaves \/ Terminated

Spec == Init /\ [][Next]_vars

(* The thread is scheduled, and what was sent arrives.                     *)
FairSpec == Spec /\ WF_vars(ThreadStep)

----------------------------------------------------------------------------
(* Every variable keeps to its values, and no buffer takes more than it    *)
(* was made for: hdr, accept, the body of content_length bytes, out[33] of *)
(* extract_session_id.                                                     *)
RequestTypeOK ==
    /\ input \in Inputs /\ peer \in {"open", "closed"} /\ at \in Places
    /\ taken \in 0..Len(input)
    /\ hdr \in Seq(Chars) /\ Len(hdr) <= HTTP_MAX_HEADER
    /\ scan_from \in 0..Len(hdr) /\ hdr_end \in 0..Len(hdr)
    /\ request \in Chars \cup {LF} /\ p \in 1..Len(hdr) + 1
    /\ content_length \in 0..ULONG_MAX /\ have_length \in BOOLEAN
    /\ accept \in Seq(STRING) /\ Len(accept) <= AcceptMax
    /\ body \in Seq(Chars) /\ Len(body) <= content_length
    /\ sid \in Seq(Nat) /\ Len(sid) <= IdMax
    /\ reply \in Seq(Nat \X Nat) /\ sent \in 0..Len(reply)
    /\ heard \in Seq(Nat \X Nat)

(* What the request is, told from the whole input.                         *)

(* The positions in the input at which a header that fits may end.         *)
Ends == {e \in 4..Min({HTTP_MAX_HEADER, Len(input)}) :
            /\ input[e - 3] = CR /\ input[e - 2] = LF
            /\ input[e - 1] = CR /\ input[e] = LF}

(* The positions of the header lines: after a line that ended in CR LF,    *)
(* and before the first CR that is followed by something else.             *)
HeaderLines ==
    {q \in 3..Min(Ends) - 2 :
        /\ input[q - 2] = CR /\ input[q - 1] = LF /\ input[q] # CR
        /\ \A i \in 1..Min(Ends) - 1 :
              input[i] = CR /\ input[i + 1] # LF =>
                  \E j \in q..i : input[j] = CR /\ input[j + 1] = LF}

(* The header lines of a kind that are not passed over.                    *)
LinesOf(kind) ==
    {q \in HeaderLines :
        /\ input[q].is = kind
        /\ kind = "content-length" => input[q].digits # NoDigits}

(* The last of them, 0 if there is none.                                   *)
LastLine(kind) == IF LinesOf(kind) = {} THEN 0 ELSE Max(LinesOf(kind))

----------------------------------------------------------------------------
(* Safety.                                                                 *)

(* However the input is cut into chunks, the header ends at the first      *)
(* blank line of it; it is given up only if it does not fit its buffer.    *)
(* ("(scan_from >= 3) ? scan_from - 3 : 0", mcp_http.c:228.)               *)
HeaderEndFound ==
    /\ at \notin {"headers", "closed"} => Ends # {} /\ hdr_end = Min(Ends)
    /\ at = "headers" => \A e \in Ends : e > Len(hdr)
    /\ at = "closed" /\ peer = "open" /\ hdr_end = 0 => Ends = {}

(* The lines of the header decide what is taken from them, also when there *)
(* are two of one kind: the last counts, and a length that overflows is    *)
(* never taken for a small one, unless it has a minus sign, which strtoul  *)
(* accepts and wraps.  (mcp_http.c:715.)                                   *)
LengthHonoured ==
    at \notin {"headers", "request", "lines", "closed"} =>
        LET q == LastLine("content-length")
        IN  /\ have_length <=> q # 0
            /\ q # 0 /\ input[q].sign = "+" =>
                  \/ content_length = input[q].digits
                  \/ content_length > HTTP_MAX_BODY /\ input[q].digits > HTTP_MAX_BODY

(* The handler of a POST is given the bytes that follow the blank line, as *)
(* many as were announced, whichever recv they came with.                  *)
BodyExact ==
    at \in PostHandlers =>
        /\ content_length \in 1..HTTP_MAX_BODY
        /\ body = SubSeq(input, hdr_end + 1, hdr_end + content_length)

(* An answer to POST /mcp is a stream if the last Accept lists the format  *)
(* of a stream, and JSON not before it.  ("first match wins; SSE-only =>   *)
(* true; JSON-only/missing => false", mcp_http.c:281.)                     *)
AcceptFirstWins ==
    at = "handle_mcp_post" =>
        LET q == LastLine("accept")
            listed == IF q = 0 THEN <<>> ELSE cut(input[q].ranges, AcceptMax)
        IN  accept_prefers_sse(accept) <=>
                \E i \in DOMAIN listed :
                    /\ listed[i] = "sse"
                    /\ \A j \in 1..i - 1 : listed[j] # "json"

(* A client reads the reply from its beginning, whole if the thread is     *)
(* done with it, however few bytes a send takes.  (write_full.)            *)
ReplyExact ==
    /\ Len(heard) <= Len(reply) /\ heard = SubSeq(reply, 1, Len(heard))
    /\ at = "answered" => heard = reply

(* A request that was sent in full, with the longest body there may be.    *)
Complete ==
    Ends # {} /\ Len(input) - Min(Ends) >= HTTP_MAX_BODY

(* A request line as the code reads them.                                  *)
BeginsAsRequest ==
    /\ input[1].is = "request"
    /\ \E i \in 2..Len(input) - 1 :
          /\ input[i] = CR /\ input[i + 1] = LF
          /\ \A j \in 1..i - 1 : input[j] # CR

(* No recv waits for more than was sent when the request was sent in full, *)
(* however the bytes were divided between the header's buffer and the      *)
(* body's; and such a request is given up only if its client has left or   *)
(* its first line is none of a request.  (mcp_http.c:216, 845.)            *)
CompleteIsRead ==
    Complete =>
        /\ at = "headers" => taken < Len(input)
        /\ at = "body" => taken < Len(input) \/ Len(body) = content_length
        /\ at = "closed" => peer = "closed" \/ ~BeginsAsRequest

(* What is left to do for a request: bytes to take, lines to look at, and  *)
(* parts of the code to come, the response among them.                     *)
PartsLeft ==
    CASE at = "headers" -> 6
      [] at = "request" -> 5
      [] at = "lines" -> 4
      [] at = "route" -> 3
      [] at = "body" -> 2
      [] at = "reply" -> 1
      [] at \in Finished -> 0

LongestReply == 4
ReplyLeft ==
    IF at = "reply" THEN Len(reply) - sent
    ELSE IF at \in Finished THEN 0 ELSE LongestReply

BytesLeft == Len(input) - taken
LinesLeft == HTTP_MAX_HEADER + 1 - p
StepsLeft == BytesLeft + LinesLeft + PartsLeft + ReplyLeft

(* Whatever a client sends, and however it is cut into chunks, a thread    *)
(* makes no step for its request twice: the bytes sent bound how many it   *)
(* makes in all.  (The loops of read_headers, handle_connection's lines,   *)
(* read_full and write_full.)                                              *)
StepsRunOut == [][ThreadStep => StepsLeft' \in 0..StepsLeft - 1]_vars

----------------------------------------------------------------------------
(* Liveness.                                                               *)

(* A request that was sent in full is handled or answered, or the thread   *)
(* gives it up, as long as its client stays.                               *)
CompleteIsTaken == Complete ~> at \in Finished \/ peer = "closed"
=============================================================================
