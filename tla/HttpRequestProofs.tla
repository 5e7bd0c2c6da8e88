------------------------- MODULE HttpRequestProofs --------------------------
(***************************************************************************)
(* What HttpRequest promises of a request holds for every input, however   *)
(* it is cut into chunks, and for all sizes of the buffers.                *)
(***************************************************************************)
EXTENDS HttpRequest, SequenceTheorems, WellFoundedInduction, TLAPS

----------------------------------------------------------------------------
(* The inductive invariant.                                                *)

(* The header is what the input begins with.                               *)
HeaderIsPrefix ==
    /\ hdr = SubSeq(input, 1, Len(hdr)) /\ Len(hdr) <= taken
    /\ at \in {"headers", "request", "lines", "route"} => taken = Len(hdr)

(* What has been searched holds no blank line, what is cut off one.        *)
HeaderSearched ==
    /\ at = "headers" => /\ scan_from = Len(hdr) /\ hdr_end = 0
                         /\ Len(hdr) < HTTP_MAX_HEADER
                         /\ \A e \in Ends : e > Len(hdr)
    /\ at \notin {"headers", "closed"} => hdr_end # 0
    /\ hdr_end # 0 => hdr_end \in Ends /\ \A e \in Ends : hdr_end <= e
    /\ at = "closed" /\ peer = "open" /\ hdr_end = 0 => Ends = {}

(* A line may begin at n: all before it end in CR LF.                      *)
LineStart(n) ==
    /\ n \in 3..hdr_end - 1
    /\ input[n - 2] = CR /\ input[n - 1] = LF
    /\ \A i \in 1..n - 1 : input[i] = CR => input[i + 1] = LF

(* q is the last line of a kind before n, 0 if there is none.              *)
LastBefore(kind, n, q) ==
    \/ q = 0 /\ \A r \in LinesOf(kind) : r >= n
    \/ /\ q \in LinesOf(kind) /\ q < n
       /\ \A r \in LinesOf(kind) : r >= n \/ r <= q

LengthTaken(n) ==
    \E q \in Nat :
        /\ LastBefore("content-length", n, q)
        /\ have_length <=> q # 0
        /\ content_length = IF q = 0 THEN 0
                            ELSE strtoul(input[q].sign, input[q].digits)

AcceptTaken(n) ==
    \E q \in Nat :
        /\ LastBefore("accept", n, q)
        /\ accept = IF q = 0 THEN <<>> ELSE cut(input[q].ranges, AcceptMax)

(* The lines up to p have been taken, and in the end all of them.          *)
LinesTaken ==
    /\ at \in {"headers", "request"} =>
          ~have_length /\ content_length = 0 /\ accept = <<>>
    /\ at \notin {"headers", "request", "closed"} =>
          request \in Chars /\ request.is = "request"
    /\ at = "lines" => LineStart(p) /\ LengthTaken(p) /\ AcceptTaken(p)
    /\ at \notin {"headers", "request", "lines", "closed"} =>
          LengthTaken(hdr_end) /\ AcceptTaken(hdr_end)

(* The body is what follows the header, and recv goes on where it ends.    *)
BodyFollows ==
    /\ at \in {"headers", "request", "lines", "route"} => body = <<>>
    /\ at \in {"body"} \cup PostHandlers =>
          /\ content_length \in 1..HTTP_MAX_BODY
          /\ hdr_end + Len(body) <= taken
          /\ body = SubSeq(input, hdr_end + 1, hdr_end + Len(body))
    /\ at = "body" /\ Len(body) < content_length => taken = hdr_end + Len(body)
    /\ at \in PostHandlers => Len(body) = content_length

(* The client has heard what was sent of the reply.                        *)
ReplyHeard ==
    /\ heard = SubSeq(reply, 1, sent)
    /\ at \notin {"reply", "answered", "closed"} => reply = <<>> /\ sent = 0
    /\ at = "reply" => Len(reply) >= 2
    /\ at = "answered" => sent = Len(reply)

IInv ==
    /\ RequestTypeOK /\ HeaderIsPrefix /\ HeaderSearched /\ LinesTaken
    /\ BodyFollows /\ ReplyHeard

----------------------------------------------------------------------------
(* Lemmas about the operators.                                             *)

(* A set of natural numbers that is not empty has a least element, and Min *)
(* is it.                                                                  *)
LEMMA MinIsLeast ==
    ASSUME NEW S \in SUBSET Nat, S # {}
    PROVE  Min(S) \in S /\ \A x \in S : Min(S) <= x
<1> DEFINE less == {r \in Nat \X Nat : r[1] < r[2]}
<1>1. IsWellFoundedOn(less, Nat)
  BY NatLessThanWellFounded, Zenon DEF OpToRel
<1>2. \A y \in Nat, x \in Nat : y < x => <<y, x>> \in less
  OBVIOUS
<1> HIDE DEF less
<1>3. PICK x \in S : \A y \in S : ~(<<y, x>> \in less)
  BY <1>1, WFMin, Zenon
<1>4. \A y \in S : x <= y
  <2> SUFFICES ASSUME NEW y \in S PROVE x <= y
    OBVIOUS
  <2>1. x \in Nat /\ y \in Nat
    OBVIOUS
  <2>2. ~(y < x)
    BY <1>2, <1>3, <2>1, Zenon
  <2> QED BY <2>1, <2>2
<1>5. \E y \in S : \A z \in S : y =< z
  BY <1>4
<1> QED BY <1>5, Zenon DEF Min

(* Min of a set whose least element is known is this element.              *)
LEMMA MinIs ==
    ASSUME NEW S \in SUBSET Int, NEW x \in S, \A y \in S : x <= y
    PROVE  Min(S) = x
<1>1. \A z \in S : (\A y \in S : z =< y) => z = x
  OBVIOUS
<1>2. /\ Min(S) \in S
      /\ \A y \in S : Min(S) =< y
  <2>1. \E z \in S : \A y \in S : z =< y
    OBVIOUS
  <2> QED BY <2>1, Zenon DEF Min
<1> QED BY <1>1, <1>2

(* The same of Max.                                                        *)
LEMMA MaxIs ==
    ASSUME NEW S \in SUBSET Int, NEW x \in S, \A y \in S : x >= y
    PROVE  Max(S) = x
<1>1. \A z \in S : (\A y \in S : z >= y) => z = x
  OBVIOUS
<1>2. /\ Max(S) \in S
      /\ \A y \in S : Max(S) >= y
  <2>1. \E z \in S : \A y \in S : z >= y
    OBVIOUS
  <2> QED BY <2>1, Zenon DEF Max
<1> QED BY <1>1, <1>2

(* Min of two numbers.                                                     *)
LEMMA MinOfTwo ==
    ASSUME NEW a \in Nat, NEW b \in Nat
    PROVE  Min({a, b}) = IF a <= b THEN a ELSE b
<1>1. CASE a <= b
  <2>1. Min({a, b}) = a
    BY <1>1, MinIs
  <2> QED BY <1>1, <2>1
<1>2. CASE ~(a <= b)
  <2>1. Min({a, b}) = b
    BY <1>2, MinIs
  <2> QED BY <1>2, <2>1
<1> QED BY <1>1, <1>2

(* The sizes, one by one.                                                  *)
LEMMA SizesAre ==
    /\ HTTP_MAX_HEADER \in Nat /\ HTTP_MAX_HEADER > 0
    /\ HTTP_MAX_BODY \in Nat /\ AcceptMax \in Nat /\ IdMax \in Nat
    /\ ULONG_MAX \in Nat /\ HTTP_MAX_BODY < ULONG_MAX
BY Sizes

(* What cut gives has room, and is of the same elements.                   *)
LEMMA CutFits ==
    ASSUME NEW S, NEW s \in Seq(S), NEW n \in Nat
    PROVE  /\ cut(s, n) \in Seq(S)
           /\ Len(cut(s, n)) <= n
           /\ cut(s, n) = <<>> => n = 0 \/ s = <<>>
<1> DEFINE m == Min({n, Len(s)})
<1>1. Len(s) \in Nat /\ m = IF n <= Len(s) THEN n ELSE Len(s)
  BY MinOfTwo
<1>2. m \in 0..Len(s) /\ m <= n
  BY <1>1
<1>3. /\ SubSeq(s, 1, m) \in Seq(S)
      /\ Len(SubSeq(s, 1, m)) = IF 1 <= m THEN m - 1 + 1 ELSE 0
  <2> HIDE DEF m
  <2>1. \A i \in 1..m : s[i] \in S
    BY <1>2, ElementOfSeq
  <2> QED BY <1>2, <2>1, SubSeqProperties
<1>4. cut(s, n) = SubSeq(s, 1, m)
  BY DEF cut
<1> HIDE DEF m
<1>5. Len(SubSeq(s, 1, m)) = m
  BY <1>2, <1>3
<1>6. cut(s, n) = <<>> => n = 0 \/ s = <<>>
  BY <1>1, <1>4, <1>5, EmptySeq
<1> QED BY <1>2, <1>3, <1>4, <1>5, <1>6

(* Every input is a sequence of Chars.                                     *)
LEMMA InputIsSeq == input \in Inputs => input \in Seq(Chars) /\ Len(input) \in Nat
BY InputsAreSequences

(* Every number in Ends is where a blank line ends that fits.              *)
LEMMA EndsAre ==
    ASSUME input \in Inputs
    PROVE  /\ Ends \subseteq Nat
           /\ \A e \in Int : e \in Ends <=>
                 /\ 4 <= e /\ e <= HTTP_MAX_HEADER /\ e <= Len(input)
                 /\ input[e - 3] = CR /\ input[e - 2] = LF
                 /\ input[e - 1] = CR /\ input[e] = LF
<1>1. Len(input) \in Nat /\ HTTP_MAX_HEADER \in Nat
  BY InputIsSeq, Sizes
<1>2. Min({HTTP_MAX_HEADER, Len(input)}) =
        IF HTTP_MAX_HEADER <= Len(input) THEN HTTP_MAX_HEADER ELSE Len(input)
  BY <1>1, MinOfTwo
<1>3. Ends = {e \in 4..(IF HTTP_MAX_HEADER <= Len(input) THEN HTTP_MAX_HEADER
                                                       ELSE Len(input)) :
                /\ input[e - 3] = CR /\ input[e - 2] = LF
                /\ input[e - 1] = CR /\ input[e] = LF}
  BY <1>2, Zenon DEF Ends
<1> QED BY <1>1, <1>3

(* CR is not LF.                                                           *)
LEMMA CRIsNotLF == CR # LF /\ CR.is = "cr" /\ LF.is = "lf"
BY DEF CR, LF

(* strtoul keeps to its type.                                              *)
LEMMA StrtoulFits ==
    ASSUME NEW sign, NEW n \in Nat
    PROVE  strtoul(sign, n) \in 0..ULONG_MAX
BY Sizes DEF strtoul

(* What arrives from a place is what the input has there.                  *)
LEMMA BytesFollow ==
    ASSUME input \in Inputs, taken \in 0..Len(input),
           NEW m \in 0..taken, NEW n \in Int, NEW k \in Int, Arrives(k, n)
    PROVE  /\ k \in 1..n /\ taken + k <= Len(input)
           /\ SubSeq(input, m + 1, taken) \o Bytes(k) = SubSeq(input, m + 1, taken + k)
           /\ SubSeq(input, m + 1, taken + k) \in Seq(Chars)
           /\ Len(SubSeq(input, m + 1, taken + k)) = taken + k - m
<1>1. k \in 1..n /\ taken + k <= Len(input)
  BY DEF Arrives
<1>2. input \in Seq(Chars) /\ Len(input) \in Nat
  BY InputIsSeq
<1>3. m + 1 \in 1..Len(input) + 1 /\ taken \in (m + 1) - 1..Len(input)
      /\ taken + k \in taken..Len(input)
  BY <1>1, <1>2
<1>4. SubSeq(input, m + 1, taken) \o SubSeq(input, taken + 1, taken + k) =
        SubSeq(input, m + 1, taken + k)
  BY <1>2, <1>3, ConcatAdjacentSubSeq
<1>5. \A i \in m + 1..taken + k : input[i] \in Chars
  BY <1>2, <1>3, ElementOfSeq
<1>6. /\ SubSeq(input, m + 1, taken + k) \in Seq(Chars)
      /\ Len(SubSeq(input, m + 1, taken + k)) = taken + k - m
  BY <1>1, <1>3, <1>5, SubSeqProperties
<1> QED BY <1>1, <1>4, <1>6 DEF Bytes

(* The header is the input as far as it goes.                              *)
LEMMA HeaderIs ==
    ASSUME input \in Inputs, NEW h \in Seq(Chars), Len(h) <= Len(input),
           h = SubSeq(input, 1, Len(h))
    PROVE  \A i \in 1..Len(h) : h[i] = input[i]
<1>1. input \in Seq(Chars) /\ Len(input) \in Nat /\ Len(h) \in Nat
  BY InputIsSeq
<1>2. \A i \in 1..Len(h) : input[i] \in Chars
  BY <1>1, ElementOfSeq
<1>3. \A i \in 1..Len(h) - 1 + 1 : SubSeq(input, 1, Len(h))[i] = input[1 + i - 1]
  BY <1>1, <1>2, SubSeqProperties
<1> QED BY <1>1, <1>3

(* n elements of a sequence, from where m of them are.                     *)
LEMMA SubSeqIs ==
    ASSUME NEW S, NEW s, NEW m \in Nat, NEW n \in Nat,
           \A i \in m + 1..m + n : s[i] \in S
    PROVE  /\ SubSeq(s, m + 1, m + n) \in Seq(S)
           /\ Len(SubSeq(s, m + 1, m + n)) = n
           /\ \A i \in 1..n : SubSeq(s, m + 1, m + n)[i] = s[m + i]
<1>1. m + 1 \in Int /\ m + n \in Int
  OBVIOUS
<1>2. /\ SubSeq(s, m + 1, m + n) \in Seq(S)
      /\ Len(SubSeq(s, m + 1, m + n)) =
           IF m + 1 <= m + n THEN (m + n) - (m + 1) + 1 ELSE 0
      /\ \A i \in 1..(m + n) - (m + 1) + 1 :
            SubSeq(s, m + 1, m + n)[i] = s[(m + 1) + i - 1]
  BY <1>1, SubSeqProperties
<1>3. (m + n) - (m + 1) + 1 = n /\ (IF m + 1 <= m + n THEN n ELSE 0) = n
  OBVIOUS
<1>4. \A i \in 1..n : (m + 1) + i - 1 = m + i
  OBVIOUS
<1> QED BY <1>2, <1>3, <1>4

----------------------------------------------------------------------------
(* What a step that leaves the header alone keeps.                         *)

(* The input does not change, nor what is told from it.                    *)
LEMMA InputKept ==
    ASSUME input' = input
    PROVE  /\ Ends' = Ends
           /\ \A kind : LinesOf(kind)' = LinesOf(kind)
           /\ \A kind, n, q : LastBefore(kind, n, q)' <=> LastBefore(kind, n, q)
<1>1. Ends' = Ends
  BY DEF Ends
<1>2. HeaderLines' = HeaderLines
  BY <1>1, Zenon DEF HeaderLines
<1>3. \A kind : LinesOf(kind)' = LinesOf(kind)
  BY <1>2, Zenon DEF LinesOf
<1> QED BY <1>1, <1>3, Zenon DEF LastBefore

(* Nor what was taken from the lines before n.                             *)
LEMMA TakenKept ==
    ASSUME input' = input, UNCHANGED <<content_length, have_length, accept>>, NEW n
    PROVE  /\ LengthTaken(n)' <=> LengthTaken(n)
           /\ AcceptTaken(n)' <=> AcceptTaken(n)
<1>1. LengthTaken(n)' <=> LengthTaken(n)
  BY InputKept, Zenon DEF LengthTaken
<1>2. AcceptTaken(n)' <=> AcceptTaken(n)
  BY InputKept, Zenon DEF AcceptTaken
<1> QED BY <1>1, <1>2

(* After the header, the header stays.                                     *)
LEMMA HeaderKept ==
    ASSUME IInv, UNCHANGED <<input, hdr, scan_from, hdr_end>>,
           at \notin {"headers", "closed"}, at' # "headers", taken' >= taken,
           taken' \in Nat,
           at' \in {"request", "lines", "route"} =>
               taken' = taken /\ at \in {"request", "lines", "route"}
    PROVE  HeaderIsPrefix' /\ HeaderSearched'
<1>1. HeaderIsPrefix'
  <2>1. Len(hdr) \in Int /\ taken \in Int /\ Len(hdr) <= taken
    <3>1. hdr \in Seq(Chars) /\ taken \in 0..Len(input) /\ Len(hdr) <= taken
      BY DEF IInv, RequestTypeOK, HeaderIsPrefix
    <3> QED BY <3>1
  <2>2. Len(hdr') <= taken' /\ hdr' = hdr /\ input' = input
    BY <2>1
  <2>3. hdr = SubSeq(input, 1, Len(hdr))
        /\ (at \in {"request", "lines", "route"} => taken = Len(hdr))
    BY DEF IInv, HeaderIsPrefix
  <2>4. at' \in {"headers", "request", "lines", "route"} => taken' = Len(hdr')
    BY <2>2, <2>3
  <2> QED BY <2>2, <2>3, <2>4 DEF HeaderIsPrefix
<1>2. HeaderSearched'
  BY InputKept DEF IInv, HeaderSearched
<1> QED BY <1>1, <1>2

(* After the header lines, what they gave stays.                           *)
LEMMA LinesKept ==
    ASSUME IInv, UNCHANGED <<input, hdr_end, lineVars>>,
           at \notin {"headers", "request", "lines", "closed"},
           at' \notin {"headers", "request", "lines"}
    PROVE  LinesTaken'
<1>1. LengthTaken(hdr_end) /\ AcceptTaken(hdr_end)
  BY DEF IInv, LinesTaken
<1>2. LengthTaken(hdr_end)' /\ AcceptTaken(hdr_end)'
  <2>1. hdr_end' = hdr_end
    OBVIOUS
  <2>2. LengthTaken(hdr_end)' <=> LengthTaken(hdr_end)
    BY InputKept, Zenon DEF LengthTaken, lineVars
  <2>3. AcceptTaken(hdr_end)' <=> AcceptTaken(hdr_end)
    BY InputKept, Zenon DEF AcceptTaken, lineVars
  <2> QED BY <1>1, <2>2, <2>3
<1>3. request' \in Chars /\ request'.is = "request"
  BY DEF IInv, LinesTaken, lineVars
<1> QED BY <1>2, <1>3 DEF LinesTaken

----------------------------------------------------------------------------
(* The invariant holds at first, and every step keeps it.                  *)

(* The invariant holds at the start.                                       *)
LEMMA InitIInv == Init => IInv
<1> SUFFICES ASSUME Init PROVE IInv
  OBVIOUS
<1> USE DEF Init
<1>1. input \in Seq(Chars) /\ Len(input) \in Nat
  BY InputIsSeq
<1>2. SubSeq(input, 1, 0) = <<>> /\ SubSeq(reply, 1, 0) = <<>>
  BY SubSeqEmpty
<1>3. Len(<<>>) = 0
  OBVIOUS
<1>4. RequestTypeOK
  <2>1. /\ <<>> \in Seq(Chars) /\ <<>> \in Seq(STRING)
        /\ <<>> \in Seq(Nat) /\ <<>> \in Seq(Nat \X Nat)
    BY EmptySeq
  <2>2. /\ 0 \in 0..Len(input) /\ 0 \in 0..0 /\ 1 \in 1..0 + 1
        /\ 0 <= HTTP_MAX_HEADER /\ 0 \in 0..ULONG_MAX
        /\ 0 <= AcceptMax /\ 0 <= 0 /\ 0 <= IdMax
    BY <1>1, SizesAre
  <2> QED BY <1>3, <2>1, <2>2 DEF RequestTypeOK, Places
<1>5. HeaderIsPrefix
  BY <1>2, <1>3 DEF HeaderIsPrefix
<1>6. HeaderSearched
  <2>1. \A e \in Ends : e > 0
    BY EndsAre
  <2> QED BY <1>3, <2>1, SizesAre DEF HeaderSearched
<1>7. LinesTaken
  BY DEF LinesTaken
<1>8. BodyFollows
  BY DEF BodyFollows, PostHandlers
<1>9. ReplyHeard
  BY <1>2 DEF ReplyHeard
<1> QED BY <1>4, <1>5, <1>6, <1>7, <1>8, <1>9 DEF IInv

(* A chunk of the header.                                                  *)
LEMMA RecvHeaders == ASSUME IInv, recv_headers PROVE IInv'
<1>1. /\ input \in Inputs /\ input \in Seq(Chars) /\ Len(input) \in Nat
      /\ taken \in 0..Len(input) /\ taken = Len(hdr) /\ hdr \in Seq(Chars)
      /\ hdr = SubSeq(input, 1, taken) /\ scan_from = taken /\ hdr_end = 0
      /\ \A e \in Ends : e > taken
  BY InputIsSeq DEF recv_headers, IInv, RequestTypeOK, HeaderIsPrefix, HeaderSearched
<1>2. PICK k \in 1..HTTP_MAX_HEADER :
          /\ Arrives(k, HTTP_MAX_HEADER - taken)
          /\ hdr' = hdr \o Bytes(k)
          /\ taken' = taken + k
  BY <1>1 DEF recv_headers
<1>3. input' = input /\ peer' = peer /\ UNCHANGED <<lineVars, body, sid, sendVars>>
  BY DEF recv_headers
<1>4. /\ k \in Int /\ k >= 1 /\ k <= HTTP_MAX_HEADER - taken /\ taken + k <= Len(input)
      /\ hdr' = SubSeq(input, 1, taken + k)
      /\ hdr' \in Seq(Chars) /\ Len(hdr') = taken + k
  <2>1. HTTP_MAX_HEADER - taken \in Int
    BY <1>1, SizesAre
  <2>2. 0 \in 0..taken /\ taken + k - 0 = taken + k /\ k \in Int
    BY <1>1
  <2>3. /\ k \in 1..HTTP_MAX_HEADER - taken /\ taken + k <= Len(input)
        /\ SubSeq(input, 0 + 1, taken) \o Bytes(k) = SubSeq(input, 0 + 1, taken + k)
        /\ SubSeq(input, 0 + 1, taken + k) \in Seq(Chars)
        /\ Len(SubSeq(input, 0 + 1, taken + k)) = taken + k - 0
    BY <1>1, <1>2, <2>1, <2>2, BytesFollow
  <2>4. 0 + 1 = 1
    OBVIOUS
  <2>5. hdr' = SubSeq(input, 1, taken + k)
    BY <1>1, <1>2, <2>3, <2>4
  <2> QED BY <1>1, <2>1, <2>2, <2>3, <2>4, <2>5
<1>5. \A i \in 1..taken + k : hdr'[i] = input[i]
  BY <1>1, <1>4, HeaderIs
<1> DEFINE found == {i \in Start(scan_from)..Len(hdr') : BlankAt(hdr', i)}
<1>6. Start(scan_from) \in Nat /\ (Start(scan_from) = IF taken >= 3 THEN taken - 3 ELSE 0)
  BY <1>1 DEF Start
<1>7. \A i \in found : i \in Nat /\ i + 4 \in Ends
  <2> SUFFICES ASSUME NEW i \in found PROVE i \in Nat /\ i + 4 \in Ends
    OBVIOUS
  <2>1. i \in Nat /\ BlankAt(hdr', i)
    BY <1>1, <1>4, <1>6
  <2>2. i + 4 <= taken + k /\ i + 4 <= HTTP_MAX_HEADER /\ i + 4 <= Len(input)
    BY <1>1, <1>4, <2>1, SizesAre DEF BlankAt
  <2>3. /\ hdr'[i + 1] = input[i + 1] /\ hdr'[i + 2] = input[i + 2]
        /\ hdr'[i + 3] = input[i + 3] /\ hdr'[i + 4] = input[i + 4]
    <3>1. /\ i + 1 \in 1..taken + k /\ i + 2 \in 1..taken + k
          /\ i + 3 \in 1..taken + k /\ i + 4 \in 1..taken + k
      BY <1>1, <1>4, <2>1, <2>2
    <3> QED BY <1>5, <3>1, Zenon
  <2>4. /\ input[i + 1] = CR /\ input[i + 2] = LF
        /\ input[i + 3] = CR /\ input[i + 4] = LF
    BY <2>1, <2>3 DEF BlankAt
  <2>5. (i + 4) - 3 = i + 1 /\ (i + 4) - 2 = i + 2 /\ (i + 4) - 1 = i + 3
    BY <2>1
  <2> QED BY <1>1, <2>1, <2>2, <2>4, <2>5, EndsAre
<1>8. \A e \in Ends : e <= taken + k => e - 4 \in found
  <2> SUFFICES ASSUME NEW e \in Ends, e <= taken + k PROVE e - 4 \in found
    OBVIOUS
  <2>1. /\ e \in Nat /\ 4 <= e /\ e > taken
        /\ input[e - 3] = CR /\ input[e - 2] = LF
        /\ input[e - 1] = CR /\ input[e] = LF
    BY <1>1, EndsAre
  <2>2. e - 4 \in Start(scan_from)..Len(hdr')
    BY <1>1, <1>4, <1>6, <2>1
  <2>3. /\ hdr'[e - 3] = CR /\ hdr'[e - 2] = LF
        /\ hdr'[e - 1] = CR /\ hdr'[e] = LF
    BY <1>1, <1>4, <1>5, <2>1
  <2>4. (e - 4) + 1 = e - 3 /\ (e - 4) + 2 = e - 2 /\ (e - 4) + 3 = e - 1 /\ (e - 4) + 4 = e
    BY <2>1
  <2>5. BlankAt(hdr', e - 4)
    BY <1>4, <2>1, <2>3, <2>4 DEF BlankAt
  <2> QED BY <2>2, <2>5
<1>9. IF found # {}
      THEN hdr_end' = Min(found) + 4 /\ at' = "request" /\ UNCHANGED scan_from
      ELSE /\ scan_from' = Len(hdr')
           /\ at' = IF Len(hdr') < HTTP_MAX_HEADER THEN "headers" ELSE "closed"
           /\ UNCHANGED hdr_end
  BY DEF recv_headers
<1> HIDE DEF found
<1>10. HeaderIsPrefix'
  BY <1>2, <1>3, <1>4 DEF HeaderIsPrefix
<1>11. RequestTypeOK' /\ HeaderSearched'
  <2>1. /\ peer' \in {"open", "closed"} /\ request' \in Chars \cup {LF}
        /\ content_length' \in 0..ULONG_MAX /\ have_length' \in BOOLEAN
        /\ accept' \in Seq(STRING) /\ Len(accept') <= AcceptMax
        /\ body' \in Seq(Chars) /\ Len(body') <= content_length'
        /\ sid' \in Seq(Nat) /\ Len(sid') <= IdMax
        /\ reply' \in Seq(Nat \X Nat) /\ sent' \in 0..Len(reply')
        /\ heard' \in Seq(Nat \X Nat)
    BY <1>3 DEF IInv, RequestTypeOK, lineVars, sendVars
  <2>2. /\ p' \in 1..Len(hdr') + 1
        /\ taken' \in 0..Len(input') /\ Len(hdr') <= HTTP_MAX_HEADER
    <3>1. p' = p /\ p \in 1..taken + 1
      BY <1>1, <1>3 DEF IInv, RequestTypeOK, lineVars
    <3> QED BY <1>1, <1>2, <1>3, <1>4, <3>1, SizesAre
  <2>3. Ends' = Ends
    BY <1>3, InputKept
  <2>4. CASE found # {}
    <3>1. found \in SUBSET Nat
      BY <1>7
    <3>2. Min(found) \in found /\ \A i \in found : Min(found) <= i
      BY <2>4, <3>1, MinIsLeast
    <3>3. hdr_end' = Min(found) + 4 /\ at' = "request" /\ scan_from' = taken
      BY <1>1, <1>9, <2>4
    <3>4. Min(found) \in Nat /\ hdr_end' \in Ends /\ hdr_end' <= taken + k
      BY <1>4, <1>6, <1>7, <3>2, <3>3 DEF found, BlankAt
    <3>8. hdr_end' # 0
      BY <3>3, <3>4
    <3>5. \A e \in Ends : hdr_end' <= e
      <4> SUFFICES ASSUME NEW e \in Ends, e < hdr_end' PROVE FALSE
        BY <3>3, <3>4, <1>1, EndsAre
      <4>1. e \in Nat /\ e <= taken + k
        <5>1. Ends \subseteq Nat
          BY <1>1, EndsAre
        <5>2. taken + k \in Nat /\ hdr_end' \in Nat
          BY <1>1, <1>4, <3>4, <5>1
        <5> QED BY ONLY <3>4, <5>1, <5>2, e \in Ends, e < hdr_end'
      <4>2. Min(found) <= e - 4
        BY <1>8, <3>2, <4>1
      <4> QED BY ONLY <3>3, <3>4, <4>1, <4>2, e < hdr_end'
    <3>6. HeaderSearched'
      BY <2>3, <3>3, <3>4, <3>5, <3>8, Zenon DEF HeaderSearched
    <3>7. /\ at' \in Places /\ hdr_end' \in 0..Len(hdr') /\ scan_from' \in 0..Len(hdr')
      BY <1>1, <1>4, <3>3, <3>4 DEF Places
    <3> QED BY <1>1, <1>3, <1>4, <2>1, <2>2, <3>6, <3>7, Zenon DEF RequestTypeOK
  <2>5. CASE found = {}
    <3>1. /\ scan_from' = taken + k /\ hdr_end' = 0
          /\ at' = IF taken + k < HTTP_MAX_HEADER THEN "headers" ELSE "closed"
      BY <1>1, <1>4, <1>9, <2>5
    <3>2. \A e \in Ends : e > taken + k
      BY <1>1, <1>2, <1>8, <2>5, EndsAre
    <3>3. HeaderSearched'
      <4>1. taken + k >= HTTP_MAX_HEADER => Ends = {}
        BY <1>1, <1>4, <3>2, EndsAre, SizesAre
      <4>2. taken + k \in Int
        BY <1>1, <1>2
      <4>3. at' = "headers" => taken + k < HTTP_MAX_HEADER
        BY <3>1
      <4>4. at' = "closed" => Ends = {}
        BY <1>1, <1>4, <3>1, <4>1, <4>2, SizesAre
      <4> QED BY <1>4, <2>3, <3>1, <3>2, <4>3, <4>4 DEF HeaderSearched
    <3>4. at' \in Places /\ hdr_end' \in 0..Len(hdr') /\ scan_from' \in 0..Len(hdr')
      BY <1>1, <1>4, <3>1 DEF Places, Finished
    <3> QED BY <1>1, <1>3, <1>4, <2>1, <2>2, <3>3, <3>4, Zenon DEF RequestTypeOK
  <2> QED BY <2>4, <2>5
<1>12. at' \in {"headers", "request", "closed"}
  BY <1>9
<1>13. LinesTaken'
  BY <1>3, <1>12 DEF IInv, LinesTaken, recv_headers, lineVars
<1>14. BodyFollows'
  BY <1>3, <1>12 DEF IInv, BodyFollows, PostHandlers, recv_headers
<1>15. ReplyHeard'
  BY <1>3, <1>12 DEF IInv, ReplyHeard, recv_headers, sendVars
<1> QED BY <1>10, <1>11, <1>13, <1>14, <1>15 DEF IInv

(* recv fails: nothing but the place changes.                              *)
LEMMA RecvEnds == ASSUME IInv, recv_ends PROVE IInv'
<1>1. /\ at' = "closed" /\ peer = "closed" /\ at \in {"headers", "body"}
      /\ UNCHANGED <<input, peer, recvVars, lineVars, body, sid, sendVars>>
  BY DEF recv_ends
<1>2. RequestTypeOK'
  BY <1>1 DEF IInv, RequestTypeOK, Places, Finished, recvVars, lineVars, sendVars
<1>3. HeaderIsPrefix'
  BY <1>1 DEF IInv, HeaderIsPrefix, recvVars
<1>4. HeaderSearched'
  BY <1>1, InputKept DEF IInv, HeaderSearched, recvVars
<1>5. LinesTaken' /\ BodyFollows'
  BY <1>1 DEF LinesTaken, BodyFollows, PostHandlers
<1>6. ReplyHeard'
  BY <1>1 DEF IInv, ReplyHeard, sendVars
<1> QED BY <1>2, <1>3, <1>4, <1>5, <1>6 DEF IInv

(* memchr finds the first CR.                                              *)
LEMMA CrInFinds ==
    ASSUME NEW from \in Nat \ {0}, NEW to \in Nat
    PROVE  \/ CrIn(from, to) = 0 /\ \A i \in from..to : hdr[i] # CR
           \/ /\ CrIn(from, to) \in from..to
              /\ hdr[CrIn(from, to)] = CR
              /\ \A i \in from..CrIn(from, to) - 1 : hdr[i] # CR
<1> DEFINE crs == {i \in from..to : hdr[i] = CR}
<1>1. CASE crs = {}
  BY <1>1 DEF CrIn
<1>2. CASE crs # {}
  <2>1. CrIn(from, to) = Min(crs)
    BY <1>2 DEF CrIn
  <2>2. Min(crs) \in crs /\ \A i \in crs : Min(crs) <= i
    <3>1. crs \in SUBSET Nat
      OBVIOUS
    <3> HIDE DEF crs
    <3> QED BY <1>2, <3>1, MinIsLeast
  <2>3. CrIn(from, to) \in from..to /\ hdr[CrIn(from, to)] = CR
    BY <2>1, <2>2
  <2>4. \A i \in from..CrIn(from, to) - 1 : hdr[i] # CR
    <3> SUFFICES ASSUME NEW i \in from..CrIn(from, to) - 1, hdr[i] = CR PROVE FALSE
      OBVIOUS
    <3>1. i \in crs /\ i < CrIn(from, to)
      BY <2>3
    <3> QED BY <2>1, <2>2, <2>3, <3>1
  <2> QED BY <2>3, <2>4
<1> QED BY <1>1, <1>2

(* What is known of the header once its end is found.                      *)
LEMMA HeaderKnown ==
    ASSUME IInv, at \notin {"headers", "closed"}
    PROVE  /\ input \in Seq(Chars) /\ Len(input) \in Nat /\ Len(hdr) \in Nat
           /\ hdr_end \in Nat /\ 4 <= hdr_end /\ hdr_end <= Len(hdr)
           /\ Len(hdr) <= Len(input)
           /\ hdr_end \in Ends /\ hdr_end = Min(Ends)
           /\ input[hdr_end - 3] = CR /\ input[hdr_end - 2] = LF
           /\ input[hdr_end - 1] = CR /\ input[hdr_end] = LF
           /\ \A i \in 1..Len(hdr) : hdr[i] = input[i] /\ hdr[i] \in Chars
<1>1. /\ input \in Inputs /\ hdr \in Seq(Chars) /\ hdr_end \in 0..Len(hdr)
      /\ hdr = SubSeq(input, 1, Len(hdr)) /\ hdr_end # 0
      /\ hdr_end \in Ends /\ \A e \in Ends : hdr_end <= e
  BY DEF IInv, RequestTypeOK, HeaderIsPrefix, HeaderSearched
<1>2. input \in Seq(Chars) /\ Len(input) \in Nat /\ Len(hdr) \in Nat
  BY <1>1, InputIsSeq
<1>3. Len(hdr) <= Len(input)
  <2>1. taken \in 0..Len(input) /\ Len(hdr) <= taken
    BY DEF IInv, RequestTypeOK, HeaderIsPrefix
  <2> QED BY <1>2, <2>1
<1>4. hdr_end = Min(Ends)
  BY <1>1, EndsAre, MinIs
<1>5. \A i \in 1..Len(hdr) : hdr[i] = input[i] /\ hdr[i] \in Chars
  BY <1>1, <1>2, <1>3, HeaderIs, ElementOfSeq
<1> QED BY <1>1, <1>2, <1>3, <1>4, <1>5, EndsAre

(* A line that has an end ends at the first CR, which LF follows.          *)
LEMMA EolFinds ==
    ASSUME NEW i \in Nat \ {0}, NEW to \in Nat, EolOf(i, to) # 0
    PROVE  /\ EolOf(i, to) \in i..to - 1
           /\ hdr[EolOf(i, to)] = CR /\ hdr[EolOf(i, to) + 1] = LF
           /\ \A j \in i..EolOf(i, to) - 1 : hdr[j] # CR
<1> DEFINE cr == CrIn(i, to)
<1>1. cr # 0 /\ cr < to /\ hdr[cr + 1] = LF /\ EolOf(i, to) = cr
  BY DEF EolOf
<1>2. cr \in i..to /\ hdr[cr] = CR /\ \A j \in i..cr - 1 : hdr[j] # CR
  BY <1>1, CrInFinds
<1> QED BY <1>1, <1>2

(* One that has none has no CR, or one that is not followed by LF.         *)
LEMMA EolFindsNot ==
    ASSUME NEW i \in Nat \ {0}, NEW to \in Nat, EolOf(i, to) = 0
    PROVE  \/ \A j \in i..to : hdr[j] # CR
           \/ \E c \in i..to : /\ hdr[c] = CR /\ (c = to \/ hdr[c + 1] # LF)
                               /\ \A j \in i..c - 1 : hdr[j] # CR
<1> DEFINE cr == CrIn(i, to)
<1>1. \/ cr = 0 /\ \A j \in i..to : hdr[j] # CR
      \/ cr \in i..to /\ hdr[cr] = CR /\ \A j \in i..cr - 1 : hdr[j] # CR
  BY CrInFinds
<1>2. cr = 0 \/ ~(cr < to) \/ hdr[cr + 1] # LF
  BY DEF EolOf
<1> QED BY <1>1, <1>2

(* The header lines of the definition, once the header's end is known.     *)
LEMMA HeaderLinesAre ==
    ASSUME IInv, at \notin {"headers", "closed"}
    PROVE  \A q \in Int : q \in HeaderLines <=>
              /\ 3 <= q /\ q <= hdr_end - 2
              /\ input[q - 2] = CR /\ input[q - 1] = LF /\ input[q] # CR
              /\ \A i \in 1..hdr_end - 1 :
                    input[i] = CR /\ input[i + 1] # LF =>
                        \E j \in q..i : input[j] = CR /\ input[j + 1] = LF
<1>1. hdr_end = Min(Ends) /\ hdr_end \in Nat
  BY HeaderKnown
<1>2. HeaderLines =
        {q \in 3..hdr_end - 2 :
            /\ input[q - 2] = CR /\ input[q - 1] = LF /\ input[q] # CR
            /\ \A i \in 1..hdr_end - 1 :
                  input[i] = CR /\ input[i + 1] # LF =>
                      \E j \in q..i : input[j] = CR /\ input[j + 1] = LF}
  BY <1>1, Zenon DEF HeaderLines
<1> HIDE DEF HeaderLines
<1> QED BY <1>1, <1>2

(* Which lines are of a kind.                                              *)
LEMMA LinesOfAre ==
    ASSUME NEW kind
    PROVE  \A q : q \in LinesOf(kind) <=>
              /\ q \in HeaderLines /\ input[q].is = kind
              /\ kind = "content-length" => input[q].digits # NoDigits
BY Zenon DEF LinesOf

(* The line that starts at n and ends at e is the one header line there,   *)
(* and the next starts after it.                                           *)
LEMMA NextLine ==
    ASSUME IInv, at \notin {"headers", "closed"}, NEW n, LineStart(n),
           EolOf(n, hdr_end) \notin {0, n}
    PROVE  /\ EolOf(n, hdr_end) + 2 \in Nat /\ n \in Nat
           /\ n < EolOf(n, hdr_end) + 2
           /\ LineStart(EolOf(n, hdr_end) + 2)
           /\ n \in HeaderLines
           /\ \A r \in HeaderLines : r < EolOf(n, hdr_end) + 2 => r <= n
<1> DEFINE e == EolOf(n, hdr_end)
<1>1. /\ hdr_end \in Nat /\ hdr_end >= 4 /\ hdr_end <= Len(hdr) /\ Len(hdr) \in Nat
      /\ input[hdr_end - 3] = CR /\ input[hdr_end - 1] = CR
      /\ \A i \in 1..Len(hdr) : hdr[i] = input[i]
  BY HeaderKnown
<1>2. /\ n \in 3..hdr_end - 1 /\ input[n - 2] = CR /\ input[n - 1] = LF
      /\ \A i \in 1..n - 1 : input[i] = CR => input[i + 1] = LF
  BY DEF LineStart
<1>3. /\ e \in n..hdr_end - 1 /\ e # n /\ hdr[e] = CR /\ hdr[e + 1] = LF
      /\ \A j \in n..e - 1 : hdr[j] # CR
  BY <1>1, <1>2, EolFinds
<1> HIDE DEF e
<1>4. /\ input[e] = CR /\ input[e + 1] = LF
      /\ \A j \in n..e - 1 : input[j] # CR
  <2>1. /\ e \in 1..Len(hdr) /\ e + 1 \in 1..Len(hdr)
        /\ \A j \in n..e - 1 : j \in 1..Len(hdr)
    <3>1. n \in Int /\ 3 <= n /\ hdr_end \in Int /\ hdr_end <= Len(hdr) /\ Len(hdr) \in Int
      BY ONLY <1>1, <1>2
    <3>2. e \in n..hdr_end - 1
      BY <1>3
    <3> QED BY ONLY <3>1, <3>2
  <2>2. \A i \in 1..Len(hdr) : hdr[i] = input[i]
    BY <1>1
  <2> QED BY <1>3, <2>1, <2>2, Zenon
<1>5. n <= hdr_end - 3
  <2>1. n # hdr_end - 2
    <3>1. n = hdr_end - 2 => n - 1 = hdr_end - 3
      BY <1>1, <1>2
    <3> QED BY <1>1, <1>2, <3>1, CRIsNotLF
  <2>2. n # hdr_end - 1
    BY <1>1, <1>2, <1>3
  <2> QED BY <1>1, <1>2, <2>1, <2>2
<1>6. e <= hdr_end - 3
  BY <1>1, <1>2, <1>3, <1>4, <1>5
<1>7. \A i \in 1..e + 1 : input[i] = CR => input[i + 1] = LF
  <2> SUFFICES ASSUME NEW i \in 1..e + 1, input[i] = CR PROVE input[i + 1] = LF
    OBVIOUS
  <2>1. CASE i < n
    BY <1>2, <2>1
  <2>2. CASE i >= n /\ i < e
    BY <1>2, <1>3, <1>4, <2>2
  <2>3. CASE i = e
    BY <1>4, <2>3
  <2>4. CASE i = e + 1
    BY <1>4, <2>4, CRIsNotLF
  <2> QED BY <1>2, <1>3, <2>1, <2>2, <2>3, <2>4
<1>8. LineStart(e + 2)
  <2>1. e + 2 \in 3..hdr_end - 1 /\ (e + 2) - 2 = e /\ (e + 2) - 1 = e + 1
    BY <1>1, <1>2, <1>3, <1>6
  <2> QED BY <1>4, <1>7, <2>1, Zenon DEF LineStart
<1>9. n \in HeaderLines
  <2>1. \A i \in 1..hdr_end - 1 :
           input[i] = CR /\ input[i + 1] # LF =>
               \E j \in n..i : input[j] = CR /\ input[j + 1] = LF
    <3> SUFFICES ASSUME NEW i \in 1..hdr_end - 1, input[i] = CR, input[i + 1] # LF
                 PROVE  e \in n..i
      BY <1>4
    <3>1. ~(i <= e + 1)
      BY <1>2, <1>3, <1>7
    <3> QED BY <1>1, <1>2, <1>3, <3>1
  <2>2. input[n] # CR /\ 3 <= n /\ n <= hdr_end - 2 /\ n \in Int
    BY <1>1, <1>2, <1>3, <1>4, <1>5
  <2> QED BY <1>2, <2>1, <2>2, HeaderLinesAre
<1>10. \A r \in HeaderLines : r < e + 2 => r <= n
  <2> SUFFICES ASSUME NEW r \in HeaderLines, r < e + 2, ~(r <= n) PROVE FALSE
    OBVIOUS
  <2>1. r \in Int
    BY DEF HeaderLines
  <2>2. input[r - 2] = CR
    BY <2>1, HeaderLinesAre
  <2>3. r - 2 \in n - 1..e - 1
    BY <1>2, <1>3, <2>1
  <2>4. r - 2 = n - 1 \/ r - 2 \in n..e - 1
    BY <1>2, <1>3, <2>3
  <2> QED BY <1>2, <1>4, <2>2, <2>4, CRIsNotLF
<1>11. e + 2 \in Nat /\ n \in Nat /\ n < e + 2
  BY <1>1, <1>2, <1>3
<1> QED BY <1>8, <1>9, <1>10, <1>11 DEF e

(* A line that has no end, or is empty, is followed by no header line.     *)
LEMMA NoMoreLines ==
    ASSUME IInv, at \notin {"headers", "closed"}, NEW n, LineStart(n),
           EolOf(n, hdr_end) \in {0, n}
    PROVE  n \in Nat /\ n < hdr_end /\ \A r \in HeaderLines : r < n
<1>1. /\ hdr_end \in Nat /\ hdr_end >= 4 /\ hdr_end <= Len(hdr) /\ Len(hdr) \in Nat
      /\ Len(hdr) <= Len(input) /\ Len(input) \in Nat /\ hdr_end = Min(Ends)
      /\ input[hdr_end - 1] = CR /\ input[hdr_end] = LF
      /\ \A i \in 1..Len(hdr) : hdr[i] = input[i]
  BY HeaderKnown
<1>2. /\ n \in 3..hdr_end - 1 /\ input[n - 2] = CR /\ input[n - 1] = LF
      /\ \A i \in 1..n - 1 : input[i] = CR => input[i + 1] = LF
  BY DEF LineStart
<1>20. /\ n \in Int /\ hdr_end \in Int /\ Len(hdr) \in Int
       /\ 3 <= n /\ n < hdr_end /\ hdr_end <= Len(hdr)
  BY ONLY <1>1, <1>2
<1>21. n \in 1..Len(hdr) /\ n + 1 \in 1..Len(hdr) /\ n \in Nat \ {0} /\ hdr_end \in Nat
  BY ONLY <1>20
<1>3. ASSUME NEW r \in HeaderLines, r >= n PROVE FALSE
  <2>1. r \in Int
    BY DEF HeaderLines
  <2>2. /\ r <= hdr_end - 2 /\ input[r - 2] = CR /\ input[r - 1] = LF /\ input[r] # CR
        /\ \A i \in 1..hdr_end - 1 :
              input[i] = CR /\ input[i + 1] # LF =>
                  \E j \in r..i : input[j] = CR /\ input[j + 1] = LF
    BY <2>1, HeaderLinesAre
  <2>3. CASE EolOf(n, hdr_end) = 0
    <3>1. \/ \A j \in n..hdr_end : hdr[j] # CR
          \/ \E c \in n..hdr_end : /\ hdr[c] = CR /\ (c = hdr_end \/ hdr[c + 1] # LF)
                                   /\ \A j \in n..c - 1 : hdr[j] # CR
      <4> HIDE <1>1, <1>2
      <4> QED BY <1>21, <2>3, EolFindsNot, Zenon
    <3>2. ~ \A j \in n..hdr_end : hdr[j] # CR
      BY <1>1, <1>2
    <3>3. PICK c \in n..hdr_end : /\ hdr[c] = CR /\ (c = hdr_end \/ hdr[c + 1] # LF)
                                  /\ \A j \in n..c - 1 : hdr[j] # CR
      BY <3>1, <3>2
    <3>4. /\ c \in n..hdr_end - 1 /\ input[c] = CR /\ input[c + 1] # LF
          /\ \A j \in n..c - 1 : input[j] # CR
      <4>1. /\ c \in 1..Len(hdr) /\ hdr_end \in 1..Len(hdr)
            /\ \A j \in n..c - 1 : j \in 1..Len(hdr)
        BY <1>1, <1>2
      <4>2. \A i \in 1..Len(hdr) : hdr[i] = input[i]
        BY <1>1
      <4>3. input[c] = CR /\ \A j \in n..c - 1 : input[j] # CR
        BY <3>3, <4>1, <4>2, Zenon
      <4>4. c # hdr_end
        BY <1>1, <4>3, CRIsNotLF
      <4>5. c + 1 \in 1..Len(hdr) /\ c \in n..hdr_end - 1
        BY <1>1, <1>2, <4>1, <4>4
      <4>6. input[c + 1] # LF
        BY <3>3, <4>2, <4>4, <4>5, Zenon
      <4> QED BY <4>3, <4>5, <4>6
    <3>5. PICK j \in r..c : input[j] = CR /\ input[j + 1] = LF
      <4>1. c \in 1..hdr_end - 1
        BY ONLY <1>20, <3>4
      <4> QED BY <2>2, <3>4, <4>1, Zenon
    <3>6. j \in n..c - 1
      BY <1>2, <2>1, <1>3, <3>4, <3>5
    <3> QED BY <3>4, <3>5, <3>6
  <2>4. CASE EolOf(n, hdr_end) = n
    <3>1. hdr[n] = CR /\ hdr[n + 1] = LF
      BY <1>20, <1>21, <2>4, EolFinds
    <3>2. input[n] = CR /\ input[n + 1] = LF
      <4>2. \A i \in 1..Len(hdr) : hdr[i] = input[i]
        BY <1>1
      <4> QED BY <1>21, <3>1, <4>2, Zenon
    <3>3. n + 1 \in Ends
      <4>1. (n + 1) - 3 = n - 2 /\ (n + 1) - 2 = n - 1 /\ (n + 1) - 1 = n
        BY <1>2
      <4>2. n + 1 \in Int /\ 4 <= n + 1 /\ n + 1 <= Len(input) /\ n + 1 <= HTTP_MAX_HEADER
        <5>1. Len(hdr) <= HTTP_MAX_HEADER
          BY DEF IInv, RequestTypeOK
        <5> QED BY <1>1, <1>2, <5>1, SizesAre
      <4>3. input \in Inputs
        BY DEF IInv, RequestTypeOK
      <4> QED BY <1>2, <3>2, <4>1, <4>2, <4>3, EndsAre
    <3>4. hdr_end <= n + 1
      BY <1>1, <3>3 DEF IInv, HeaderSearched
    <3> QED BY <1>1, <1>2, <1>3, <2>1, <2>2, <3>4
  <2> QED BY <2>3, <2>4
<1>4. \A r \in HeaderLines : r < n
  <2>1. \A r \in HeaderLines : r \in Int
    BY DEF HeaderLines
  <2> QED BY <1>2, <1>3, <2>1
<1> QED BY <1>1, <1>2, <1>4

(* The request line: the first of the lines starts after it.               *)
LEMMA RequestLine == ASSUME IInv, request_line PROVE IInv'
<1>1. /\ at = "request" /\ at \notin {"headers", "closed"}
      /\ UNCHANGED <<input, peer, recvVars, content_length, have_length, accept,
                     body, sid, sendVars>>
  BY DEF request_line
<1>2. /\ input \in Seq(Chars) /\ hdr_end \in Nat /\ hdr_end >= 4
      /\ hdr_end <= Len(hdr) /\ Len(hdr) \in Nat
      /\ input[hdr_end - 3] = CR
      /\ \A i \in 1..Len(hdr) : hdr[i] = input[i] /\ hdr[i] \in Chars
  BY <1>1, HeaderKnown
<1> DEFINE e == EolOf(1, Len(hdr))
<1>3. \/ /\ e > 1 /\ hdr[1].is = "request"
         /\ request' = hdr[1] /\ p' = e + 2 /\ at' = "lines"
      \/ at' = "closed" /\ UNCHANGED <<request, p>>
  BY DEF request_line
<1> HIDE DEF e
<1>4. HeaderIsPrefix' /\ HeaderSearched'
  <2>1. taken \in Nat /\ taken' = taken /\ UNCHANGED <<input, hdr, scan_from, hdr_end>>
    BY <1>1 DEF IInv, RequestTypeOK, recvVars
  <2>2. at' # "headers" /\ taken' >= taken /\ taken' \in Nat
    BY <1>3, <2>1
  <2> QED BY <1>1, <1>3, <2>1, <2>2, HeaderKept
<1>5. ReplyHeard'
  BY <1>1, <1>3 DEF IInv, ReplyHeard, sendVars
<1>6. BodyFollows'
  BY <1>1, <1>3 DEF IInv, BodyFollows, PostHandlers
<1>7. ASSUME p' \in 1..Len(hdr) + 1, request' \in Chars \cup {LF} PROVE RequestTypeOK'
  BY <1>1, <1>3, <1>7 DEF IInv, RequestTypeOK, Places, Finished, recvVars, sendVars
<1>8. CASE at' = "closed" /\ UNCHANGED <<request, p>>
  <2>1. RequestTypeOK'
    BY <1>7, <1>8 DEF IInv, RequestTypeOK
  <2>2. LinesTaken'
    BY <1>8 DEF LinesTaken
  <2> QED BY <1>4, <1>5, <1>6, <2>1, <2>2 DEF IInv
<1>9. CASE /\ e > 1 /\ hdr[1].is = "request"
           /\ request' = hdr[1] /\ p' = e + 2 /\ at' = "lines"
  <2>1. /\ e \in 1..Len(hdr) - 1 /\ e # 1 /\ hdr[e] = CR /\ hdr[e + 1] = LF
        /\ \A j \in 1..e - 1 : hdr[j] # CR
    <3>1. e # 0
      BY <1>9
    <3>2. 1 \in Nat \ {0} /\ e = EolOf(1, Len(hdr))
      BY DEF e
    <3> QED BY <1>2, <1>9, <3>1, <3>2, EolFinds
  <2>2. /\ input[e] = CR /\ input[e + 1] = LF /\ \A j \in 1..e - 1 : input[j] # CR
        /\ hdr[1] \in Chars
    <3>1. /\ 1 \in 1..Len(hdr) /\ e \in 1..Len(hdr) /\ e + 1 \in 1..Len(hdr)
          /\ \A j \in 1..e - 1 : j \in 1..Len(hdr)
      BY <1>2, <2>1
    <3> QED BY <1>2, <2>1, <3>1, Zenon
  <2>3. e \in 2..hdr_end - 3
    <3>1. ~(hdr_end - 3 \in 1..e - 1)
      BY <1>2, <2>2
    <3> QED BY <1>2, <2>1, <3>1
  <2>4. RequestTypeOK'
    <3>1. p' \in 1..Len(hdr) + 1 /\ request' \in Chars \cup {LF}
      BY <1>2, <1>9, <2>2, <2>3
    <3> QED BY <1>7, <3>1
  <2>5. LineStart(p)'
    <3>1. p' = e + 2 /\ input' = input /\ hdr_end' = hdr_end
      BY <1>1, <1>9 DEF recvVars
    <3>2. e + 2 \in 3..hdr_end - 1 /\ (e + 2) - 2 = e /\ (e + 2) - 1 = e + 1
      BY <1>2, <2>3
    <3>3. \A i \in 1..e + 1 : input[i] = CR => input[i + 1] = LF
      <4> SUFFICES ASSUME NEW i \in 1..e + 1, input[i] = CR PROVE input[i + 1] = LF
        OBVIOUS
      <4>1. ~(i \in 1..e - 1) /\ i # e + 1
        BY <2>2, CRIsNotLF
      <4> QED BY <2>2, <2>3, <4>1
    <3>4. LineStart(e + 2)
      BY <2>2, <3>2, <3>3, Zenon DEF LineStart
    <3> QED BY <3>1, <3>4, Zenon DEF LineStart
  <2>6. LengthTaken(p)' /\ AcceptTaken(p)'
    <3>1. p' = e + 2 /\ input' = input
      BY <1>1, <1>9
    <3>2. \A r \in HeaderLines : r >= e + 2
      <4> SUFFICES ASSUME NEW r \in HeaderLines, ~(r >= e + 2) PROVE FALSE
        OBVIOUS
      <4>1. r \in Int
        BY DEF HeaderLines
      <4>2. 3 <= r /\ input[r - 2] = CR
        BY <1>1, <4>1, HeaderLinesAre
      <4>3. r - 2 \in 1..e - 1
        BY <2>3, <4>1, <4>2
      <4> QED BY <2>2, <4>2, <4>3
    <3>3. \A kind : LastBefore(kind, e + 2, 0)
      BY <3>2, LinesOfAre, Zenon DEF LastBefore
    <3>4. \A kind : LastBefore(kind, p, 0)'
      <4>1. \A kind : LinesOf(kind)' = LinesOf(kind)
        BY <3>1, InputKept, Zenon
      <4>2. \A kind : \A r \in LinesOf(kind) : r >= p'
        BY <3>1, <3>2, LinesOfAre, Zenon
      <4> QED BY <4>1, <4>2, Zenon DEF LastBefore
    <3>5. ~have_length' /\ content_length' = 0 /\ accept' = <<>>
      BY <1>1 DEF IInv, LinesTaken
    <3>6. LengthTaken(p)'
      BY <3>4, <3>5 DEF LengthTaken
    <3>7. AcceptTaken(p)'
      BY <3>4, <3>5 DEF AcceptTaken
    <3> QED BY <3>6, <3>7
  <2>7. LinesTaken'
    BY <1>9, <2>2, <2>5, <2>6 DEF LinesTaken
  <2> QED BY <1>4, <1>5, <1>6, <2>4, <2>7 DEF IInv
<1> QED BY <1>3, <1>8, <1>9

(* What a line gives is taken, of those of its kind the last.              *)
LEMMA LineTaken ==
    ASSUME IInv, at \notin {"headers", "closed"}, NEW n, LineStart(n),
           EolOf(n, hdr_end) \notin {0, n},
           NEW kind, NEW q \in Nat, LastBefore(kind, n, q)
    PROVE  /\ n \in LinesOf(kind) => LastBefore(kind, EolOf(n, hdr_end) + 2, n)
           /\ n \notin LinesOf(kind) => LastBefore(kind, EolOf(n, hdr_end) + 2, q)
<1> DEFINE m == EolOf(n, hdr_end) + 2
<1>1. /\ m \in Nat /\ n \in Nat /\ n < m
      /\ \A r \in HeaderLines : r < m => r <= n
  BY NextLine
<1> HIDE DEF m
<1>2. \A r \in LinesOf(kind) : r \in Int /\ r \in HeaderLines
  BY LinesOfAre DEF HeaderLines
<1>3. \A r \in LinesOf(kind) : r >= m \/ r <= n
  BY <1>1, <1>2
<1>4. n \in LinesOf(kind) => LastBefore(kind, m, n)
  BY <1>1, <1>3 DEF LastBefore
<1>5. n \notin LinesOf(kind) => LastBefore(kind, m, q)
  <2> SUFFICES ASSUME n \notin LinesOf(kind) PROVE LastBefore(kind, m, q)
    OBVIOUS
  <2>1. \A r \in LinesOf(kind) : r >= n => r >= m
    BY <1>1, <1>2, <1>3
  <2>2. CASE q = 0 /\ \A r \in LinesOf(kind) : r >= n
    BY <2>1, <2>2 DEF LastBefore
  <2>3. CASE q \in LinesOf(kind) /\ q < n /\ \A r \in LinesOf(kind) : r >= n \/ r <= q
    <3>1. q < m
      BY <1>1, <2>3
    <3>2. \A r \in LinesOf(kind) : r >= m \/ r <= q
      BY <2>1, <2>3
    <3> QED BY <2>3, <3>1, <3>2 DEF LastBefore
  <2> QED BY <2>2, <2>3 DEF LastBefore
<1> QED BY <1>4, <1>5 DEF m

(* When there are no more lines, what was taken is what all of them give.  *)
LEMMA AllTaken ==
    ASSUME NEW n \in Nat, n < hdr_end, hdr_end \in Nat,
           \A r \in HeaderLines : r < n, LengthTaken(n), AcceptTaken(n)
    PROVE  LengthTaken(hdr_end) /\ AcceptTaken(hdr_end)
<1>1. \A r \in HeaderLines : r \in Int
  BY DEF HeaderLines
<1>2. ASSUME NEW kind, NEW q \in Nat, LastBefore(kind, n, q)
      PROVE  LastBefore(kind, hdr_end, q)
  <2>1. \A r \in LinesOf(kind) : r \in Int /\ r < n
    BY <1>1, LinesOfAre
  <2> QED BY <1>2, <2>1 DEF LastBefore
<1>3. LengthTaken(hdr_end)
  BY <1>2, Zenon DEF LengthTaken
<1>4. AcceptTaken(hdr_end)
  BY <1>2, Zenon DEF AcceptTaken
<1> QED BY <1>3, <1>4

(* A header line.                                                          *)
LEMMA HeaderLine == ASSUME IInv, header_line PROVE IInv'
<1>1. /\ at = "lines" /\ at \notin {"headers", "closed"}
      /\ UNCHANGED <<input, peer, recvVars, request, body, sid, sendVars>>
  BY DEF header_line
<1>2. /\ input \in Seq(Chars) /\ hdr_end \in Nat /\ hdr_end >= 4
      /\ hdr_end <= Len(hdr) /\ Len(hdr) \in Nat
      /\ \A i \in 1..Len(hdr) : hdr[i] = input[i] /\ hdr[i] \in Chars
  BY <1>1, HeaderKnown
<1>3. LineStart(p) /\ LengthTaken(p) /\ AcceptTaken(p)
  BY <1>1 DEF IInv, LinesTaken
<1>4. p \in 3..hdr_end - 1
  BY <1>3 DEF LineStart
<1>5. input' = input /\ hdr_end' = hdr_end /\ hdr' = hdr
  BY <1>1 DEF recvVars
<1> DEFINE e == EolOf(p, hdr_end)
           line == hdr[p]
<1>6. IF e \in {0, p}
      THEN at' = "route" /\ UNCHANGED <<p, content_length, have_length, accept>>
      ELSE /\ p' = e + 2
           /\ IF line.is = "content-length" /\ line.digits # NoDigits
              THEN /\ content_length' = strtoul(line.sign, line.digits)
                   /\ have_length' = TRUE
              ELSE UNCHANGED <<content_length, have_length>>
           /\ accept' = IF line.is = "accept" THEN cut(line.ranges, AcceptMax)
                        ELSE accept
           /\ UNCHANGED at
  <2>1. p <= hdr_end
    BY <1>2, <1>4
  <2> QED BY <2>1 DEF header_line
<1> HIDE DEF e
<1>7. line = input[p] /\ line \in Chars
  BY <1>2, <1>4
<1> HIDE DEF line
<1>8. at' \in {"lines", "route"}
  BY <1>1, <1>6
<1>9. HeaderIsPrefix' /\ HeaderSearched'
  <2>1. taken \in Nat /\ taken' = taken /\ UNCHANGED <<input, hdr, scan_from, hdr_end>>
    BY <1>1 DEF IInv, RequestTypeOK, recvVars
  <2>2. at' # "headers" /\ taken' >= taken /\ taken' \in Nat
    BY <1>8, <2>1
  <2> QED BY <1>1, <1>8, <2>1, <2>2, HeaderKept
<1>10. ReplyHeard'
  BY <1>1, <1>8 DEF IInv, ReplyHeard, sendVars
<1>11. BodyFollows'
  BY <1>1, <1>8 DEF IInv, BodyFollows, PostHandlers
<1>12. body = <<>> /\ Len(body) = 0
  BY <1>1 DEF IInv, BodyFollows
<1>13. ASSUME p' \in 1..Len(hdr) + 1, content_length' \in 0..ULONG_MAX,
              have_length' \in BOOLEAN, accept' \in Seq(STRING),
              Len(accept') <= AcceptMax
       PROVE  RequestTypeOK'
  <2>1. body' \in Seq(Chars) /\ Len(body') <= content_length'
    <3>1. body' = <<>> /\ Len(<<>>) = 0 /\ <<>> \in Seq(Chars)
      BY <1>1, <1>12, EmptySeq
    <3> QED BY <1>13, <3>1, SizesAre
  <2>2. at' \in Places
    BY <1>8 DEF Places
  <2> QED BY <1>1, <1>13, <2>1, <2>2 DEF IInv, RequestTypeOK, recvVars, sendVars
<1>14. request' \in Chars /\ request'.is = "request"
  BY <1>1 DEF IInv, LinesTaken
<1>15. CASE e \in {0, p}
  <2>1. at' = "route" /\ UNCHANGED <<p, content_length, have_length, accept>>
    BY <1>6, <1>15
  <2>2. RequestTypeOK'
    BY <1>13, <2>1 DEF IInv, RequestTypeOK
  <2>3. p \in Nat /\ p < hdr_end /\ \A r \in HeaderLines : r < p
    BY <1>1, <1>3, <1>15, NoMoreLines DEF e
  <2>4. LengthTaken(hdr_end) /\ AcceptTaken(hdr_end)
    BY <1>2, <1>3, <2>3, AllTaken
  <2>5. LengthTaken(hdr_end)' /\ AcceptTaken(hdr_end)'
    <3>1. LengthTaken(hdr_end)' <=> LengthTaken(hdr_end)
      BY <1>5, <2>1, InputKept, Zenon DEF LengthTaken
    <3>2. AcceptTaken(hdr_end)' <=> AcceptTaken(hdr_end)
      BY <1>5, <2>1, InputKept, Zenon DEF AcceptTaken
    <3> QED BY <2>4, <3>1, <3>2
  <2>6. LinesTaken'
    BY <1>14, <2>1, <2>5 DEF LinesTaken
  <2> QED BY <1>9, <1>10, <1>11, <2>2, <2>6 DEF IInv
<1>16. CASE e \notin {0, p}
  <2>1. /\ p' = e + 2 /\ at' = "lines"
        /\ IF line.is = "content-length" /\ line.digits # NoDigits
           THEN /\ content_length' = strtoul(line.sign, line.digits)
                /\ have_length' = TRUE
           ELSE UNCHANGED <<content_length, have_length>>
        /\ accept' = IF line.is = "accept" THEN cut(line.ranges, AcceptMax) ELSE accept
    BY <1>1, <1>6, <1>16
  <2>2. /\ e + 2 \in Nat /\ p \in Nat /\ p < e + 2 /\ LineStart(e + 2)
        /\ p \in HeaderLines
    BY <1>1, <1>3, <1>16, NextLine DEF e
  <2>3. RequestTypeOK'
    <3>1. p' \in 1..Len(hdr) + 1
      BY <1>2, <2>1, <2>2 DEF LineStart
    <3>2. content_length' \in 0..ULONG_MAX /\ have_length' \in BOOLEAN
      <4>1. CASE line.is = "content-length" /\ line.digits # NoDigits
        <5>1. line.digits \in Nat
          BY <1>7, <4>1, Fields
        <5> QED BY <2>1, <4>1, <5>1, StrtoulFits
      <4>2. CASE ~(line.is = "content-length" /\ line.digits # NoDigits)
        BY <2>1, <4>2 DEF IInv, RequestTypeOK
      <4> QED BY <4>1, <4>2
    <3>3. accept' \in Seq(STRING) /\ Len(accept') <= AcceptMax
      <4>1. CASE line.is = "accept"
        <5>1. line.ranges \in Seq(STRING)
          BY <1>7, <4>1, Fields
        <5> QED BY <2>1, <4>1, <5>1, SizesAre, CutFits
      <4>2. CASE line.is # "accept"
        BY <2>1, <4>2 DEF IInv, RequestTypeOK
      <4> QED BY <4>1, <4>2
    <3> QED BY <1>13, <3>1, <3>2, <3>3
  <2>4. LineStart(p)'
    BY <1>5, <2>1, <2>2, Zenon DEF LineStart
  <2>5. ASSUME NEW kind, NEW q, LastBefore(kind, e + 2, q)
        PROVE  LastBefore(kind, p, q)'
    <3>1. LinesOf(kind)' = LinesOf(kind) /\ p' = e + 2
      BY <1>5, <2>1, InputKept
    <3> QED BY <2>5, <3>1, Zenon DEF LastBefore
  <2>6. LengthTaken(p)'
    <3>1. PICK q \in Nat :
             /\ LastBefore("content-length", p, q)
             /\ have_length <=> q # 0
             /\ content_length = IF q = 0 THEN 0
                                 ELSE strtoul(input[q].sign, input[q].digits)
      BY <1>3 DEF LengthTaken
    <3>2. /\ p \in LinesOf("content-length") => LastBefore("content-length", e + 2, p)
          /\ p \notin LinesOf("content-length") => LastBefore("content-length", e + 2, q)
      BY <1>1, <1>3, <1>16, <3>1, LineTaken DEF e
    <3>3. p \in LinesOf("content-length") <=>
             line.is = "content-length" /\ line.digits # NoDigits
      BY <1>7, <2>2, LinesOfAre
    <3>4. CASE p \in LinesOf("content-length")
      <4>1. PICK n \in Nat : n = p
        BY <2>2
      <4>2. LastBefore("content-length", p, n)'
        BY <2>5, <3>2, <3>4, <4>1
      <4>3. have_length' = TRUE /\ n # 0
            /\ content_length' = strtoul(input'[n].sign, input'[n].digits)
        BY <1>4, <1>5, <1>7, <2>1, <3>3, <3>4, <4>1
      <4> QED BY <4>2, <4>3, Zenon DEF LengthTaken
    <3>5. CASE p \notin LinesOf("content-length")
      <4>1. LastBefore("content-length", p, q)'
        BY <2>5, <3>2, <3>5
      <4>2. /\ have_length' <=> q # 0
            /\ content_length' = IF q = 0 THEN 0
                                 ELSE strtoul(input'[q].sign, input'[q].digits)
        BY <1>5, <2>1, <3>1, <3>3, <3>5
      <4> QED BY <4>1, <4>2, Zenon DEF LengthTaken
    <3> QED BY <3>4, <3>5
  <2>7. AcceptTaken(p)'
    <3>1. PICK q \in Nat :
             /\ LastBefore("accept", p, q)
             /\ accept = IF q = 0 THEN <<>> ELSE cut(input[q].ranges, AcceptMax)
      BY <1>3 DEF AcceptTaken
    <3>2. /\ p \in LinesOf("accept") => LastBefore("accept", e + 2, p)
          /\ p \notin LinesOf("accept") => LastBefore("accept", e + 2, q)
      BY <1>1, <1>3, <1>16, <3>1, LineTaken DEF e
    <3>3. p \in LinesOf("accept") <=> line.is = "accept"
      BY <1>7, <2>2, LinesOfAre
    <3>4. CASE p \in LinesOf("accept")
      <4>1. PICK n \in Nat : n = p
        BY <2>2
      <4>2. LastBefore("accept", p, n)'
        BY <2>5, <3>2, <3>4, <4>1
      <4>3. n # 0 /\ accept' = cut(input'[n].ranges, AcceptMax)
        BY <1>4, <1>5, <1>7, <2>1, <3>3, <3>4, <4>1
      <4> QED BY <4>2, <4>3, Zenon DEF AcceptTaken
    <3>5. CASE p \notin LinesOf("accept")
      <4>1. LastBefore("accept", p, q)'
        BY <2>5, <3>2, <3>5
      <4>2. accept' = IF q = 0 THEN <<>> ELSE cut(input'[q].ranges, AcceptMax)
        BY <1>5, <2>1, <3>1, <3>3, <3>5
      <4> QED BY <4>1, <4>2, Zenon DEF AcceptTaken
    <3> QED BY <3>4, <3>5
  <2>8. LinesTaken'
    BY <1>14, <2>1, <2>4, <2>6, <2>7 DEF LinesTaken
  <2> QED BY <1>9, <1>10, <1>11, <2>3, <2>8 DEF IInv
<1> QED BY <1>15, <1>16

(* A response is two bytes of head and, unless it is the 204, two of body. *)
LEMMA ResponseIs ==
    ASSUME NEW status \in Nat
    PROVE  /\ HeadOf(status) \o BodyOf(status) \in Seq(Nat \X Nat)
           /\ Len(HeadOf(status) \o BodyOf(status)) \in 2..4
<1>1. HeadOf(status) \in Seq(Nat \X Nat) /\ Len(HeadOf(status)) = 2
  BY DEF HeadOf
<1>2. BodyOf(status) \in Seq(Nat \X Nat) /\ Len(BodyOf(status)) \in 0..2
  <2>1. <<>> \in Seq(Nat \X Nat) /\ Len(<<>>) \in 0..2
    BY EmptySeq
  <2>2. <<<<status, 3>>, <<status, 4>>>> \in Seq(Nat \X Nat)
        /\ Len(<<<<status, 3>>, <<status, 4>>>>) \in 0..2
    OBVIOUS
  <2> QED BY <2>1, <2>2 DEF BodyOf
<1>3. /\ HeadOf(status) \o BodyOf(status) \in Seq(Nat \X Nat)
      /\ Len(HeadOf(status) \o BodyOf(status)) = Len(HeadOf(status)) + Len(BodyOf(status))
  BY <1>1, <1>2, ConcatProperties, Zenon
<1>4. Len(HeadOf(status)) + Len(BodyOf(status)) \in 2..4
  <2> DEFINE n == Len(BodyOf(status))
  <2>1. n \in 0..2
    BY <1>2
  <2> HIDE DEF n
  <2>2. 2 + n \in 2..4
    BY <2>1
  <2> QED BY <1>1, <2>2 DEF n
<1> QED BY <1>3, <1>4

(* A response is begun.                                                    *)
LEMMA Answered ==
    ASSUME IInv, NEW status \in Nat, answer(status), at \in {"route", "body"},
           UNCHANGED <<input, peer, recvVars, lineVars>>
    PROVE  IInv'
<1>1. /\ reply' = HeadOf(status) \o BodyOf(status) /\ at' = "reply"
      /\ UNCHANGED <<body, sid, sent, heard>>
  BY DEF answer
<1>2. reply' \in Seq(Nat \X Nat) /\ Len(reply') >= 2 /\ Len(reply') \in Nat
  <2>1. reply' \in Seq(Nat \X Nat) /\ Len(reply') >= 2
    <3>1. /\ HeadOf(status) \o BodyOf(status) \in Seq(Nat \X Nat)
          /\ Len(HeadOf(status) \o BodyOf(status)) \in 2..4
      BY ResponseIs, Zenon
    <3> QED BY <1>1, <3>1
  <2> QED BY <2>1
<1>3. sent = 0 /\ heard = <<>>
  <2>1. reply = <<>> /\ sent = 0 /\ heard = SubSeq(reply, 1, sent)
    BY DEF IInv, ReplyHeard
  <2>2. SubSeq(<<>>, 1, 0) = <<>>
    BY SubSeqEmpty
  <2> QED BY <2>1, <2>2
<1>4. ReplyHeard'
  <2>1. SubSeq(reply', 1, 0) = <<>>
    BY SubSeqEmpty
  <2> QED BY <1>1, <1>2, <1>3, <2>1 DEF ReplyHeard
<1>5. RequestTypeOK'
  <2>1. sent' \in 0..Len(reply') /\ at' \in Places
    BY <1>1, <1>2, <1>3 DEF Places
  <2> QED BY <1>1, <1>2, <2>1 DEF IInv, RequestTypeOK, recvVars, lineVars
<1>6. HeaderIsPrefix' /\ HeaderSearched'
  <2>1. taken \in Nat /\ taken' = taken /\ UNCHANGED <<input, hdr, scan_from, hdr_end>>
    BY DEF IInv, RequestTypeOK, recvVars
  <2>2. at' # "headers" /\ taken' >= taken /\ taken' \in Nat
    BY <1>1, <2>1
  <2> QED BY <1>1, <2>1, <2>2, HeaderKept
<1>7. LinesTaken'
  BY <1>1, LinesKept DEF recvVars
<1>8. BodyFollows'
  BY <1>1 DEF BodyFollows, PostHandlers
<1> QED BY <1>4, <1>5, <1>6, <1>7, <1>8 DEF IInv

(* The request goes to a handler.                                          *)
LEMMA HandedTo ==
    ASSUME IInv, at \in {"route", "body"},
           UNCHANGED <<input, peer, recvVars, lineVars, body, sendVars>>,
           sid' \in Seq(Nat), Len(sid') <= IdMax,
           \/ at' \in GetHandlers
           \/ at = "body" /\ Len(body) >= content_length /\ at' \in PostHandlers
    PROVE  IInv'
<1>1. at' \in Places /\ at' \notin {"headers", "request", "lines", "route", "body",
                                    "reply", "answered", "closed"}
  BY DEF Places, Finished, GetHandlers, PostHandlers
<1>2. RequestTypeOK'
  BY <1>1 DEF IInv, RequestTypeOK, recvVars, lineVars, sendVars
<1>3. HeaderIsPrefix' /\ HeaderSearched'
  <2>1. taken \in Nat /\ taken' = taken /\ UNCHANGED <<input, hdr, scan_from, hdr_end>>
    BY DEF IInv, RequestTypeOK, recvVars
  <2>2. at' # "headers" /\ taken' >= taken /\ taken' \in Nat
    BY <1>1, <2>1
  <2> QED BY <1>1, <2>1, <2>2, HeaderKept
<1>4. LinesTaken'
  BY <1>1, LinesKept DEF recvVars
<1>5. BodyFollows'
  <2>1. CASE at' \in GetHandlers
    BY <2>1 DEF BodyFollows, GetHandlers, PostHandlers
  <2>2. CASE at = "body" /\ Len(body) >= content_length /\ at' \in PostHandlers
    <3>1. Len(body) = content_length
      <4>1. body \in Seq(Chars) /\ Len(body) <= content_length /\ content_length \in Int
        BY DEF IInv, RequestTypeOK
      <4> QED BY <2>2, <4>1
    <3> QED BY <1>1, <2>2, <3>1 DEF IInv, BodyFollows, PostHandlers, recvVars, lineVars
  <2> QED BY <2>1, <2>2
<1>6. ReplyHeard'
  BY <1>1 DEF IInv, ReplyHeard, sendVars
<1> QED BY <1>2, <1>3, <1>4, <1>5, <1>6 DEF IInv

(* The request is routed.                                                  *)
LEMMA Route == ASSUME IInv, route PROVE IInv'
<1>1. at = "route" /\ UNCHANGED <<input, peer, recvVars, lineVars>>
  BY DEF route
<1>2. 204 \in Nat /\ 200 \in Nat /\ 405 \in Nat /\ 404 \in Nat /\ 400 \in Nat /\ 500 \in Nat
  OBVIOUS
<1>3. CASE route_get
  <2>1. \/ \E status \in Nat : answer(status)
        \/ \E handler \in GetHandlers : hand_to(handler)
    BY <1>2, <1>3 DEF route_get, GetHandlers
  <2>2. CASE \E status \in Nat : answer(status)
    BY <1>1, <2>2, Answered
  <2>3. CASE \E handler \in GetHandlers : hand_to(handler)
    <3>1. at' \in GetHandlers /\ UNCHANGED <<body, sid, sendVars>>
      BY <2>3 DEF hand_to
    <3>2. sid' \in Seq(Nat) /\ Len(sid') <= IdMax
      BY <3>1 DEF IInv, RequestTypeOK
    <3> QED BY <1>1, <3>1, <3>2, HandedTo
  <2> QED BY <2>1, <2>2, <2>3
<1>4. CASE route_post
  <2>1. CASE \E status \in Nat : answer(status)
    BY <1>1, <2>1, Answered
  <2>2. CASE /\ ~LengthRefused
             /\ body' = SubSeq(hdr, hdr_end + 1, hdr_end + Already)
             /\ at' = "body"
             /\ UNCHANGED <<sid, sendVars>>
    <3>1. content_length \in 1..HTTP_MAX_BODY
      <4>1. content_length \in Nat
        BY SizesAre DEF IInv, RequestTypeOK
      <4> QED BY <2>2, <4>1, SizesAre DEF LengthRefused
    <3>2. /\ input \in Seq(Chars) /\ Len(input) \in Nat /\ Len(hdr) \in Nat
          /\ hdr_end \in Nat /\ hdr_end <= Len(hdr) /\ Len(hdr) <= Len(input)
          /\ \A i \in 1..Len(hdr) : hdr[i] = input[i] /\ hdr[i] \in Chars
      BY <1>1, HeaderKnown
    <3>3. taken = Len(hdr)
      BY <1>1 DEF IInv, HeaderIsPrefix
    <3>4. Already = IF Len(hdr) - hdr_end <= content_length
                    THEN Len(hdr) - hdr_end ELSE content_length
      <4>1. Len(hdr) - hdr_end \in Nat /\ content_length \in Nat
        BY <3>1, <3>2
      <4> QED BY <4>1, MinOfTwo DEF Already
    <3>5. PICK n \in Nat : n = Already
      BY <3>1, <3>2, <3>4
    <3>6. n <= content_length /\ hdr_end + n <= Len(hdr)
      BY <3>1, <3>2, <3>4, <3>5
    <3>7. \A i \in hdr_end + 1..hdr_end + n : hdr[i] \in Chars /\ input[i] \in Chars
                                              /\ hdr[i] = input[i]
      BY <3>2, <3>6
    <3>8. /\ body' \in Seq(Chars) /\ Len(body') = n
          /\ SubSeq(input, hdr_end + 1, hdr_end + n) \in Seq(Chars)
          /\ Len(SubSeq(input, hdr_end + 1, hdr_end + n)) = n
          /\ \A i \in 1..n : /\ body'[i] = hdr[hdr_end + i]
                             /\ SubSeq(input, hdr_end + 1, hdr_end + n)[i] = input[hdr_end + i]
      <4>1. body' = SubSeq(hdr, hdr_end + 1, hdr_end + n)
        BY <2>2, <3>5
      <4>2. /\ SubSeq(hdr, hdr_end + 1, hdr_end + n) \in Seq(Chars)
            /\ Len(SubSeq(hdr, hdr_end + 1, hdr_end + n)) = n
            /\ \A i \in 1..n : SubSeq(hdr, hdr_end + 1, hdr_end + n)[i] = hdr[hdr_end + i]
        BY <3>2, <3>7, SubSeqIs
      <4>3. /\ SubSeq(input, hdr_end + 1, hdr_end + n) \in Seq(Chars)
            /\ Len(SubSeq(input, hdr_end + 1, hdr_end + n)) = n
            /\ \A i \in 1..n : SubSeq(input, hdr_end + 1, hdr_end + n)[i] = input[hdr_end + i]
        BY <3>2, <3>7, SubSeqIs
      <4> QED BY <4>1, <4>2, <4>3
    <3>9. body' = SubSeq(input, hdr_end + 1, hdr_end + n)
      <4>1. \A i \in 1..n : hdr[hdr_end + i] = input[hdr_end + i]
        BY <3>2, <3>7
      <4> DEFINE b == SubSeq(input, hdr_end + 1, hdr_end + n)
      <4>2. b \in Seq(Chars) /\ Len(b) = n /\ \A i \in 1..n : b[i] = input[hdr_end + i]
        BY <3>8
      <4> HIDE DEF b
      <4>3. /\ body' \in Seq(Chars) /\ Len(body') = Len(b)
            /\ \A i \in 1..Len(body') : body'[i] = b[i]
        BY <3>8, <4>1, <4>2
      <4>4. body' = b
        BY ONLY <4>2, <4>3, SeqEqual
      <4> QED BY <4>4 DEF b
    <3>10. RequestTypeOK'
      <4>1. at' \in Places
        BY <2>2 DEF Places
      <4>2. body' \in Seq(Chars) /\ Len(body') <= content_length
        BY <3>6, <3>8
      <4> QED BY <1>1, <2>2, <4>1, <4>2 DEF IInv, RequestTypeOK, recvVars, lineVars, sendVars
    <3>11. HeaderIsPrefix' /\ HeaderSearched'
      <4>1. taken \in Nat /\ taken' = taken
            /\ UNCHANGED <<input, hdr, scan_from, hdr_end>>
        BY <1>1 DEF IInv, RequestTypeOK, recvVars
      <4>2. at' # "headers" /\ taken' >= taken /\ taken' \in Nat
        BY <2>2, <4>1
      <4> QED BY <1>1, <2>2, <4>1, <4>2, HeaderKept
    <3>12. LinesTaken'
      BY <1>1, <2>2, LinesKept DEF recvVars
    <3>13. BodyFollows'
      <4>1. n < content_length => n = Len(hdr) - hdr_end
        BY <3>1, <3>2, <3>4, <3>5
      <4>2. /\ hdr_end + n <= taken
            /\ n < content_length => taken = hdr_end + n
        BY <3>2, <3>3, <3>6, <4>1
      <4>3. /\ input' = input /\ hdr_end' = hdr_end /\ taken' = taken
            /\ content_length' = content_length
        BY <1>1 DEF recvVars, lineVars
      <4>4. Len(body') = n
        BY <3>8
      <4> QED BY <2>2, <3>1, <3>9, <4>2, <4>3, <4>4 DEF BodyFollows, PostHandlers
    <3>14. ReplyHeard'
      BY <1>1, <2>2 DEF IInv, ReplyHeard, sendVars
    <3> QED BY <3>10, <3>11, <3>12, <3>13, <3>14 DEF IInv
  <2> QED BY <1>2, <1>4, <2>1, <2>2 DEF route_post
<1> QED BY <1>3, <1>4 DEF route

(* A chunk of the body.                                                    *)
LEMMA RecvBody == ASSUME IInv, recv_body PROVE IInv'
<1>1. /\ at = "body" /\ at' = "body"
      /\ UNCHANGED <<input, peer, at, hdr, scan_from, hdr_end, lineVars, sid, sendVars>>
  BY DEF recv_body
<1>2. /\ input \in Inputs /\ input \in Seq(Chars) /\ Len(input) \in Nat
      /\ hdr_end \in Nat /\ taken \in 0..Len(input) /\ content_length \in Nat
      /\ body \in Seq(Chars) /\ Len(body) \in Nat /\ Len(body) <= content_length
      /\ body = SubSeq(input, hdr_end + 1, hdr_end + Len(body))
      /\ content_length \in 1..HTTP_MAX_BODY
      /\ Len(body) < content_length => taken = hdr_end + Len(body)
  <2>1. hdr_end \in Nat /\ input \in Seq(Chars) /\ Len(input) \in Nat
    BY <1>1, HeaderKnown
  <2>2. /\ input \in Inputs /\ taken \in 0..Len(input) /\ content_length \in 0..ULONG_MAX
        /\ body \in Seq(Chars) /\ Len(body) <= content_length
    BY DEF IInv, RequestTypeOK
  <2>3. /\ body = SubSeq(input, hdr_end + 1, hdr_end + Len(body))
        /\ content_length \in 1..HTTP_MAX_BODY
        /\ Len(body) < content_length => taken = hdr_end + Len(body)
    BY <1>1 DEF IInv, BodyFollows
  <2> QED BY <2>1, <2>2, <2>3, SizesAre
<1>3. PICK k \in 1..HTTP_MAX_BODY :
          /\ Arrives(k, content_length - Len(body))
          /\ body' = body \o Bytes(k)
          /\ taken' = taken + k
  BY DEF recv_body
<1>4. k \in Int /\ k \in 1..content_length - Len(body) /\ taken = hdr_end + Len(body)
  BY <1>2, <1>3, SizesAre DEF Arrives
<1>5. /\ taken + k <= Len(input)
      /\ body' = SubSeq(input, hdr_end + 1, taken + k)
      /\ body' \in Seq(Chars) /\ Len(body') = taken + k - hdr_end
  <2>1. hdr_end \in 0..taken /\ content_length - Len(body) \in Int
    BY <1>2, <1>4
  <2>2. /\ taken + k <= Len(input)
        /\ SubSeq(input, hdr_end + 1, taken) \o Bytes(k) = SubSeq(input, hdr_end + 1, taken + k)
        /\ SubSeq(input, hdr_end + 1, taken + k) \in Seq(Chars)
        /\ Len(SubSeq(input, hdr_end + 1, taken + k)) = taken + k - hdr_end
    BY <1>2, <1>3, <1>4, <2>1, BytesFollow
  <2> QED BY <1>2, <1>3, <1>4, <2>2
<1>6. Len(body') = Len(body) + k /\ Len(body') <= content_length
      /\ taken' = hdr_end + Len(body') /\ taken' \in Nat /\ taken' >= taken
  BY <1>2, <1>3, <1>4, <1>5
<1>7. RequestTypeOK'
  <2>1. taken' \in 0..Len(input)
    BY <1>2, <1>3, <1>5, <1>6
  <2> QED BY <1>1, <1>5, <1>6, <2>1 DEF IInv, RequestTypeOK, lineVars, sendVars
<1>8. HeaderIsPrefix' /\ HeaderSearched'
  BY <1>1, <1>6, HeaderKept
<1>9. LinesTaken'
  BY <1>1, LinesKept
<1>10. BodyFollows'
  <2>1. input' = input /\ hdr_end' = hdr_end /\ content_length' = content_length
    BY <1>1 DEF lineVars
  <2>2. taken' = taken + k /\ taken + k = hdr_end + Len(body')
    BY <1>3, <1>6
  <2>3. /\ hdr_end + Len(body') <= taken'
        /\ body' = SubSeq(input, hdr_end + 1, hdr_end + Len(body'))
    BY <1>2, <1>5, <1>6, <2>2
  <2> QED BY <1>1, <1>2, <1>6, <2>1, <2>3 DEF BodyFollows, PostHandlers
<1>11. ReplyHeard'
  BY <1>1 DEF IInv, ReplyHeard, sendVars
<1> QED BY <1>7, <1>8, <1>9, <1>10, <1>11 DEF IInv

(* A session's id has room in out[33].                                     *)
LEMMA IdFits ==
    ASSUME NEW query \in Seq([name : STRING, value : Seq(Nat)])
    PROVE  /\ extract_session_id(query) \in Seq(Nat)
           /\ Len(extract_session_id(query)) <= IdMax
<1> DEFINE named == {i \in DOMAIN query : query[i].name = "sessionId"}
<1>1. CASE named = {}
  <2>1. extract_session_id(query) = <<>>
    BY <1>1 DEF extract_session_id
  <2>2. <<>> \in Seq(Nat) /\ Len(<<>>) = 0
    BY EmptySeq
  <2> QED BY <2>1, <2>2, SizesAre
<1>2. CASE named # {}
  <2>1. extract_session_id(query) = cut(query[Min(named)].value, IdMax)
    BY <1>2 DEF extract_session_id
  <2>2. Min(named) \in named
    <3>1. named \in SUBSET Nat
      BY LenProperties
    <3> HIDE DEF named
    <3> QED BY <1>2, <3>1, MinIsLeast
  <2>3. query[Min(named)] \in [name : STRING, value : Seq(Nat)]
    <3>1. Min(named) \in 1..Len(query)
      BY <2>2, LenProperties
    <3> HIDE DEF named
    <3> QED BY <3>1, ElementOfSeq
  <2>4. query[Min(named)].value \in Seq(Nat)
    <3> HIDE DEF named
    <3> QED BY <2>3
  <2> QED BY <2>1, <2>4, CutFits, SizesAre
<1> QED BY <1>1, <1>2

(* The body is complete.                                                   *)
LEMMA HandlePost == ASSUME IInv, handle_post PROVE IInv'
<1>1. /\ at = "body" /\ Len(body) >= content_length
      /\ UNCHANGED <<input, peer, recvVars, lineVars>>
  BY DEF handle_post
<1> DEFINE id == extract_session_id(request.query)
<1>2. id \in Seq(Nat) /\ Len(id) <= IdMax
  <2>1. request \in Chars /\ request.is = "request"
    BY <1>1 DEF IInv, LinesTaken
  <2> QED BY <2>1, Fields, IdFits
<1>3. \/ hand_to("handle_mcp_post")
      \/ answer(400)
      \/ /\ sid' = id /\ at' = "handle_legacy_post_message"
         /\ UNCHANGED <<body, sendVars>>
  BY DEF handle_post
<1> HIDE DEF id
<1>4. CASE hand_to("handle_mcp_post")
  <2>1. at' \in PostHandlers /\ UNCHANGED <<body, sid, sendVars>>
    BY <1>4 DEF hand_to, PostHandlers
  <2>2. sid' \in Seq(Nat) /\ Len(sid') <= IdMax
    BY <2>1 DEF IInv, RequestTypeOK
  <2> QED BY <1>1, <2>1, <2>2, HandedTo
<1>5. CASE answer(400)
  BY <1>1, <1>5, Answered
<1>6. CASE /\ sid' = id /\ at' = "handle_legacy_post_message"
           /\ UNCHANGED <<body, sendVars>>
  <2>1. at' \in PostHandlers
    BY <1>6 DEF PostHandlers
  <2> QED BY <1>1, <1>2, <1>6, <2>1, HandedTo
<1> QED BY <1>3, <1>4, <1>5, <1>6

(* A part of the response.                                                 *)
LEMMA Send == ASSUME IInv, send PROVE IInv'
<1>1. /\ at = "reply" /\ at' = IF sent' = Len(reply) THEN "answered" ELSE "reply"
      /\ UNCHANGED <<input, peer, recvVars, lineVars, body, sid, reply>>
  BY DEF send
<1>2. /\ reply \in Seq(Nat \X Nat) /\ Len(reply) \in Nat /\ Len(reply) >= 2
      /\ sent \in 0..Len(reply) /\ heard = SubSeq(reply, 1, sent)
  <2>1. reply \in Seq(Nat \X Nat) /\ sent \in 0..Len(reply)
    BY DEF IInv, RequestTypeOK
  <2>2. Len(reply) >= 2 /\ heard = SubSeq(reply, 1, sent)
    BY <1>1 DEF IInv, ReplyHeard
  <2> QED BY <2>1, <2>2
<1>3. PICK k \in 1..(IF sent < 2 THEN 2 ELSE Len(reply)) - sent :
          heard' = heard \o Unsent(k) /\ sent' = sent + k
  BY DEF send
<1>4. k \in Nat /\ sent + k \in sent..Len(reply) /\ sent + k \in Nat
  BY <1>2, <1>3
<1>5. heard' = SubSeq(reply, 1, sent + k)
  <2>1. SubSeq(reply, 1, sent) \o SubSeq(reply, sent + 1, sent + k) =
          SubSeq(reply, 1, sent + k)
    <3>1. 1 \in 1..Len(reply) + 1 /\ sent \in 1 - 1..Len(reply)
      BY <1>2
    <3> QED BY <1>2, <1>4, <3>1, ConcatAdjacentSubSeq
  <2> QED BY <1>2, <1>3, <2>1 DEF Unsent
<1>6. heard' \in Seq(Nat \X Nat)
  <2>1. \A i \in 1..sent + k : i \in 1..Len(reply)
    BY ONLY <1>2, <1>4
  <2>2. \A i \in 1..sent + k : reply[i] \in Nat \X Nat
    BY ONLY <1>2, <2>1, ElementOfSeq
  <2>3. 1 \in Int /\ sent + k \in Int
    BY ONLY <1>4
  <2> QED BY ONLY <1>5, <2>2, <2>3, SubSeqProperties, Zenon
<1>7. at' \in {"reply", "answered"}
  BY <1>1
<1>8. RequestTypeOK'
  <2>1. sent' \in 0..Len(reply) /\ at' \in Places
    BY <1>2, <1>3, <1>4, <1>7 DEF Places, Finished
  <2> QED BY <1>1, <1>6, <2>1 DEF IInv, RequestTypeOK, recvVars, lineVars
<1>9. HeaderIsPrefix' /\ HeaderSearched'
  <2>1. taken \in Nat /\ taken' = taken /\ UNCHANGED <<input, hdr, scan_from, hdr_end>>
    BY <1>1 DEF IInv, RequestTypeOK, recvVars
  <2>2. at' # "headers" /\ taken' >= taken /\ taken' \in Nat
    BY <1>7, <2>1
  <2> QED BY <1>1, <1>7, <2>1, <2>2, HeaderKept
<1>10. LinesTaken'
  BY <1>1, <1>7, LinesKept DEF recvVars
<1>11. BodyFollows'
  BY <1>7 DEF BodyFollows, PostHandlers
<1>12. ReplyHeard'
  BY <1>1, <1>2, <1>3, <1>5 DEF ReplyHeard
<1> QED BY <1>8, <1>9, <1>10, <1>11, <1>12 DEF IInv

(* A send that fails, and a client that leaves.                            *)
LEMMA SendFails == ASSUME IInv, send_fails PROVE IInv'
<1>1. /\ at = "reply" /\ peer = "closed" /\ at' = "closed"
      /\ UNCHANGED <<input, peer, recvVars, lineVars, body, sid, sendVars>>
  BY DEF send_fails
<1>2. RequestTypeOK'
  BY <1>1 DEF IInv, RequestTypeOK, Places, Finished, recvVars, lineVars, sendVars
<1>3. HeaderIsPrefix'
  BY <1>1 DEF IInv, HeaderIsPrefix, recvVars
<1>4. HeaderSearched'
  BY <1>1, InputKept DEF IInv, HeaderSearched, recvVars
<1>5. LinesTaken' /\ BodyFollows'
  BY <1>1 DEF LinesTaken, BodyFollows, PostHandlers
<1>6. ReplyHeard'
  BY <1>1 DEF IInv, ReplyHeard, sendVars
<1> QED BY <1>2, <1>3, <1>4, <1>5, <1>6 DEF IInv

(* The client's end of the connection is no matter of the invariant.       *)
LEMMA PeerLeaves ==
    ASSUME IInv, peer' \in {peer, "closed"},
           UNCHANGED <<input, at, recvVars, lineVars, body, sid, sendVars>>
    PROVE  IInv'
<1>1. RequestTypeOK'
  BY DEF IInv, RequestTypeOK, recvVars, lineVars, sendVars
<1>2. HeaderIsPrefix'
  BY DEF IInv, HeaderIsPrefix, recvVars
<1>3. HeaderSearched'
  BY InputKept DEF IInv, HeaderSearched, recvVars
<1>4. LinesTaken'
  <2>1. LineStart(p)' <=> LineStart(p)
    BY Zenon DEF LineStart, recvVars, lineVars
  <2>2. /\ LengthTaken(p)' <=> LengthTaken(p)
        /\ LengthTaken(hdr_end)' <=> LengthTaken(hdr_end)
    BY InputKept, Zenon DEF LengthTaken, recvVars, lineVars
  <2>3. /\ AcceptTaken(p)' <=> AcceptTaken(p)
        /\ AcceptTaken(hdr_end)' <=> AcceptTaken(hdr_end)
    BY InputKept, Zenon DEF AcceptTaken, recvVars, lineVars
  <2> QED BY <2>1, <2>2, <2>3, Zenon DEF IInv, LinesTaken, lineVars
<1>5. BodyFollows'
  BY DEF IInv, BodyFollows, PostHandlers, recvVars, lineVars
<1>6. ReplyHeard'
  BY DEF IInv, ReplyHeard, sendVars
<1> QED BY <1>1, <1>2, <1>3, <1>4, <1>5, <1>6 DEF IInv

(* The inductive invariant holds in every reachable state.                 *)
LEMMA Invariance == Spec => []IInv
<1>1. IInv /\ [Next]_vars => IInv'
  <2> SUFFICES ASSUME IInv, [Next]_vars PROVE IInv'
    OBVIOUS
  <2>1. CASE recv_headers
    BY <2>1, RecvHeaders
  <2>2. CASE recv_ends
    BY <2>2, RecvEnds
  <2>3. CASE request_line
    BY <2>3, RequestLine
  <2>4. CASE header_line
    BY <2>4, HeaderLine
  <2>5. CASE route
    BY <2>5, Route
  <2>6. CASE recv_body
    BY <2>6, RecvBody
  <2>7. CASE handle_post
    BY <2>7, HandlePost
  <2>8. CASE send
    BY <2>8, Send
  <2>9. CASE send_fails
    BY <2>9, SendFails
  <2>10. CASE peer_leaves
    <3>1. peer' \in {peer, "closed"}
          /\ UNCHANGED <<input, at, recvVars, lineVars, body, sid, sendVars>>
      BY <2>10 DEF peer_leaves
    <3> QED BY <3>1, PeerLeaves
  <2>11. CASE UNCHANGED vars
    <3>1. peer' \in {peer, "closed"}
          /\ UNCHANGED <<input, at, recvVars, lineVars, body, sid, sendVars>>
      BY <2>11 DEF vars
    <3> QED BY <3>1, PeerLeaves
  <2> QED BY <2>1, <2>2, <2>3, <2>4, <2>5, <2>6, <2>7, <2>8, <2>9, <2>10, <2>11
          DEF Next, ThreadStep, Terminated
<1> QED BY InitIInv, <1>1, PTL DEF Spec

----------------------------------------------------------------------------
(* What follows from the invariant.                                        *)

(* The last line of a kind is the one that was taken.                      *)
LEMMA LastLineIs ==
    ASSUME IInv, at \notin {"headers", "closed"},
           NEW kind, NEW q \in Nat, LastBefore(kind, hdr_end, q)
    PROVE  LastLine(kind) = q
<1>1. \A r \in LinesOf(kind) : r \in Int /\ 3 <= r /\ r <= hdr_end - 2
  <2>1. \A r \in LinesOf(kind) : r \in Int /\ r \in HeaderLines
    BY LinesOfAre DEF HeaderLines
  <2> QED BY <2>1, HeaderLinesAre
<1>2. hdr_end \in Nat
  BY HeaderKnown
<1>3. CASE q = 0 /\ \A r \in LinesOf(kind) : r >= hdr_end
  <2>1. LinesOf(kind) = {}
    BY <1>1, <1>2, <1>3
  <2> QED BY <1>3, <2>1 DEF LastLine
<1>4. CASE q \in LinesOf(kind) /\ \A r \in LinesOf(kind) : r >= hdr_end \/ r <= q
  <2>1. LinesOf(kind) \in SUBSET Int /\ \A r \in LinesOf(kind) : q >= r
    <3>1. LinesOf(kind) \in SUBSET Int
      BY <1>1
    <3>2. ASSUME NEW r \in LinesOf(kind) PROVE q >= r
      <4>1. r \in Int /\ r <= hdr_end - 2 /\ q \in Int
        BY <1>1
      <4>2. r >= hdr_end \/ r <= q
        BY <1>4
      <4> QED BY <1>2, <4>1, <4>2
    <3> QED BY <3>1, <3>2
  <2>2. Max(LinesOf(kind)) = q
    BY <1>4, <2>1, MaxIs
  <2> QED BY <1>4, <2>2 DEF LastLine
<1> QED BY <1>3, <1>4 DEF LastBefore

(* First match wins, read as positions and as an order.                    *)
LEMMA FirstMatch ==
    ASSUME NEW a \in Seq(STRING)
    PROVE  accept_prefers_sse(a) <=>
              \E i \in DOMAIN a : a[i] = "sse" /\ \A j \in 1..i - 1 : a[j] # "json"
<1> DEFINE sse == {i \in DOMAIN a : a[i] = "sse"}
           json == {i \in DOMAIN a : a[i] = "json"}
<1>1. DOMAIN a = 1..Len(a) /\ Len(a) \in Nat
  OBVIOUS
<1>2. sse # {} => Min(sse) \in sse /\ \A i \in sse : Min(sse) <= i
  <2>1. sse \in SUBSET Nat
    BY <1>1
  <2> HIDE DEF sse
  <2> QED BY <2>1, MinIsLeast
<1>3. json # {} => Min(json) \in json /\ \A i \in json : Min(json) <= i
  <2>1. json \in SUBSET Nat
    BY <1>1
  <2> HIDE DEF json
  <2> QED BY <2>1, MinIsLeast
<1>4. accept_prefers_sse(a) <=> sse # {} /\ (json = {} \/ Min(sse) < Min(json))
  BY DEF accept_prefers_sse
<1>5. ASSUME sse # {}, json = {} \/ Min(sse) < Min(json)
      PROVE  \E i \in DOMAIN a : a[i] = "sse" /\ \A j \in 1..i - 1 : a[j] # "json"
  <2>1. Min(sse) \in 1..Len(a) /\ a[Min(sse)] = "sse"
    BY <1>1, <1>2, <1>5
  <2>2. ASSUME NEW j \in 1..Min(sse) - 1, a[j] = "json" PROVE FALSE
    <3>1. j \in json
      BY <1>1, <2>1, <2>2
    <3>2. Min(json) \in Nat /\ Min(json) <= j
      BY <1>1, <1>3, <3>1
    <3> QED BY <1>5, <2>1, <3>1, <3>2
  <2> QED BY <1>1, <2>1, <2>2
<1>6. ASSUME NEW i \in DOMAIN a, a[i] = "sse", \A j \in 1..i - 1 : a[j] # "json"
      PROVE  sse # {} /\ (json = {} \/ Min(sse) < Min(json))
  <2>1. i \in sse /\ i \in Nat
    BY <1>1, <1>6
  <2>2. Min(sse) <= i /\ Min(sse) \in Nat
    BY <1>1, <1>2, <2>1
  <2>3. ASSUME json # {} PROVE Min(sse) < Min(json)
    <3>1. Min(json) \in 1..Len(a) /\ a[Min(json)] = "json"
      BY <1>1, <1>3, <2>3
    <3>2. ~(Min(json) \in 1..i - 1) /\ Min(json) # i
      BY <1>6, <3>1
    <3> QED BY <2>1, <2>2, <3>1, <3>2
  <2> QED BY <2>1, <2>3
<1> QED BY <1>4, <1>5, <1>6

(* For every input and every way it is cut into chunks: no buffer takes    *)
(* more than it has room for (RequestTypeOK).                                     *)
THEOREM TypeCorrect == Spec => []RequestTypeOK
<1>1. IInv => RequestTypeOK
  BY DEF IInv
<1> QED BY Invariance, <1>1, PTL

(* The header ends at the first blank line that fits (HeaderEndFound).     *)
THEOREM HeaderEndFoundCorrect == Spec => []HeaderEndFound
<1>1. IInv => HeaderEndFound
  <2> SUFFICES ASSUME IInv PROVE HeaderEndFound
    OBVIOUS
  <2>1. at \notin {"headers", "closed"} => Ends # {} /\ hdr_end = Min(Ends)
    BY HeaderKnown
  <2>2. at = "headers" => \A e \in Ends : e > Len(hdr)
    BY DEF IInv, HeaderSearched
  <2>3. at = "closed" /\ peer = "open" /\ hdr_end = 0 => Ends = {}
    BY DEF IInv, HeaderSearched
  <2> QED BY <2>1, <2>2, <2>3 DEF HeaderEndFound
<1> QED BY Invariance, <1>1, PTL

(* The last Content-Length counts, and none that overflows is taken for a  *)
(* small one (LengthHonoured).                                             *)
THEOREM LengthHonouredCorrect == Spec => []LengthHonoured
<1>1. IInv => LengthHonoured
  <2> SUFFICES ASSUME IInv, at \notin {"headers", "request", "lines", "closed"}
               PROVE  LET q == LastLine("content-length")
                      IN  /\ have_length <=> q # 0
                          /\ q # 0 /\ input[q].sign = "+" =>
                                \/ content_length = input[q].digits
                                \/ /\ content_length > HTTP_MAX_BODY
                                   /\ input[q].digits > HTTP_MAX_BODY
    BY DEF LengthHonoured
  <2>1. PICK q \in Nat :
           /\ LastBefore("content-length", hdr_end, q)
           /\ have_length <=> q # 0
           /\ content_length = IF q = 0 THEN 0
                               ELSE strtoul(input[q].sign, input[q].digits)
    BY DEF IInv, LinesTaken, LengthTaken
  <2>2. LastLine("content-length") = q
    BY <2>1, LastLineIs
  <2>3. ASSUME q # 0, input[q].sign = "+"
        PROVE  \/ content_length = input[q].digits
               \/ content_length > HTTP_MAX_BODY /\ input[q].digits > HTTP_MAX_BODY
    <3>1. q \in LinesOf("content-length")
      BY <2>1, <2>3 DEF LastBefore
    <3>2. q \in HeaderLines /\ input[q].is = "content-length"
          /\ input[q].digits # NoDigits
      BY <3>1, LinesOfAre
    <3>3. q \in 1..Len(input) /\ input \in Seq(Chars)
      <4>1. q <= hdr_end - 2 /\ 3 <= q
        BY <3>2, HeaderLinesAre
      <4> QED BY <4>1, HeaderKnown
    <3>4. input[q].digits \in Nat
      <4>1. input[q] \in Chars
        BY <3>3, ElementOfSeq
      <4> QED BY <3>2, <4>1, Fields
    <3>5. content_length = IF input[q].digits > ULONG_MAX THEN ULONG_MAX
                           ELSE input[q].digits
      BY <2>1, <2>3 DEF strtoul
    <3>6. CASE input[q].digits <= ULONG_MAX
      BY <3>4, <3>5, <3>6, SizesAre
    <3>7. CASE input[q].digits > ULONG_MAX
      BY <3>4, <3>5, <3>7, SizesAre
    <3> QED BY <3>4, <3>6, <3>7, SizesAre
  <2> QED BY <2>1, <2>2, <2>3
<1> QED BY Invariance, <1>1, PTL

(* The body is what follows the blank line (BodyExact).                    *)
THEOREM BodyExactCorrect == Spec => []BodyExact
<1>1. IInv => BodyExact
  BY DEF IInv, BodyFollows, BodyExact, PostHandlers
<1> QED BY Invariance, <1>1, PTL

(* The format of an answer is that of the first match (AcceptFirstWins).   *)
THEOREM AcceptFirstWinsCorrect == Spec => []AcceptFirstWins
<1>1. IInv => AcceptFirstWins
  <2> SUFFICES ASSUME IInv, at = "handle_mcp_post" PROVE AcceptFirstWins
    BY DEF AcceptFirstWins
  <2>1. PICK q \in Nat :
           /\ LastBefore("accept", hdr_end, q)
           /\ accept = IF q = 0 THEN <<>> ELSE cut(input[q].ranges, AcceptMax)
    BY DEF IInv, LinesTaken, AcceptTaken
  <2>2. LastLine("accept") = q
    BY <2>1, LastLineIs
  <2>3. accept \in Seq(STRING)
    BY DEF IInv, RequestTypeOK
  <2> QED BY <2>1, <2>2, <2>3, FirstMatch, Zenon DEF AcceptFirstWins
<1> QED BY Invariance, <1>1, PTL

(* The client hears the response from its beginning, and whole if the      *)
(* thread is done with it (ReplyExact).                                    *)
THEOREM ReplyExactCorrect == Spec => []ReplyExact
<1>1. IInv => ReplyExact
  <2> SUFFICES ASSUME IInv PROVE ReplyExact
    OBVIOUS
  <2>1. reply \in Seq(Nat \X Nat) /\ sent \in 0..Len(reply) /\ Len(reply) \in Nat
    BY DEF IInv, RequestTypeOK
  <2>2. heard = SubSeq(reply, 1, sent) /\ (at = "answered" => sent = Len(reply))
    BY DEF IInv, ReplyHeard
  <2>3. Len(SubSeq(reply, 1, sent)) = sent
    <3>1. \A i \in 1..sent : reply[i] \in Nat \X Nat
      BY <2>1, ElementOfSeq
    <3>2. Len(SubSeq(reply, 1, sent)) = IF 1 <= sent THEN sent - 1 + 1 ELSE 0
      BY <2>1, <3>1, SubSeqProperties
    <3> QED BY <2>1, <3>2
  <2>4. SubSeq(reply, 1, Len(reply)) = reply
    BY <2>1, SubSeqFull
  <2>5. Len(heard) = sent /\ heard = SubSeq(reply, 1, Len(heard))
    BY <2>2, <2>3
  <2>6. Len(heard) <= Len(reply)
    BY <2>1, <2>5
  <2>7. at = "answered" => heard = reply
    BY <2>2, <2>4
  <2> QED BY <2>5, <2>6, <2>7 DEF ReplyExact
<1> QED BY Invariance, <1>1, PTL

----------------------------------------------------------------------------
(* What becomes of a request that was sent in full.                        *)

(* Where routing leads to.                                                 *)
LEMMA RouteLeads ==
    ASSUME route
    PROVE  /\ at = "route" /\ UNCHANGED <<input, peer, recvVars, lineVars>>
           /\ \/ at' = "reply" /\ \E status \in Nat : answer(status)
              \/ at' = "body" /\ UNCHANGED sendVars
              \/ at' = "handle_mcp_get_stream" /\ UNCHANGED sendVars
              \/ at' = "handle_legacy_sse_get" /\ UNCHANGED sendVars
<1>1. /\ at = "route" /\ (route_get \/ route_post)
      /\ UNCHANGED <<input, peer, recvVars, lineVars>>
  BY Zenon DEF route
<1>2. \A s \in Nat : answer(s) => at' = "reply" /\ \E status \in Nat : answer(status)
  BY Zenon DEF answer
<1> DEFINE Replies == at' = "reply" /\ \E s \in Nat : answer(s)
<1>3. /\ answer(204) \/ answer(200) \/ answer(405) => Replies
      /\ answer(404) \/ answer(400) \/ answer(500) => Replies
  <2>1. /\ 204 \in Nat /\ 200 \in Nat /\ 405 \in Nat /\ 404 \in Nat
        /\ 400 \in Nat /\ 500 \in Nat
    OBVIOUS
  <2> QED BY <1>2, <2>1
<1> HIDE DEF Replies
<1>4. CASE route_get
  <2>1. \/ answer(204) \/ answer(200) \/ answer(405) \/ answer(404)
        \/ hand_to("handle_mcp_get_stream") \/ hand_to("handle_legacy_sse_get")
    BY <1>4, Zenon DEF route_get
  <2>2. \/ Replies
        \/ hand_to("handle_mcp_get_stream") \/ hand_to("handle_legacy_sse_get")
    BY <1>3, <2>1, Zenon
  <2>3. \/ Replies
        \/ at' = "handle_mcp_get_stream" /\ UNCHANGED sendVars
        \/ at' = "handle_legacy_sse_get" /\ UNCHANGED sendVars
    BY <2>2, Zenon DEF hand_to
  <2> QED BY <1>1, <2>3, Zenon DEF Replies
<1>5. CASE route_post
  <2>1. answer(400) \/ answer(500) \/ (at' = "body" /\ UNCHANGED sendVars)
    BY <1>5, Zenon DEF route_post
  <2>2. \/ Replies
        \/ at' = "body" /\ UNCHANGED sendVars
    BY <1>3, <2>1, Zenon
  <2> QED BY <1>1, <2>2, Zenon DEF Replies
<1> QED BY <1>1, <1>4, <1>5, Zenon

(* Where a POST's body leads to.                                           *)
LEMMA HandlePostLeads ==
    ASSUME handle_post
    PROVE  /\ at = "body" /\ UNCHANGED <<input, peer, recvVars, lineVars>>
           /\ \/ at' = "reply" /\ \E status \in Nat : answer(status)
              \/ at' \in {"handle_mcp_post", "handle_legacy_post_message"}
                 /\ UNCHANGED sendVars
<1>1. 400 \in Nat
  OBVIOUS
<1>2. \/ hand_to("handle_mcp_post") \/ answer(400)
      \/ at' = "handle_legacy_post_message" /\ UNCHANGED <<body, sendVars>>
  BY DEF handle_post
<1>3. answer(400) => at' = "reply"
  BY DEF answer
<1> QED BY <1>1, <1>2, <1>3 DEF handle_post, hand_to

(* A thread gives up a client that stayed for one of two reasons.          *)
GivenUp ==
    at = "closed" /\ peer = "open" => Ends = {} \/ ~BeginsAsRequest

(* A first line that is taken for none of a request is none.               *)
LEMMA NoRequest ==
    ASSUME IInv, at = "request", ~(EolOf(1, Len(hdr)) > 1 /\ hdr[1].is = "request")
    PROVE  ~BeginsAsRequest
<1>1. /\ input \in Seq(Chars) /\ Len(input) \in Nat /\ Len(hdr) \in Nat
      /\ hdr_end \in Nat /\ 4 <= hdr_end /\ hdr_end <= Len(hdr)
      /\ input[hdr_end - 3] = CR
      /\ \A i \in 1..Len(hdr) : hdr[i] = input[i]
  BY HeaderKnown
<1> SUFFICES ASSUME BeginsAsRequest PROVE FALSE
  OBVIOUS
<1>2. PICK i \in 2..Len(input) - 1 :
         /\ input[i] = CR /\ input[i + 1] = LF
         /\ \A j \in 1..i - 1 : input[j] # CR
  BY DEF BeginsAsRequest
<1>3. i <= hdr_end - 3
  <2>1. ~(hdr_end - 3 \in 1..i - 1)
    BY <1>1, <1>2
  <2> QED BY <1>1, <1>2, <2>1
<1>4. /\ hdr[1] = input[1] /\ hdr[i] = CR /\ hdr[i + 1] = LF
      /\ \A j \in 1..i - 1 : hdr[j] # CR
  <2>1. /\ 1 \in 1..Len(hdr) /\ i \in 1..Len(hdr) /\ i + 1 \in 1..Len(hdr)
        /\ \A j \in 1..i - 1 : j \in 1..Len(hdr)
    BY <1>1, <1>2, <1>3
  <2> QED BY <1>1, <1>2, <2>1
<1>5. hdr[1].is = "request"
  BY <1>4 DEF BeginsAsRequest
<1> DEFINE e == EolOf(1, Len(hdr))
<1>6. 1 \in Nat \ {0}
  OBVIOUS
<1>7. e # 0
  <2> SUFFICES ASSUME e = 0 PROVE FALSE
    OBVIOUS
  <2>1. CASE \A j \in 1..Len(hdr) : hdr[j] # CR
    BY <1>1, <1>2, <1>3, <1>4, <2>1
  <2>2. CASE \E c \in 1..Len(hdr) : /\ hdr[c] = CR
                                    /\ c = Len(hdr) \/ hdr[c + 1] # LF
                                    /\ \A j \in 1..c - 1 : hdr[j] # CR
    <3>1. PICK c \in 1..Len(hdr) : /\ hdr[c] = CR
                                   /\ c = Len(hdr) \/ hdr[c + 1] # LF
                                   /\ \A j \in 1..c - 1 : hdr[j] # CR
      BY <2>2
    <3>2. c = i
      <4>1. ~(c \in 1..i - 1) /\ ~(i \in 1..c - 1)
        BY <1>4, <3>1
      <4> QED BY <1>2, <3>1, <4>1
    <3> QED BY <1>1, <1>3, <1>4, <3>1, <3>2
  <2> QED BY <1>1, <1>6, <2>1, <2>2, EolFindsNot
<1>8. e \in 1..Len(hdr) - 1 /\ hdr[e] = CR
  BY <1>1, <1>6, <1>7, EolFinds
<1>9. e > 1
  <2>1. ~(e \in 1..i - 1)
    BY <1>4, <1>8
  <2> QED BY <1>2, <1>8, <2>1
<1> QED BY <1>5, <1>9

(* The reasons are the only ones.                                          *)
LEMMA GivenUpHolds == Spec => []GivenUp
<1>1. Init => GivenUp
  BY DEF Init, GivenUp
<1>2. IInv /\ IInv' /\ GivenUp /\ [Next]_vars => GivenUp'
  <2> SUFFICES ASSUME IInv, IInv', GivenUp, [Next]_vars, at' = "closed", peer' = "open"
               PROVE  Ends' = {} \/ ~BeginsAsRequest'
    BY DEF GivenUp
  <2>1. input' = input /\ peer = "open"
    BY DEF Next, ThreadStep, Terminated, recv_headers, recv_ends, request_line,
           header_line, route, recv_body, handle_post, send, send_fails, peer_leaves,
           vars
  <2>2. Ends' = Ends /\ (BeginsAsRequest' <=> BeginsAsRequest)
    <3>1. BeginsAsRequest' <=> BeginsAsRequest
      BY <2>1, Zenon DEF BeginsAsRequest
    <3> QED BY <2>1, <3>1, InputKept
  <2>3. CASE recv_headers
    <3>1. at = "headers" /\ hdr_end = 0
      BY <2>3 DEF recv_headers, IInv, HeaderSearched
    <3>2. hdr_end' = 0
      <4> DEFINE found == {i \in Start(scan_from)..Len(hdr') : BlankAt(hdr', i)}
      <4>1. IF found # {}
            THEN hdr_end' = Min(found) + 4 /\ at' = "request" /\ UNCHANGED scan_from
            ELSE /\ scan_from' = Len(hdr')
                 /\ at' = IF Len(hdr') < HTTP_MAX_HEADER THEN "headers" ELSE "closed"
                 /\ UNCHANGED hdr_end
        BY <2>3 DEF recv_headers
      <4> HIDE DEF found
      <4> QED BY <3>1, <4>1
    <3> QED BY <3>2 DEF IInv, HeaderSearched
  <2>4. CASE request_line
    <3>1. /\ at = "request"
          /\ ~(EolOf(1, Len(hdr)) > 1 /\ hdr[1].is = "request")
      BY <2>4 DEF request_line
    <3> QED BY <2>2, <3>1, NoRequest
  <2>5. CASE at = "closed"
    BY <2>1, <2>2, <2>5 DEF GivenUp
  <2>6. CASE recv_ends \/ send_fails \/ peer_leaves
    BY <2>1, <2>6 DEF recv_ends, send_fails, peer_leaves
  <2>7. CASE header_line
    BY <2>5, <2>7 DEF header_line
  <2>8. CASE route
    BY <2>8, RouteLeads
  <2>9. CASE recv_body
    BY <2>5, <2>9 DEF recv_body
  <2>10. CASE handle_post
    BY <2>10, HandlePostLeads
  <2>11. CASE send
    BY <2>11 DEF send
  <2>12. CASE Terminated \/ UNCHANGED vars
    BY <2>5, <2>12 DEF Terminated, vars
  <2> QED BY <2>3, <2>4, <2>6, <2>7, <2>8, <2>9, <2>10, <2>11, <2>12
          DEF Next, ThreadStep
<1> QED BY Invariance, <1>1, <1>2, PTL DEF Spec

(* For every input and all sizes: a thread that waits for bytes of a       *)
(* request that was sent in full waits for some that were sent, and gives  *)
(* none of them up for itself (CompleteIsRead).                            *)
THEOREM CompleteIsReadCorrect == Spec => []CompleteIsRead
<1>1. IInv /\ GivenUp => CompleteIsRead
  <2> SUFFICES ASSUME IInv, GivenUp, Complete
               PROVE  /\ at = "headers" => taken < Len(input)
                      /\ at = "body" => taken < Len(input) \/ Len(body) = content_length
                      /\ at = "closed" => peer = "closed" \/ ~BeginsAsRequest
    BY DEF CompleteIsRead
  <2>1. /\ input \in Inputs /\ Len(input) \in Nat /\ taken \in 0..Len(input)
        /\ peer \in {"open", "closed"}
    BY InputIsSeq DEF IInv, RequestTypeOK
  <2>2. Ends # {} /\ Len(input) - Min(Ends) >= HTTP_MAX_BODY
    BY DEF Complete
  <2>3. ASSUME at = "headers" PROVE taken < Len(input)
    <3>1. \A e \in Ends : e \in Nat /\ e <= Len(input) /\ e > Len(hdr)
      BY <2>1, <2>3, EndsAre DEF IInv, HeaderSearched
    <3>2. taken = Len(hdr)
      BY <2>3 DEF IInv, HeaderIsPrefix
    <3> QED BY <2>1, <2>2, <3>1, <3>2
  <2>4. ASSUME at = "body" PROVE taken < Len(input) \/ Len(body) = content_length
    <3>1. hdr_end \in Nat /\ hdr_end = Min(Ends)
      BY <2>4, HeaderKnown
    <3>2. /\ content_length \in 1..HTTP_MAX_BODY
          /\ Len(body) < content_length => taken = hdr_end + Len(body)
      BY <2>4 DEF IInv, BodyFollows
    <3>3. Len(body) \in Nat /\ Len(body) <= content_length
      BY DEF IInv, RequestTypeOK
    <3>4. CASE Len(body) < content_length
      BY <2>1, <2>2, <3>1, <3>2, <3>3, <3>4, SizesAre
    <3> QED BY <3>2, <3>3, <3>4, SizesAre
  <2>5. at = "closed" => peer = "closed" \/ ~BeginsAsRequest
    BY <2>1, <2>2 DEF GivenUp
  <2> QED BY <2>3, <2>4, <2>5
<1> QED BY Invariance, GivenUpHolds, <1>1, PTL

----------------------------------------------------------------------------
(* How many steps a request takes.                                         *)

(* No response has more parts than the longest.                            *)
ReplyShort == Len(reply) <= LongestReply

(* No line is passed over before the request line.                         *)
NoLineYet == at \in {"headers", "request"} => p = 1

LEMMA NoLineYetHolds == Spec => []NoLineYet
<1>1. Init => NoLineYet
  BY DEF Init, NoLineYet
<1>2. NoLineYet /\ [Next]_vars => NoLineYet'
  <2> SUFFICES ASSUME NoLineYet, [Next]_vars, at' \in {"headers", "request"}
               PROVE  p' = 1
    BY DEF NoLineYet
  <2>1. CASE recv_headers \/ recv_ends \/ recv_body \/ send \/ send_fails \/ peer_leaves
    BY <2>1 DEF recv_headers, recv_ends, recv_body, send, send_fails, peer_leaves,
                lineVars, NoLineYet
  <2>2. CASE Terminated \/ UNCHANGED vars
    BY <2>2 DEF Terminated, vars, lineVars, NoLineYet
  <2>3. CASE request_line
    BY <2>3 DEF request_line
  <2>4. CASE header_line
    BY <2>4 DEF header_line
  <2>5. CASE route \/ handle_post
    BY <2>5, RouteLeads, HandlePostLeads
  <2> QED BY <2>1, <2>2, <2>3, <2>4, <2>5 DEF Next, ThreadStep
<1> QED BY <1>1, <1>2, PTL DEF Spec

LEMMA ReplyShortHolds == Spec => []ReplyShort
<1>1. Init => ReplyShort
  BY EmptySeq DEF Init, ReplyShort, LongestReply
<1>2. ReplyShort /\ [Next]_vars => ReplyShort'
  <2> SUFFICES ASSUME ReplyShort, [Next]_vars PROVE ReplyShort'
    OBVIOUS
  <2>1. CASE reply' = reply
    BY <2>1 DEF ReplyShort
  <2>2. CASE \E status \in Nat : answer(status)
    <3>1. PICK status \in Nat : reply' = HeadOf(status) \o BodyOf(status)
      BY <2>2 DEF answer
    <3>2. Len(HeadOf(status) \o BodyOf(status)) \in 2..4
      BY ResponseIs
    <3> QED BY <3>1, <3>2 DEF ReplyShort, LongestReply
  <2>3. CASE route \/ handle_post
    BY <2>1, <2>2, <2>3, RouteLeads, HandlePostLeads DEF sendVars
  <2>4. CASE \/ recv_headers \/ recv_ends \/ request_line \/ header_line
             \/ recv_body \/ send \/ send_fails \/ peer_leaves
             \/ Terminated \/ UNCHANGED vars
    <3>1. reply' = reply
      BY <2>4, Zenon DEF recv_headers, recv_ends, request_line, header_line, recv_body,
             send, send_fails, peer_leaves, Terminated, vars, sendVars
    <3> QED BY <2>1, <3>1
  <2> QED BY <2>3, <2>4, Zenon DEF Next, ThreadStep
<1> QED BY <1>1, <1>2, PTL DEF Spec

(* The parts of the measure are numbers, each where the thread stands.     *)
LeftIs ==
    /\ BytesLeft \in Nat /\ LinesLeft \in Nat
    /\ BytesLeft = Len(input) - taken /\ Len(input) \in Nat /\ taken \in Nat
    /\ LinesLeft = HTTP_MAX_HEADER + 1 - p /\ p \in Nat
    /\ PartsLeft \in Nat /\ ReplyLeft \in Nat /\ ReplyLeft <= LongestReply
    /\ at = "headers" => PartsLeft = 6
    /\ at = "request" => PartsLeft = 5
    /\ at = "lines" => PartsLeft = 4
    /\ at = "route" => PartsLeft = 3
    /\ at = "body" => PartsLeft = 2
    /\ at = "reply" => PartsLeft = 1 /\ ReplyLeft = Len(reply) - sent
    /\ at \in Finished => PartsLeft = 0 /\ ReplyLeft = 0
    /\ at \in {"headers", "request", "lines", "route", "body"} =>
          ReplyLeft = LongestReply
    /\ at \in {"headers", "request"} => p = 1

LEMMA LeftHolds == Spec => [](IInv /\ LeftIs)
<1>1. IInv /\ ReplyShort /\ NoLineYet => LeftIs
  <2> SUFFICES ASSUME IInv, ReplyShort, NoLineYet PROVE LeftIs
    OBVIOUS
  <2>1. /\ Len(input) \in Nat /\ taken \in 0..Len(input) /\ at \in Places
        /\ Len(hdr) \in Nat /\ Len(hdr) <= HTTP_MAX_HEADER /\ p \in 1..Len(hdr) + 1
        /\ Len(reply) \in Nat /\ sent \in 0..Len(reply)
    BY InputIsSeq DEF IInv, RequestTypeOK
  <2>2. BytesLeft \in Nat /\ BytesLeft = Len(input) - taken
    BY <2>1 DEF BytesLeft
  <2>3. LinesLeft \in Nat /\ LinesLeft = HTTP_MAX_HEADER + 1 - p
    BY <2>1, SizesAre DEF LinesLeft
  <2>4. /\ ReplyLeft \in Nat /\ ReplyLeft <= LongestReply
        /\ at = "reply" => ReplyLeft = Len(reply) - sent
        /\ at \in Finished => ReplyLeft = 0
        /\ at \in {"headers", "request", "lines", "route", "body"} =>
              ReplyLeft = LongestReply
    BY <2>1 DEF ReplyLeft, ReplyShort, LongestReply, Finished, PostHandlers, GetHandlers
  <2>5. /\ at = "headers" => PartsLeft = 6
        /\ at = "request" => PartsLeft = 5
        /\ at = "lines" => PartsLeft = 4
        /\ at = "route" => PartsLeft = 3
        /\ at = "body" => PartsLeft = 2
        /\ at = "reply" => PartsLeft = 1
        /\ at \in Finished => PartsLeft = 0
    BY DEF PartsLeft, Finished, PostHandlers, GetHandlers
  <2>6. PartsLeft \in Nat
    <3>1. PartsLeft \in {0, 1, 2, 3, 4, 5, 6}
      BY <2>1, <2>5, Zenon DEF Places
    <3> QED BY <3>1
  <2> QED BY <2>1, <2>2, <2>3, <2>4, <2>5, <2>6 DEF LeftIs, NoLineYet
<1> QED BY Invariance, ReplyShortHolds, NoLineYetHolds, <1>1, PTL

(* Where a thread goes on to, in the order of the code.                    *)
LEMMA GoesOn ==
    ASSUME LeftIs, LeftIs'
    PROVE  /\ at = "headers" /\ at' \in {"headers", "request", "closed"} =>
                PartsLeft' <= PartsLeft /\ ReplyLeft' <= ReplyLeft
           /\ \/ at \in {"headers", "body", "reply"} /\ at' = "closed"
              \/ at = "request" /\ at' \in {"lines", "closed"}
              \/ at = "route" /\ at' \in {"reply", "body", "handle_mcp_get_stream",
                                         "handle_legacy_sse_get"}
              \/ at = "body" /\ at' \in {"reply", "handle_mcp_post",
                                        "handle_legacy_post_message"}
              \/ at = "reply" /\ at' = "answered"
              => PartsLeft' < PartsLeft /\ ReplyLeft' <= ReplyLeft
<1> DEFINE s == PartsLeft  t == PartsLeft'  u == ReplyLeft  v == ReplyLeft'
<1>1. /\ at = "headers" => s = 6 /\ u = LongestReply
      /\ at = "request" => s = 5 /\ u = LongestReply
      /\ at = "route" => s = 3 /\ u = LongestReply
      /\ at = "body" => s = 2 /\ u = LongestReply
      /\ at = "reply" => s = 1
      /\ s \in Nat /\ u \in Nat /\ u <= LongestReply
  BY DEF LeftIs
<1>2. /\ at' = "headers" => t = 6
      /\ at' = "request" => t = 5
      /\ at' = "lines" => t = 4
      /\ at' = "body" => t = 2
      /\ at' = "reply" => t = 1
      /\ at' \in Finished => t = 0 /\ v = 0
      /\ t \in Nat /\ v \in Nat /\ v <= LongestReply
  BY DEF LeftIs
<1>3. \A h \in {"closed", "answered", "handle_mcp_get_stream", "handle_legacy_sse_get",
                "handle_mcp_post", "handle_legacy_post_message"} : h \in Finished
  BY DEF Finished, GetHandlers, PostHandlers
<1> HIDE DEF s, t, u, v
<1>4. /\ at = "headers" /\ at' \in {"headers", "request", "closed"} => t <= s /\ v <= u
      /\ at \in {"headers", "body", "reply"} /\ at' = "closed" => t < s /\ v <= u
      /\ at = "request" /\ at' \in {"lines", "closed"} => t < s /\ v <= u
  BY <1>1, <1>2, <1>3
<1>5. /\ at = "route" /\ at' \in {"reply", "body", "handle_mcp_get_stream",
                                "handle_legacy_sse_get"} => t < s /\ v <= u
      /\ at = "body" /\ at' \in {"reply", "handle_mcp_post",
                               "handle_legacy_post_message"} => t < s /\ v <= u
      /\ at = "reply" /\ at' = "answered" => t < s /\ v <= u
  BY <1>1, <1>2, <1>3
<1> QED BY <1>4, <1>5, Zenon DEF s, t, u, v

(* Every step takes one of the parts down, and none up.                    *)
LEMMA StepCounts ==
    ASSUME IInv, LeftIs, LeftIs', ThreadStep
    PROVE  StepsLeft' \in 0..StepsLeft - 1
<1>1. /\ PartsLeft \in Nat /\ PartsLeft' \in Nat
      /\ ReplyLeft \in Nat /\ ReplyLeft' \in Nat
      /\ BytesLeft \in Nat /\ BytesLeft' \in Nat
      /\ LinesLeft \in Nat /\ LinesLeft' \in Nat
      /\ ReplyLeft <= LongestReply /\ ReplyLeft' <= LongestReply
  BY Zenon DEF LeftIs
<1>2. ASSUME /\ BytesLeft' <= BytesLeft /\ LinesLeft' <= LinesLeft
             /\ PartsLeft' <= PartsLeft /\ ReplyLeft' <= ReplyLeft
             /\ \/ BytesLeft' < BytesLeft \/ LinesLeft' < LinesLeft
                \/ PartsLeft' < PartsLeft \/ ReplyLeft' < ReplyLeft
      PROVE  StepsLeft' \in 0..StepsLeft - 1
  <2>1. PICK a \in Nat, b \in Nat, c \in Nat, d \in Nat :
           a = BytesLeft' /\ b = LinesLeft' /\ c = PartsLeft' /\ d = ReplyLeft'
    BY <1>1, Zenon
  <2>2. PICK e \in Nat, f \in Nat, g \in Nat, h \in Nat :
           e = BytesLeft /\ f = LinesLeft /\ g = PartsLeft /\ h = ReplyLeft
    BY <1>1, Zenon
  <2>3. /\ a <= e /\ b <= f /\ c <= g /\ d <= h
        /\ a < e \/ b < f \/ c < g \/ d < h
    BY <1>2, <2>1, <2>2, Zenon
  <2>4. a + b + c + d \in 0..(e + f + g + h) - 1
    BY ONLY <2>3
  <2> QED BY <2>1, <2>2, <2>4, Zenon DEF StepsLeft
<1>3. /\ taken' = taken /\ input' = input => BytesLeft' = BytesLeft
      /\ p' = p => LinesLeft' = LinesLeft
  BY DEF BytesLeft, LinesLeft
<1>4. CASE recv_headers
  <2>1. PICK k \in 1..HTTP_MAX_HEADER : taken' = taken + k
    BY <1>4 DEF recv_headers
  <2>2. BytesLeft' < BytesLeft /\ LinesLeft' = LinesLeft
    BY <1>3, <1>4, <2>1, SizesAre DEF recv_headers, lineVars, LeftIs
  <2>3. PartsLeft' <= PartsLeft /\ ReplyLeft' <= ReplyLeft
    <3>1. at = "headers" /\ at' \in {"headers", "request", "closed"}
      BY <1>4, Zenon DEF recv_headers
    <3> QED BY <3>1, GoesOn, Zenon
  <2> QED BY <1>1, <1>2, <2>2, <2>3
<1>5. CASE recv_ends \/ send_fails
  <2>1. BytesLeft' = BytesLeft /\ LinesLeft' = LinesLeft
    BY <1>3, <1>5 DEF recv_ends, send_fails, recvVars, lineVars
  <2>2. PartsLeft' < PartsLeft /\ ReplyLeft' <= ReplyLeft
    <3>1. at \in {"headers", "body", "reply"} /\ at' = "closed"
      BY <1>5 DEF recv_ends, send_fails
    <3> QED BY <3>1, GoesOn, Zenon
  <2> QED BY <1>1, <1>2, <2>1, <2>2
<1>6. CASE request_line
  <2>1. BytesLeft' = BytesLeft
    BY <1>3, <1>6 DEF request_line, recvVars
  <2>2. LinesLeft' <= LinesLeft
    <3> DEFINE e == EolOf(1, Len(hdr))
    <3>1. \/ e > 1 /\ p' = e + 2
          \/ p' = p
      BY <1>6 DEF request_line
    <3>2. p = 1
      BY <1>6 DEF request_line, LeftIs
    <3>3. p' \in Nat /\ p' >= p
      <4>1. 1 \in Nat \ {0} /\ Len(hdr) \in Nat
        BY DEF IInv, RequestTypeOK
      <4>2. e > 1 => e # 0
        OBVIOUS
      <4>3. e # 0 => e \in 1..Len(hdr) - 1
        BY <4>1, EolFinds
      <4> HIDE DEF e
      <4> QED BY <3>1, <3>2, <4>1, <4>2, <4>3
    <3>4. PICK m \in Nat, n \in Nat : m = p' /\ n = p
      BY <3>2, <3>3
    <3>5. n <= m
      BY <3>3, <3>4, Zenon
    <3>6. HTTP_MAX_HEADER + 1 - m <= HTTP_MAX_HEADER + 1 - n
      BY ONLY <3>5, SizesAre
    <3> QED BY <3>4, <3>6, Zenon DEF LinesLeft
  <2>3. PartsLeft' < PartsLeft /\ ReplyLeft' <= ReplyLeft
    <3>1. at = "request" /\ at' \in {"lines", "closed"}
      BY <1>6 DEF request_line
    <3> QED BY <3>1, GoesOn, Zenon
  <2> QED BY <1>1, <1>2, <2>1, <2>2, <2>3
<1>7. CASE header_line
  <2>1. BytesLeft' = BytesLeft
    BY <1>3, <1>7 DEF header_line, recvVars
  <2> DEFINE eol == IF p <= hdr_end THEN EolOf(p, hdr_end) ELSE 0
  <2>2. \/ eol \in {0, p} /\ at' = "route" /\ p' = p
        \/ eol \notin {0, p} /\ p' = eol + 2 /\ at' = at
    BY <1>7 DEF header_line
  <2>3. at = "lines"
    BY <1>7 DEF header_line
  <2>4. CASE at' = "route" /\ p' = p
    BY <1>1, <1>2, <1>3, <2>1, <2>3, <2>4 DEF LeftIs
  <2>5. CASE eol \notin {0, p} /\ p' = eol + 2 /\ at' = at
    <3>1. p <= hdr_end /\ eol = EolOf(p, hdr_end) /\ EolOf(p, hdr_end) # 0
      BY <2>5
    <3>2. p \in Nat \ {0} /\ hdr_end \in Nat
      BY DEF IInv, RequestTypeOK
    <3>3. eol \in p..hdr_end - 1
      BY <3>1, <3>2, EolFinds
    <3>4. LinesLeft' < LinesLeft
      <4>1. p' = eol + 2 /\ eol \in Nat /\ eol >= p
        BY <2>5, <3>2, <3>3
      <4> HIDE DEF eol
      <4> QED BY <3>2, <4>1, SizesAre DEF LinesLeft
    <3>5. PartsLeft' <= PartsLeft /\ ReplyLeft' <= ReplyLeft
      BY <2>3, <2>5 DEF LeftIs, LongestReply
    <3> QED BY <1>1, <1>2, <2>1, <3>4, <3>5
  <2> QED BY <2>2, <2>4, <2>5
<1>8. CASE route
  <2>1. BytesLeft' = BytesLeft /\ LinesLeft' = LinesLeft
    BY <1>3, <1>8, RouteLeads DEF recvVars, lineVars
  <2>2. at = "route" /\ at' \in {"reply", "body", "handle_mcp_get_stream",
                                "handle_legacy_sse_get"}
    BY <1>8, RouteLeads
  <2>3. PartsLeft' < PartsLeft /\ ReplyLeft' <= ReplyLeft
    BY <2>2, GoesOn, Zenon
  <2> QED BY <1>1, <1>2, <2>1, <2>3
<1>9. CASE recv_body
  <2>1. PICK k \in 1..HTTP_MAX_BODY : taken' = taken + k
    BY <1>9 DEF recv_body
  <2>2. BytesLeft' < BytesLeft /\ LinesLeft' = LinesLeft
    BY <1>3, <1>9, <2>1, SizesAre DEF recv_body, lineVars, LeftIs
  <2>3. PartsLeft' <= PartsLeft /\ ReplyLeft' <= ReplyLeft
    BY <1>9 DEF recv_body, LeftIs, LongestReply
  <2> QED BY <1>1, <1>2, <2>2, <2>3
<1>10. CASE handle_post
  <2>1. BytesLeft' = BytesLeft /\ LinesLeft' = LinesLeft
    BY <1>3, <1>10, HandlePostLeads DEF recvVars, lineVars
  <2>2. at = "body" /\ at' \in {"reply", "handle_mcp_post",
                               "handle_legacy_post_message"}
    BY <1>10, HandlePostLeads
  <2>3. PartsLeft' < PartsLeft /\ ReplyLeft' <= ReplyLeft
    BY <2>2, GoesOn, Zenon
  <2> QED BY <1>1, <1>2, <2>1, <2>3
<1>11. CASE send
  <2>1. BytesLeft' = BytesLeft /\ LinesLeft' = LinesLeft
    BY <1>3, <1>11 DEF send, recvVars, lineVars
  <2>2. /\ at = "reply" /\ reply' = reply
        /\ at' = IF sent' = Len(reply) THEN "answered" ELSE "reply"
    BY <1>11 DEF send
  <2>3. PICK k \in 1..(IF sent < 2 THEN 2 ELSE Len(reply)) - sent : sent' = sent + k
    BY <1>11 DEF send
  <2>4. sent \in Nat /\ Len(reply) \in Nat
    BY DEF IInv, RequestTypeOK
  <2>5. CASE at' = "reply"
    <3>1. ReplyLeft = Len(reply) - sent /\ ReplyLeft' = Len(reply) - sent'
      BY <2>2, <2>5 DEF ReplyLeft
    <3>2. ReplyLeft' < ReplyLeft
      BY <2>3, <2>4, <3>1
    <3>3. PartsLeft' = PartsLeft
      BY <2>2, <2>5 DEF PartsLeft
    <3> QED BY <1>1, <1>2, <2>1, <3>2, <3>3
  <2>6. CASE at' = "answered"
    <3>1. PartsLeft' < PartsLeft /\ ReplyLeft' <= ReplyLeft
      BY <2>2, <2>6, GoesOn, Zenon
    <3> QED BY <1>1, <1>2, <2>1, <3>1
  <2> QED BY <2>2, <2>5, <2>6
<1> QED BY <1>4, <1>5, <1>6, <1>7, <1>8, <1>9, <1>10, <1>11 DEF ThreadStep

(* For every input and all sizes: a request takes a thread no more steps   *)
(* than there are bytes in it, lines in the longest header and parts of    *)
(* the code to run; no step is made twice (StepsRunOut).                   *)
THEOREM StepsRunOutCorrect == Spec => StepsRunOut
<1>1. (IInv /\ LeftIs) /\ (IInv /\ LeftIs)' /\ [Next]_vars =>
        [ThreadStep => StepsLeft' \in 0..StepsLeft - 1]_vars
  BY StepCounts
<1> QED BY LeftHolds, <1>1, PTL DEF Spec, StepsRunOut

=============================================================================
