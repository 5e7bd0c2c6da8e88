----------------------------- MODULE Responder ------------------------------
(***************************************************************************)
(* What a transport promises a JSON-RPC client that sends one line at a    *)
(* time: at most one reply to each line, before the next line is taken,    *)
(* that answers to the request in it; and none to a notification or a      *)
(* blank line.                                                             *)
(* A reply may be missing: that the transport does not lose one when it    *)
(* can help it is a property of the transport.                             *)
(***************************************************************************)
EXTENDS Naturals, Sequences, TLAPS

CONSTANTS Owed     \* Owed[line]: what a reply to the line may answer to

VARIABLES
    heard,         \* the lines taken so far
    said,          \* the replies made so far
    over           \* the transport has stopped

Init == heard = <<>> /\ said = <<>> /\ over = FALSE

Hear(line) ==
    /\ ~over
    /\ heard' = Append(heard, line)
    /\ UNCHANGED <<said, over>>

Say ==
    /\ ~over /\ heard # <<>>
    /\ \A i \in DOMAIN said : said[i].line # Len(heard)
    /\ \E to \in Owed[heard[Len(heard)]] :
          said' = Append(said, [line |-> Len(heard), to |-> to])
    /\ UNCHANGED <<heard, over>>

Stop == ~over /\ over' = TRUE /\ UNCHANGED <<heard, said>>

Next == (\E line \in DOMAIN Owed : Hear(line)) \/ Say \/ Stop

Spec == Init /\ [][Next]_<<heard, said, over>>

----------------------------------------------------------------------------
(* What follows from the promise.                                          *)

(* Replies come in the order of the lines, at most one to each, and every  *)
(* one answers to what its line asked.                                     *)
RepliesMatch ==
    \A i \in DOMAIN said :
        /\ said[i].line \in DOMAIN heard
        /\ said[i].to \in Owed[heard[said[i].line]]
        /\ \A j \in 1..i - 1 : said[j].line < said[i].line

TypeOK ==
    /\ heard \in Seq(DOMAIN Owed)
    /\ said \in Seq([line : Nat, to : UNION {Owed[l] : l \in DOMAIN Owed}])

(* A reply is the only one to the last line.                               *)
LEMMA SayMatches == ASSUME TypeOK, RepliesMatch, Say PROVE TypeOK' /\ RepliesMatch'
<1> DEFINE n == Len(heard)
<1>1. n \in DOMAIN heard /\ heard[n] \in DOMAIN Owed /\ n \in Nat
  BY DEF TypeOK, Say
<1>2. PICK to \in Owed[heard[n]] : said' = Append(said, [line |-> n, to |-> to])
  BY DEF Say
<1>3. \A i \in DOMAIN said : said[i].line < n
  <2> TAKE i \in DOMAIN said
  <2>1. said[i].line \in DOMAIN heard /\ said[i].line # n
    BY DEF RepliesMatch, Say
  <2>. QED BY <1>1, <2>1 DEF TypeOK
<1>4. UNCHANGED heard
  BY DEF Say
<1> HIDE DEF n
<1>5. TypeOK'
  BY <1>1, <1>2, <1>4 DEF TypeOK
<1>6. /\ DOMAIN said' = 1..Len(said) + 1 /\ Len(said) \in Nat
      /\ \A i \in DOMAIN said : i \in 1..Len(said) /\ said'[i] = said[i]
      /\ said'[Len(said) + 1] = [line |-> n, to |-> to]
  BY <1>2 DEF TypeOK
<1>7. ASSUME NEW i \in DOMAIN said'
      PROVE  /\ said'[i].line \in DOMAIN heard
             /\ said'[i].to \in Owed[heard[said'[i].line]]
             /\ \A j \in 1..i - 1 : said'[j].line < said'[i].line
  <2>1. CASE i \in DOMAIN said
    <3>1. DOMAIN said = 1..Len(said)
      BY DEF TypeOK
    <3>2. \A j \in 1..i - 1 : j \in DOMAIN said
      BY <1>6, <2>1, <3>1
    <3>. QED BY <1>6, <2>1, <3>2, Zenon DEF RepliesMatch
  <2>2. CASE i = Len(said) + 1
    BY <1>1, <1>2, <1>3, <1>6, <2>2 DEF TypeOK
  <2>. QED BY <1>6, <2>1, <2>2 DEF TypeOK
<1>. QED BY <1>4, <1>5, <1>7 DEF RepliesMatch

(* Replies stay with their lines when another line is taken.               *)
LEMMA HearMatches ==
    ASSUME TypeOK, RepliesMatch, NEW line \in DOMAIN Owed, Hear(line)
    PROVE  TypeOK' /\ RepliesMatch'
<1>1. TypeOK' /\ said' = said
  BY DEF TypeOK, Hear
<1>2. \A k \in DOMAIN heard : k \in DOMAIN heard' /\ heard'[k] = heard[k]
  BY DEF TypeOK, Hear
<1>. QED BY <1>1, <1>2 DEF RepliesMatch

(* The promise means one reply to a line at most, in the order of lines.   *)
THEOREM PromiseMeans == Spec => []RepliesMatch
<1>1. Init => TypeOK /\ RepliesMatch
  BY DEF Init, TypeOK, RepliesMatch
<1>2. TypeOK /\ RepliesMatch /\ [Next]_<<heard, said, over>>
          => TypeOK' /\ RepliesMatch'
  <2>1. CASE UNCHANGED <<heard, said, over>> \/ Stop
    BY <2>1 DEF TypeOK, RepliesMatch, Stop
  <2>. QED BY <2>1, SayMatches, HearMatches DEF Next
<1>. QED BY <1>1, <1>2, PTL DEF Spec
=============================================================================
