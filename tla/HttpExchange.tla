---------------------------- MODULE HttpExchange ----------------------------
(***************************************************************************)
(* What an http_connection promises its listener: requests are made one    *)
(* after the other, a new one replaces the one under way; the content of   *)
(* the request under way, and of no other, is delivered in order; and it   *)
(* ends at most once, with on_http_complete or on_http_error, unless it is *)
(* closed or replaced before.                                              *)
(***************************************************************************)
EXTENDS Naturals, Sequences

CONSTANTS MaxRequests, Body(_, _)   \* Body(r, i): unit i of r's content

VARIABLES
    current,     \* the request under way, or 0
    made,        \* requests made so far
    content,     \* content[r]: what has been delivered for r
    outcome      \* outcome[r]: the final calls for r

vars == <<current, made, content, outcome>>

Init ==
    /\ current = 0 /\ made = 0
    /\ content = [r \in 1 .. MaxRequests |-> <<>>]
    /\ outcome = [r \in 1 .. MaxRequests |-> <<>>]

Request ==
    /\ made' = made + 1 /\ current' = made + 1
    /\ UNCHANGED <<content, outcome>>

Deliver ==
    /\ current # 0
    /\ content'[current] = [i \in 1 .. Len(content'[current]) |-> Body(current, i)]
    /\ Len(content'[current]) > Len(content[current])
    /\ content' = [content EXCEPT ![current] = content'[current]]
    /\ UNCHANGED <<current, made, outcome>>

Finish ==
    /\ current # 0 /\ outcome[current] = <<>>
    /\ \E o \in {"complete", "error"} : outcome' = [outcome EXCEPT ![current] = <<o>>]
    /\ current' = 0
    /\ UNCHANGED <<made, content>>

Close == current # 0 /\ current' = 0 /\ UNCHANGED <<made, content, outcome>>

Next == Request \/ Deliver \/ Finish \/ Close

Spec == Init /\ [][Next]_vars
=============================================================================
