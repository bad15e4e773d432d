---------------------------- MODULE MCAuthTokens ----------------------------
(* Small instances of AuthTokens for TLC. *)
EXTENDS AuthTokens, TLC

CONSTANTS p, q, s, t     \* model values: two processes and two threads

\* Each process serves one request at a time.
OneEach == [x \in {s, t} |-> IF x = s THEN p ELSE q]

\* The processes may be exchanged together with their threads.
Swap == {[x \in {p, q, s, t} |-> x],
         [x \in {p, q, s, t} |-> CASE x = p -> q [] x = q -> p [] x = s -> t [] x = t -> s]}
=============================================================================
