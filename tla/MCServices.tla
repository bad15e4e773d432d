----------------------------- MODULE MCServices -----------------------------
(* Small instances of the parts in Services, for one run. *)
EXTENDS Services

CONSTANTS west, east, k1, k2, k3  \* model values: processes and threads that make keys

\* Threads k1 and k2 are of process west, k3 is of east; their derived worker ids differ.
HomeOf == [t \in Thread |-> IF t = k3 THEN east ELSE west]
Derived == [h \in Process |-> Unset]
SeedOf == [h \in Process |-> IF h = west THEN 2 ELSE 5]

\* Two registrations and a login of one username.
OneName == [c \in UserCall |-> "n"]

\* Nothing, an address the client made up, and no address at all.
ForgedHops == {<<>>, <<"forged">>, <<"garbage">>}
=============================================================================
