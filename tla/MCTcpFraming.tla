---------------------------- MODULE MCTcpFraming ----------------------------
(* Small instances of TcpFraming for TLC, in the modes that Configuration makes of what *)
(* the environment says.                                                                *)
EXTENDS TcpFraming, TLC

CONSTANTS x, s, t      \* model values: a letter, two bytes used in delimiters

C == INSTANCE Configuration

Default == [mode |-> C!Unset, length |-> C!Unset, separator |-> C!Unset,
            head |-> C!Unset, tail |-> C!Unset]
Line(sep) == [Default EXCEPT !.separator = C!Says(sep)]
Fixed(n) == [Default EXCEPT !.mode = C!Says("fixed"), !.length = C!Says(n)]
HeadTail(head, tail) ==
    [Default EXCEPT !.mode = C!Says("head_tail"), !.head = C!Says(head), !.tail = C!Says(tail)]

\* Delimiters of one and two bytes, one that overlaps itself, a tail that is part of the
\* head, a head that is its own tail, a tail that begins with the head; and settings that
\* fall back to lines.
Environments ==
    {Line(<<s, t>>), Line(<<s, s>>), Fixed(1), Fixed(2),
     HeadTail(<<s>>, <<t>>), HeadTail(<<s, t>>, <<t>>), HeadTail(<<s>>, <<s>>),
     HeadTail(<<s>>, <<s, t>>),
     Fixed(0), Fixed(-1), HeadTail(<<>>, <<t>>), HeadTail(<<s>>, <<>>), Line(<<>>),
     [Default EXCEPT !.mode = C!Bad], [Fixed(1) EXCEPT !.mode = C!Says("lines")]}
AllModes == {C!FramingOf(env, <<s>>) : env \in Environments}

OneByteMarkers == {C!FramingOf(HeadTail(<<s>>, <<t>>), <<s>>)}

\* Every number is accepted or replaced: whatever is set, the settled value respects the
\* limit, and is what was set if that does.
ASSUME LimitsHold ==
    \A limits \in C!Limits : \A name \in DOMAIN limits :
      \A n \in {-1, 0, 1, limits[name].least - 1, limits[name].least} :
        LET settled == C!Settled(limits, [m \in DOMAIN limits |-> C!Says(n)])[name]
        IN  settled >= limits[name].least /\ (n >= limits[name].least => settled = n)
=============================================================================
