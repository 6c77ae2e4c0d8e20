-------------------------- MODULE StreamReceiverMC --------------------------
(***************************************************************************)
(* An instance of StreamReceiver for TLC: bytes of three values, and a     *)
(* stream of each kind.                                                    *)
(***************************************************************************)
EXTENDS StreamReceiver

\* Sizes that a kind of frame does not use are those of CDS_reset_stream_config_.
Stream(kind, header, footer, size, max, strict, capacity) ==
    [kind |-> kind, header |-> header, footer |-> footer, size |-> size, max |-> max,
     strict |-> strict, capacity |-> capacity, pos |-> Len(header), offset |-> Len(header) + 1 + Len(footer)]

\* A stream whose frames carry a length, to which offset is added.
Lengths(header, footer, offset, max, strict) ==
    [Stream("LENGTH", header, footer, -1, max, strict, 5) EXCEPT !.offset = offset]

\* Frames whose header may appear in their data; the first two also within their header.
WholeStreams ==
    {Stream("FIXED", <<1, 1>>, <<2>>, 4, 9, FALSE, 6),
     Stream("FIXED", <<1, 2>>, <<>>, 4, 9, TRUE, 6),
     Stream("FIXED", <<>>, <<2, 1>>, 3, 9, FALSE, 6),
     Stream("LENGTH", <<1>>, <<0>>, -1, 4, FALSE, 5),
     Stream("LENGTH", <<1>>, <<2>>, -1, 5, TRUE, 6),
     Stream("FOOTER", <<1>>, <<2, 0>>, -1, 5, FALSE, 6),
     Stream("FOOTER", <<>>, <<1, 2>>, -1, 3, FALSE, 6)}

\* Frames without data, and lengths that do not cover themselves or the footer: with the
\* offset 0 of a length that is the size of the whole frame, and with larger ones.
DefaultLengths == {Lengths(<<1>>, <<>>, 0, 4, FALSE)}
NoData == {Stream("FIXED", <<1, 2>>, <<>>, 2, 9, FALSE, 6)}
ShortStreams ==
    DefaultLengths \cup NoData \cup
    {Lengths(<<1>>, <<>>, 1, 5, TRUE), Lengths(<<1>>, <<2>>, 1, 5, FALSE),
     Lengths(<<1>>, <<2, 1>>, 2, 5, FALSE)}

SmallStreams == WholeStreams \cup ShortStreams
=============================================================================
