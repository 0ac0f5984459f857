---- MODULE MCSdoTransfer ----
(***************************************************************************)
(* Small instances of SdoTransfer.  Segments carry two bytes and expedited *)
(* frames one, so that values of one to five bytes take every path: in one *)
(* frame, in one, two or three segments.  All bytes of the two long values *)
(* differ, so that mixed values cannot go unnoticed.                       *)
(***************************************************************************)
EXTENDS SdoTransfer

CONSTANTS a, b, m, b1, b2, b3, b4, b5, c1, c2, c3

MCBytes == {b1, b2, b3, b4, b5, c1, c2, c3}

\* Three values: expedited, two segments, three segments.
MCValues == {<<c1>>, <<c1, c2, c3>>, <<b1, b2, b3, b4, b5>>}

\* With the empty value and one that fits one segment.
MCMoreValues == {<<>>, <<c1>>, <<c1, c2>>, <<b1, b2, b3, b4, b5>>}

\* Two objects without a fixed size.
MCObjects == {a, b}
MCInitial == [o \in MCObjects |-> <<c1>>]
MCWidth == [o \in MCObjects |-> 0]

\* Object a is a two-byte number without a value, b is read-only, m is missing.
MCAsked == {a, b, m}
MCWritable == {a}
MCNumberInitial == [o \in MCObjects |-> IF o = a THEN NoValue ELSE <<c1>>]
MCNumberWidth == [o \in MCObjects |-> IF o = a THEN 2 ELSE 0]
====
