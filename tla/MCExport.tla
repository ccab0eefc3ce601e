------------------------------ MODULE MCExport ------------------------------
EXTENDS Export

Seg(f, t, fmt) == [from |-> f, to |-> t, format |-> fmt]

\* One segment of a format, two of another, the last of which cannot be read.
ThreeSegments == {Seg(1, 2, "ts"), Seg(2, 4, "mp4"), Seg(4, 5, "mp4")}
LastUnreadable == {Seg(4, 5, "mp4")}

\* A request over the change of format, which begins where the second segment
\* does: it is split, the part split off is a second job, and what is left of the
\* first has length 0.
OneRequest == {[from |-> 2, to |-> 4]}
=============================================================================
