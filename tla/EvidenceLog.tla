----------------------------- MODULE EvidenceLog -----------------------------
(* The tail of a check's output that is kept as evidence: tailBuffer of       *)
(* line/witness/evidence.go, a ring that every write of the command may fill, *)
(* wrap or replace. Bytes are numbered as they are written.                   *)
EXTENDS Integers, Sequences

CONSTANTS
    Max,       \* bytes kept
    Lengths,   \* lengths of a write
    MaxBytes   \* bound: bytes written

VARIABLES
    wrote,   \* bytes written so far
    ring     \* tailBuffer: buf, start, dropped

elVars == <<wrote, ring>>

\* The bytes from the i-th to the j-th.
Bytes(i, j) == [k \in 1..(j - i + 1) |-> i + k - 1]
Smaller(a, b) == IF a < b THEN a ELSE b

\* A full ring: the write replaces the oldest bytes from start on, up to the end
\* of buf and again from its beginning.
Overwrite(b, p) ==
    LET at == [k \in DOMAIN p |-> ((b.start + k - 1) % Max) + 1] IN
    [buf |-> [i \in DOMAIN b.buf |-> IF \E k \in DOMAIN p : at[k] = i THEN p[CHOOSE k \in DOMAIN p : at[k] = i]
                                ELSE b.buf[i]],
     start |-> (b.start + Len(p)) % Max, dropped |-> TRUE]

\* Mutant: a write as long as the ring leaves start where it was.
StoredKeepsStart(b, p) ==
    IF Len(p) >= Max
    THEN [buf |-> SubSeq(p, Len(p) - Max + 1, Len(p)), start |-> b.start,
          dropped |-> b.dropped \/ Len(p) > Max \/ Len(b.buf) > 0]
    ELSE LET take == Smaller(Max - Len(b.buf), Len(p))
             filled == [b EXCEPT !.buf = @ \o SubSeq(p, 1, take)]
             rest == SubSeq(p, take + 1, Len(p)) IN
         IF rest = <<>> THEN filled ELSE Overwrite(filled, rest)

Stored(b, p) ==
    IF Len(p) >= Max
    THEN [buf |-> SubSeq(p, Len(p) - Max + 1, Len(p)), start |-> 0,
          dropped |-> b.dropped \/ Len(p) > Max \/ Len(b.buf) > 0]
    ELSE LET take == Smaller(Max - Len(b.buf), Len(p))
             filled == [b EXCEPT !.buf = @ \o SubSeq(p, 1, take)]
             rest == SubSeq(p, take + 1, Len(p)) IN
         IF rest = <<>> THEN filled ELSE Overwrite(filled, rest)

Write ==
    \E n \in Lengths :
        /\ wrote + n <= MaxBytes
        /\ ring' = Stored(ring, Bytes(wrote + 1, wrote + n))
        /\ wrote' = wrote + n

Init == wrote = 0 /\ ring = [buf |-> <<>>, start |-> 0, dropped |-> FALSE]

Next == Write

\* result, without the line that says output was dropped.
Result(b) == SubSeq(b.buf, b.start + 1, Len(b.buf)) \o SubSeq(b.buf, 1, b.start)

------------------------------------------------------------------------------

\* However the output was cut into writes, the evidence is its last Max bytes in
\* order, and it is marked as truncated exactly when something is missing.
TailIsExact ==
    /\ Result(ring) = Bytes(IF wrote > Max THEN wrote - Max + 1 ELSE 1, wrote)
    /\ ring.dropped <=> (wrote > Max)
==============================================================================
