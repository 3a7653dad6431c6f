----------------------------- MODULE MCApiCall ------------------------------
(* Constants for model-checking ApiCall. *)
EXTENDS ApiCall

MCCodes == <<"10001", "10002", "10004">>

MCChunks == <<"points 1-100", "points 101-200", "points from 201">>

\* Hundredths and thousandths of the display unit.
C(n) == n * (Unit \div 100)
M(n) == n * (Unit \div 1000)

\* Values at, just inside and just outside bounds, and half-way values for each of
\* the scales 1, 10 and 1000 and for each parity and sign.
MCNumbers ==
    {0, 1, 3, -1, -3, Unit - 1, Unit + 1, M(1), M(-1001), M(1001)} \cup
    {C(n) : n \in {5, 10, 50, 100, 150, 4995, 5004, 6000, 6004, 6996, 7000, 7005, 7015, 10000, 10004,
                   99950, 499950, 500000, 900000, -100, -101, -6000, -6004, -285, -250}}
MCValues ==
    {Float(Num(n)) : n \in MCNumbers} \cup {Float(Special(k)) : k \in {"inf", "-inf", "nan"}}
    \cup {Whole(0, "0"), Whole(85, "85"), Whole(170, "170"), Whole(187, "187")}
    \cup {Text("Charge", "charge"), Text("discharge", "discharge"), Text("enable", "enable"), Text("on", "on")}

MCNames == DOMAIN PARAMETERS \cup {"power_on", "10001"}

\* None, open, and between two steps of the scale 1 or at one.
MCBounds ==
    {<<None, None>>, <<Special("-inf"), Special("inf")>>, <<None, Num(C(499950))>>, <<Num(C(-300)), None>>}

\* TLC's integers have 32 bits: a thousand times a value of thousands does not fit.
Fits(w) ==
    w.name = "pf" /\ w.value.number # None /\ w.value.number.kind = "number"
        => w.value.number.n \in -(10 ^ 6)..(10 ^ 6)

MCWrites ==
    {w \in {[name |-> n, value |-> v, minimum |-> b[1], maximum |-> b[2]] :
               n \in MCNames, v \in MCValues, b \in MCBounds} : Fits(w)}
=============================================================================
