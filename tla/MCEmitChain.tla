------------------------------ MODULE MCEmitChain ------------------------------
(* Frames for EmitChain: three activities, two products, at most one input. *)
EXTENDS EmitChain

MCActivity == {1, 3, 8}
MCProduct == {1, 13}
MCFlow == {21, 22}

\* Each activity may produce each product once, with an amount or (8 its first
\* only) without; activity 1 with a factor or without, its first product twice
\* or with a factor that is no number.
Made(a, p) ==
    LET all == {q \in Rows({a}) : q.kind = "production" /\ q.in = p}
        some == {q \in all : \/ Weighs(q) /\ (a = 8 /\ p = 13 => q.made)
                             \/ a = 1 /\ q.factor = "zero" /\ (p = 1 \/ q.made)
                             \/ a = 1 /\ p = 1 /\ q.factor = "unusable" /\ q.made}
    IN {{}} \cup {{q} : q \in some} \cup
       IF a = 1 /\ p = 1 THEN {{q \in all : Weighs(q)}} ELSE {}

Inputs == {{}} \cup {{r} : r \in {q \in Rows(MCActivity) : q.kind = "technosphere"}}
Emissions == {q \in Rows(MCActivity) : q.kind = "biosphere" /\ (q.out = 3 => q.in = 21)}

MCFrames == {a \cup b \cup c \cup d \cup e \cup f \cup i \cup Emissions :
    a \in Made(1, 1), b \in Made(1, 13), c \in Made(3, 1), d \in Made(3, 13),
    e \in Made(8, 1), f \in Made(8, 13), i \in Inputs}
=============================================================================
