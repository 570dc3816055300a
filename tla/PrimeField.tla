----------------------------- MODULE PrimeField -----------------------------
(***************************************************************************)
(* The scalar field Fr, its radix-2 evaluation domains and dense           *)
(* polynomials, over a small prime.  Groups of prime order are written     *)
(* additively through discrete logarithms: the element [a]G of G1, G2 or   *)
(* the target group is the scalar a, and the pairing multiplies.           *)
(***************************************************************************)
EXTENDS Integers, Sequences, FiniteSets

CONSTANT P   \* the prime order of the groups

ASSUME PrimeAssumption ==
    /\ P \in Nat /\ P > 1
    /\ \A a, b \in 1 .. P - 1 : (a * b) % P # 0

Field == 0 .. P - 1

Add(a, b) == (a + b) % P
Sub(a, b) == (a - b) % P
Mul(a, b) == (a * b) % P
Neg(a) == (-a) % P

\* Field::inverse; only defined for a # 0, where the code unwraps it.
Inverses == [a \in 1 .. P - 1 |-> CHOOSE b \in Field : Mul(a, b) = 1]

Inv(a) == Inverses[a]

Div(a, b) == Mul(a, Inv(b))

Pairing(a, b) == Mul(a, b)

\* The sum and the product of f[i] over the indices 1 .. n.
SumTo(f, n) ==
    LET s[i \in 0 .. n] == IF i = 0 THEN 0 ELSE Add(s[i - 1], f[i])
    IN  s[n]

ProductTo(f, n) ==
    LET s[i \in 0 .. n] == IF i = 0 THEN 1 ELSE Mul(s[i - 1], f[i])
    IN  s[n]

Power(a, n) == ProductTo([i \in 1 .. n |-> a], n)

-----------------------------------------------------------------------------
(***************************************************************************)
(* Radix2EvaluationDomain.                                                 *)
(***************************************************************************)

\* The size for n points: the next power of two.
DomainSizeFor(n) ==
    CHOOSE s \in {2^k : k \in 0 .. n} :
        s >= n /\ \A k \in 0 .. n : 2^k >= n => s <= 2^k

PrimitiveRoot(w, s) == Power(w, s) = 1 /\ \A j \in 1 .. s - 1 : Power(w, j) # 1

\* A primitive root of unity of order s.
GroupGen(s) == CHOOSE w \in Field : PrimitiveRoot(w, s)

\* Domain::element(i), i counted from 0, of the domain for n points.
Element(n, i) == Power(GroupGen(DomainSizeFor(n)), i)

-----------------------------------------------------------------------------
(***************************************************************************)
(* DensePolynomial: the sequence of its coefficients, lowest first.        *)
(***************************************************************************)
Polynomials(n) == [1 .. n -> Field]

Evaluate(poly, x) ==
    SumTo([i \in 1 .. Len(poly) |-> Mul(poly[i], Power(x, i - 1))], Len(poly))
=============================================================================
